------------------------- MODULE TicketDelivery_proofs -------------------------
(***************************************************************************)
(* Theorems about TicketDelivery for every set of tickets, every order and *)
(* every kind of run.                                                      *)
(*                                                                         *)
(* What a step may rely on is nowhere but in Git, the journal and the QA   *)
(* heads: the invariant says what they have in common, first for each      *)
(* ticket, then for the ticket the host is at.                             *)
(***************************************************************************)
EXTENDS TicketDelivery, FiniteSetTheorems, TLAPS

Qas == {"none", "open", "passed", "finalizing", "completed", "waived"}
Statuses == {"none", "in_progress", "uncertain", "failed", "confirmed"}
Reasons == {"builder", "terminal", "qa", "published", "drift", "commit", "push", "review", "collision",
            "refused commit", "refused push", "refused review", "refused merge",
            "base", "staged", "merge", "merge commit", "merge drift", "late edit", "receipt"}
Intents == Seq(Nat \cup Reasons)
Entry == [status: Statuses, intent: Intents]
Journal == [Ticket -> [Kind -> Entry]]
Tracker == [Ticket -> {"planned", "in_progress", "blocked", "done"}]

Idle == {"off", "next"}
Building == {"open", "build", "qa", "review"}
Committing == {"finalize", "commit", "committing", "committed", "verify"}
Pushing == {"pushing", "pushed", "requesting", "requested"}
Merging == {"merge", "merging", "checking", "staging", "squashing", "staged", "merged", "cleanup",
            "removing", "deleting"}
Closing == {"complete", "completing", "completed", "closing", "close", "tidy"}
Places == Idle \cup Building \cup Committing \cup Pushing \cup Merging \cup Closing
Delivering == {"commit", "committing", "committed", "verify",
               "complete", "completing", "completed", "closing"}
              \cup Pushing \cup Merging

Status(t, k) == journal[t][k].status
Standing == {"in_progress", "confirmed"}
Review == {"open", "passed", "finalizing"}

TypeOK ==
  /\ tree \in [Ticket -> Nat] /\ head \in [Ticket -> Nat] /\ remote \in [Ticket -> Nat]
  /\ wt \in [Ticket -> BOOLEAN] /\ br \in [Ticket -> BOOLEAN]
  /\ base \in Seq((Ticket \cup {None}) \X Nat)
  /\ qa \in [Ticket -> Qas] /\ DOMAIN cert = Ticket /\ \A t \in Ticket : cert[t].tree \in Nat
  /\ journal \in Journal /\ tracker \in Tracker
  /\ session \in [Ticket -> {"none", "active", "completed"}]
  /\ interrupted \in Ticket \cup {None}
  /\ at \in Places /\ (at \notin Idle => node \in Ticket)

(* What is taken up was planned for as its session says; with pending QA only   *)
(* that ticket is.                                                              *)
Queued ==
  /\ queue \subseteq Ticket /\ (at \notin Idle => node \notin queue)
  /\ \A t \in queue : session[t] = IF t \in resumed THEN "active" ELSE "none"
  /\ qaOnly \in queue => qa[qaOnly] \in Review

(* A ticket without a session is untouched, and only such a one is built from   *)
(* nothing; before the first invocation all of them are.                        *)
Fresh(t) == session[t] = "none" => qa[t] = "none" /\ \A k \in Kind : Status(t, k) = "none"
Beginning ==
  /\ ~ options.qa => \A t \in Ticket : qa[t] = "none"
  /\ run = "new" => at = "off" /\ \A t \in Ticket : session[t] = "none"
Untouched == Beginning /\ \A t \in Ticket : Fresh(t)

(* Contents only grow.                                                          *)
Grown(t) ==
  /\ head[t] <= tree[t] /\ (wt[t] => br[t])
  /\ qa[t] \in {"passed", "finalizing"} => cert[t].tree <= tree[t]
Contents == \A t \in Ticket : Grown(t)

(* The journal knows of every merge, where it belongs and what it merged.       *)
MergeKnown(t) ==
  /\ Status(t, "merge") \in {"none", "in_progress", "confirmed"}
  /\ Status(t, "merge") \in Standing =>
        /\ options.completion = "merge" /\ Source(t) \in Nat /\ Frozen(t) \in Nat
        /\ Frozen(t) <= Len(base) /\ head[t] # 0
  /\ Status(t, "merge") = "confirmed" =>
        Frozen(t) < Len(base) /\ base[Frozen(t) + 1] = <<t, Source(t)>>
Intended(i) ==
  LET t == base[i][1]
  IN  t # None => /\ t \in Ticket /\ Status(t, "merge") \in Standing
                  /\ Frozen(t) < i /\ base[i][2] = Source(t)
                  /\ \A j \in DOMAIN base : base[j][1] = t => j = i
Unmerged(t) == \A i \in DOMAIN base : base[i][1] # t
Staging ==
  /\ staged \in {<<>>, <<None, 0>>} \/
       \E t \in Ticket : /\ Status(t, "merge") = "in_progress"
                         /\ staged = <<t, Source(t)>> /\ Unmerged(t)
  /\ at = "squashing" => staged = <<>> /\ Unmerged(node)
Merges ==
  /\ \A t \in Ticket : MergeKnown(t)
  /\ \A i \in DOMAIN base : Intended(i)
  /\ Staging

(* What has been merged, or may be, is certified.                               *)
MergeCertified(t) ==
  options.qa /\ t \notin late /\ Status(t, "merge") \in Standing =>
       \/ qa[t] = "waived"
       \/ /\ Source(t) = cert[t].tree
          /\ qa[t] = "finalizing" \/ (qa[t] = "completed" /\ Status(t, "merge") = "confirmed")
Certificates == \A t \in Ticket : MergeCertified(t)

(* The journal knows of every push and every request.                           *)
PushKnown(t) ==
  /\ Status(t, "push") # "none" => options.completion = "review" /\ head[t] # 0
  /\ Status(t, "review") # "none" => Status(t, "push") # "none"
  /\ Status(t, "push") = "confirmed" => remote[t] = journal[t]["push"].intent[1] \/ t \in late
  /\ Status(t, "review") = "confirmed" => t \in request
  /\ Status(t, "remote-block") # "none" => \/ Status(t, "push") \in {"failed", "uncertain"}
                                           \/ Status(t, "review") \in {"failed", "uncertain"}
Pushes == \A t \in Ticket : PushKnown(t)

(* A ticket that is done, or about to be.                                       *)
Delivered(t) ==
  /\ \A k \in {"push", "review", "merge"} : Status(t, k) \in {"none", "confirmed"}
  /\ Status(t, "push") = Status(t, "review")
  /\ options.qa => qa[t] \in {"finalizing", "completed", "waived"}
  /\ /\ qa[t] = "finalizing" /\ options.completion # "none"
     /\ Status(t, "push") = "none" /\ Status(t, "merge") = "none"
     => cert[t].tree = 0
Recorded(t) == Status(t, "complete") \in Standing \/ Status(t, "merge") = "confirmed"
DoneWell(t) == tracker[t] = "done" => Delivered(t) /\ Recorded(t)
Done == \A t \in Ticket : DoneWell(t)

(* Where the QA head of the ticket is at each place of the host.                *)
Heads ==
  /\ at \notin Idle \cup {"open", "build"} => session[node] # "none"
  /\ at = "open" /\ recovering => qa[node] = "finalizing"
  /\ at = "open" /\ qaOnly = node => qa[node] \in Review
  /\ at \in Building /\ ~ recovering => qa[node] # "finalizing"
  /\ at \in {"build", "qa", "review"} => ~ recovering
  /\ at = "review" => qa[node] = "open"
  /\ at = "finalize" => qa[node] = IF recovering THEN "finalizing" ELSE "passed"
  /\ at \in {"qa", "review", "finalize"} => options.qa
  /\ at \in Delivering /\ options.qa => qa[node] \in {"finalizing", "waived"}

(* How far the journal is when it pushes, and what the branch holds by then.    *)
Certified(t) == qa[t] = "waived" \/ (qa[t] = "finalizing" /\ head[t] = cert[t].tree)
Receipts ==
  /\ at \in {"committed", "verify"} /\ options.qa /\ qa[node] = "finalizing" => cert[node].tree <= head[node]
  /\ at \in {"pushing", "merge"} => head[node] # 0
  /\ at \in {"pushing", "merge"} /\ options.qa /\ node \notin late => Certified(node)
  /\ at \in Pushing => options.completion = "review"
  /\ at \in {"pushing", "pushed"} => Status(node, "push") \in Standing
  /\ at = "pushing" => journal[node]["push"].intent[1] = head[node] \/ node \in late
  /\ at = "pushed" => journal[node]["push"].intent[1] = remote[node] \/ node \in late
  /\ at \in {"requesting", "requested"} => Status(node, "push") = "confirmed" /\ Status(node, "review") \in Standing
  /\ at = "requested" => node \in request

(* And when it merges and completes.                                            *)
Standings == {"merging", "checking", "staging", "squashing", "staged", "merged"}
Removing == {"cleanup", "removing", "deleting"}
Completing == {"complete", "completing", "completed", "closing"}
Later == {"open", "close", "tidy"} \cup Merging \cup Completing
Closings ==
  /\ at \in Merging => options.completion = "merge"
  /\ at \in Standings => Status(node, "merge") \in Standing
  /\ at \in {"checking", "staging", "squashing"} => Status(node, "merge") = "in_progress"
  /\ at \in Removing => Status(node, "merge") = "confirmed"
  /\ at = "tidy" => options.completion # "merge"
  /\ viaMerge => at \in Standings \cup Removing \cup {"complete", "closing", "close"}
  /\ viaMerge /\ at \in {"complete", "closing", "close"} => Status(node, "merge") = "confirmed"
  /\ at \in Completing => Delivered(node)
  /\ at \in {"completing", "completed"} => Status(node, "complete") \in Standing
  /\ at = "closing" => Recorded(node)
  /\ at \notin Idle \cup Completing \cup {"close", "tidy", "open"} /\ tracker[node] = "done" =>
       qa[node] = "finalizing"
  /\ at = "open" /\ tracker[node] = "done" => recovering \/ qaOnly # node
  /\ at = "merge" /\ tracker[node] = "done" => Status(node, "merge") = "confirmed"

(* Where a merged source is removed, the branch holds what was merged, or what  *)
(* was committed since the last check.                                          *)
Removal ==
  /\ at \in {"removing", "deleting"} /\ br[node] =>
       head[node] = Source(node) \/ <<node, head[node]>> \in unseen
  /\ at = "deleting" => ~ wt[node]

IInv == TypeOK /\ Queued /\ Untouched /\ Contents /\ Merges /\ Certificates /\ Pushes /\ Done
        /\ Heads /\ Receipts /\ Closings /\ Removal

-----------------------------------------------------------------------------
(* How a step leaves the journal, the tracker and the plan.                     *)

Rows(K) == \A t \in Ticket, k \in Kind : t # node \/ k \notin K => journal'[t][k] = journal[t][k]
Kept == UNCHANGED <<node, queue, resumed, qaOnly, recovering, viaMerge>>
Left == at' \in Idle /\ viaMerge' = FALSE /\ (queue' = {} \/ UNCHANGED <<queue, resumed, qaOnly>>)
Marked == tracker' \in Tracker /\ \A t \in Ticket : tracker'[t] \in {tracker[t], "blocked"}

Stopped(K) == journal' \in Journal /\ Rows(K) /\ Left /\ Marked
Moved(label, K) == journal' \in Journal /\ Rows(K) /\ at' = label /\ Kept /\ tracker' = tracker

Notes == {"runtime-block"}
Checks == {"runtime-block", "commit", "merge", "complete"}
Drifted ==
  \/ Stopped(Notes) /\ qa' = qa
  \/ /\ Stopped(Checks) /\ qa' = [qa EXCEPT ![node] = "open"] /\ ~ Publishing(node)
     /\ journal[node]["merge"].status = "none" /\ journal'[node]["merge"].status = "none"

Put(j, t, k, r) == [j EXCEPT ![t][k] = r]
Mark(j, t, k, s) == [j EXCEPT ![t][k].status = s]
Besides(q, j, t, k) == \A u \in Ticket, m \in Kind : u # t \/ m # k => q[u][m] = j[u][m]

Puts(q, j, t, k, r) == q[t][k] = r /\ Besides(q, j, t, k)
Marks(q, j, t, k, s) == q[t][k].status = s /\ q[t][k].intent = j[t][k].intent /\ Besides(q, j, t, k)
Plans(q, j, t, k, i) ==
  /\ \/ q[t][k] = j[t][k] /\ j[t][k].status = "confirmed"
     \/ q[t][k].status = "in_progress" /\ q[t][k].intent = i /\ j[t][k].status # "confirmed"
  /\ Besides(q, j, t, k)

(* A row put in the journal leaves every other row as it was.                   *)
LEMMA PutRow ==
  ASSUME NEW j \in Journal, NEW t \in Ticket, NEW k \in Kind, NEW r \in Entry,
         NEW q, q = Put(j, t, k, r)
  PROVE  /\ q \in Journal /\ q[t][k] = r
         /\ \A u \in Ticket, m \in Kind : u # t \/ m # k => q[u][m] = j[u][m]
<1>1. j \in [Ticket -> [Kind -> Entry]]
  BY DEF Journal
<1>2. PICK f : f = [j[t] EXCEPT ![k] = r]
  OBVIOUS
<1>3. f \in [Kind -> Entry] /\ f[k] = r /\ \A m \in Kind : m # k => f[m] = j[t][m]
  BY <1>1, <1>2
<1>4. q = [j EXCEPT ![t] = f]
  BY <1>2 DEF Put
<1> HIDE DEF Entry
<1>5. QED
  BY <1>1, <1>3, <1>4 DEF Journal

(* So does a new status, and the intent of the row stays.                       *)
LEMMA PutStatus ==
  ASSUME NEW j \in Journal, NEW t \in Ticket, NEW k \in Kind, NEW s \in Statuses,
         NEW q, q = Mark(j, t, k, s)
  PROVE  /\ q \in Journal /\ q[t][k].status = s /\ q[t][k].intent = j[t][k].intent
         /\ \A u \in Ticket, m \in Kind : u # t \/ m # k => q[u][m] = j[u][m]
<1>1. j[t][k] \in Entry
  BY DEF Journal
<1>2. PICK r : r = [j[t][k] EXCEPT !.status = s]
  OBVIOUS
<1>3. r \in Entry /\ r.status = s /\ r.intent = j[t][k].intent
  BY <1>1, <1>2 DEF Entry
<1>4. q = Put(j, t, k, r)
  BY <1>2 DEF Put, Mark
<1>5. q \in Journal
  BY <1>3, <1>4, PutRow
<1>6. q[t][k] = r
  BY <1>3, <1>4, PutRow
<1>7. \A u \in Ticket, m \in Kind : u # t \/ m # k => q[u][m] = j[u][m]
  BY <1>3, <1>4, PutRow
<1>8. QED
  BY <1>3, <1>5, <1>6, <1>7

(* The same, for rows named by the step.                                        *)
LEMMA PutNamed ==
  ASSUME NEW j \in Journal, NEW t \in Ticket, NEW k \in Kind, NEW r \in Entry,
         NEW q, q = Put(j, t, k, r)
  PROVE  q \in Journal /\ Puts(q, j, t, k, r)
BY PutRow DEF Puts, Besides

(* The same, for a new status.                                                  *)
LEMMA MarkNamed ==
  ASSUME NEW j \in Journal, NEW t \in Ticket, NEW k \in Kind, NEW s \in Statuses,
         NEW q, q = Mark(j, t, k, s)
  PROVE  q \in Journal /\ Marks(q, j, t, k, s)
BY PutStatus DEF Marks, Besides

(* The base is a sequence.                                                      *)
LEMMA Lengths ==
  ASSUME TypeOK
  PROVE  Len(base) \in Nat /\ DOMAIN base = 1 .. Len(base)
<1>1. PICK S : S = (Ticket \cup {None}) \X Nat
  OBVIOUS
<1>2. base \in Seq(S)
  BY <1>1, Zenon DEF TypeOK
<1>3. QED
  BY <1>2

Longer == Len(base') = Len(base) + 1 /\ \A i \in 1 .. Len(base) : base'[i] = base[i]

(* A commit to the base leaves every earlier one where it was.                  *)
LEMMA Appending ==
  ASSUME TypeOK, NEW e, base' = Append(base, e)
  PROVE  /\ Longer /\ DOMAIN base' = 1 .. Len(base) + 1 /\ base'[Len(base) + 1] = e
         /\ e \in (Ticket \cup {None}) \X Nat => base' \in Seq((Ticket \cup {None}) \X Nat)
<1>1. PICK S : S = (Ticket \cup {None}) \X Nat
  OBVIOUS
<1>2. base \in Seq(S)
  BY <1>1, Zenon DEF TypeOK
<1>3. Len(base) \in Nat /\ DOMAIN base = 1 .. Len(base)
  BY <1>2
<1>4. PICK T : T = S \cup {e}
  OBVIOUS
<1>5. base \in Seq(T) /\ e \in T
  BY <1>2, <1>3, <1>4
<1>6. Len(base') = Len(base) + 1 /\ DOMAIN base' = 1 .. Len(base) + 1 /\ base'[Len(base) + 1] = e
      /\ \A i \in 1 .. Len(base) : base'[i] = base[i]
  BY <1>5
<1>7. e \in S => base' \in Seq(S)
  BY <1>2
<1>8. QED
  BY <1>1, <1>6, <1>7 DEF Longer

(* The catch of the loop writes its one key and leaves the ticket, or the run.  *)
LEMMA RuntimeBlocked ==
  ASSUME TypeOK, node \in Ticket, NEW j \in Journal, NEW d \in Reasons, RuntimeBlock(j, d)
  PROVE  /\ journal' \in Journal /\ Left /\ Marked
         /\ \A t \in Ticket, k \in Kind : t # node \/ k # "runtime-block" => journal'[t][k] = j[t][k]
<1>1. CASE /\ journal' = [j EXCEPT ![node]["runtime-block"] = Row("confirmed", <<d>>)]
           /\ tracker' = [tracker EXCEPT ![node] = "blocked"]
           /\ Settle("blocked")
  <2>1. Row("confirmed", <<d>>) \in Entry /\ "runtime-block" \in Kind
    BY DEF Row, Entry, Statuses, Intents, Kind
  <2>0. journal' = Put(j, node, "runtime-block", Row("confirmed", <<d>>))
    BY <1>1 DEF Put
  <2>5. journal' \in Journal
    BY <2>0, <2>1, PutRow
  <2>2. \A t \in Ticket, k \in Kind : t # node \/ k # "runtime-block" => journal'[t][k] = j[t][k]
    BY <2>0, <2>1, PutRow
  <2>3. Marked
    BY <1>1 DEF Marked, TypeOK, Tracker
  <2>4. Left
    BY <1>1 DEF Left, Settle, Idle
  <2>6. QED
    BY <2>2, <2>3, <2>4, <2>5
<1>2. CASE journal' = j /\ UNCHANGED tracker /\ Halt
  <2>1. Left
    BY <1>2 DEF Left, Halt, Forgotten, Idle
  <2>2. Marked
    BY <1>2 DEF Marked, TypeOK
  <2>3. QED
    BY <1>2, <2>1, <2>2
<1>3. QED
  BY <1>1, <1>2, Zenon DEF RuntimeBlock

(* So does a block the loop decides itself, under the key of that block.        *)
LEMMA BlockedBy ==
  ASSUME TypeOK, node \in Ticket, NEW j \in Journal, NEW d \in Reasons, NEW k \in Kind, Block(k, j, d)
  PROVE  /\ journal' \in Journal /\ Left /\ Marked
         /\ \A t \in Ticket, m \in Kind : t # node \/ m \notin {k, "runtime-block"} => journal'[t][m] = j[t][m]
         /\ j[node][k].status = "none" => tracker'[node] = "blocked"
<1>1. CASE /\ journal' = [j EXCEPT ![node][k] = Row("confirmed", <<d>>)]
           /\ tracker' = [tracker EXCEPT ![node] = "blocked"]
           /\ Settle("blocked")
  <2>1. Row("confirmed", <<d>>) \in Entry
    BY DEF Row, Entry, Statuses, Intents
  <2>0. journal' = Put(j, node, k, Row("confirmed", <<d>>))
    BY <1>1 DEF Put
  <2>5. journal' \in Journal
    BY <2>0, <2>1, PutRow
  <2>2. \A t \in Ticket, m \in Kind : t # node \/ m # k => journal'[t][m] = j[t][m]
    BY <2>0, <2>1, PutRow
  <2>3. Marked /\ tracker'[node] = "blocked"
    BY <1>1 DEF Marked, TypeOK, Tracker
  <2>4. Left
    BY <1>1 DEF Left, Settle, Idle
  <2>6. QED
    BY <2>2, <2>3, <2>4, <2>5
<1>2. CASE ~ KeyFree(j, k, d) /\ RuntimeBlock(j, "collision")
  <2>1. j[node][k].status # "none"
    BY <1>2 DEF KeyFree
  <2>2. "collision" \in Reasons
    BY DEF Reasons
  <2>3. /\ journal' \in Journal /\ Left /\ Marked
        /\ \A t \in Ticket, m \in Kind : t # node \/ m # "runtime-block" => journal'[t][m] = j[t][m]
    BY <1>2, <2>2, RuntimeBlocked, Zenon
  <2>4. QED
    BY <2>1, <2>3
<1>3. QED
  BY <1>1, <1>2, Zenon DEF Block

(* And a recovered merge, which writes nothing.                                 *)
LEMMA MergeBlocked ==
  ASSUME TypeOK, node \in Ticket, NEW j \in Journal, NEW d \in Reasons, MergeBlock(j, d)
  PROVE  /\ journal' \in Journal /\ Left /\ Marked
         /\ \A t \in Ticket, k \in Kind : t # node \/ k # "runtime-block" => journal'[t][k] = j[t][k]
<1>1. CASE journal' = j /\ UNCHANGED tracker /\ Settle("blocked")
  <2>1. Left
    BY <1>1 DEF Left, Settle, Idle
  <2>2. Marked
    BY <1>1 DEF Marked, TypeOK
  <2>3. QED
    BY <1>1, <2>1, <2>2
<1>2. CASE RuntimeBlock(j, d)
  BY <1>2, RuntimeBlocked, Zenon
<1>3. QED
  BY <1>1, <1>2, Zenon DEF MergeBlock

(* What stops at the journal as it is leaves only a note.                       *)
LEMMA Noted ==
  ASSUME TypeOK, node \in Ticket, NEW d \in Reasons, RuntimeBlock(journal, d) \/ MergeBlock(journal, d)
  PROVE  Stopped(Notes)
<1>1. journal \in Journal
  BY DEF TypeOK
<1>2. /\ journal' \in Journal /\ Left /\ Marked
      /\ \A t \in Ticket, k \in Kind : t # node \/ k # "runtime-block" => journal'[t][k] = journal[t][k]
  BY <1>1, RuntimeBlocked, MergeBlocked, Zenon
<1>3. QED
  BY <1>2 DEF Stopped, Rows, Notes

(* A new check of the source begins with fresh rows.                            *)
LEMMA Renewing ==
  ASSUME TypeOK, NEW t \in Ticket, NEW q, q = Renewed(t)
  PROVE  /\ q \in Journal /\ q[t]["merge"].status = "none"
         /\ \A u \in Ticket, k \in Kind : u # t \/ k \notin {"commit", "merge", "complete"} => q[u][k] = journal[u][k]
<1>1. journal \in [Ticket -> [Kind -> Entry]]
  BY DEF Journal, TypeOK
<1>2. PICK f : f = [k \in Kind |-> IF k \in {"commit", "merge", "complete"} THEN Unplanned ELSE journal[t][k]]
  OBVIOUS
<1>3. q = [journal EXCEPT ![t] = f]
  BY <1>2 DEF Renewed
<1>4. Unplanned \in Entry /\ Unplanned.status = "none"
  BY DEF Unplanned, Entry, Statuses, Intents
<1>5. "merge" \in Kind
  BY DEF Kind
<1>6. f \in [Kind -> Entry] /\ f["merge"].status = "none"
      /\ \A k \in Kind : k \notin {"commit", "merge", "complete"} => f[k] = journal[t][k]
  BY <1>1, <1>2, <1>4, <1>5
<1>7. QED
  BY <1>1, <1>3, <1>6 DEF Journal

(* A planned row is under way with its intent, or confirmed as it was.          *)
LEMMA Planning ==
  ASSUME TypeOK, NEW t \in Ticket, NEW k \in Kind, NEW i \in Intents, NEW q, q = Planned(t, k, i)
  PROVE  q \in Journal /\ Plans(q, journal, t, k, i)
<1>1. journal \in Journal /\ journal[t][k] \in Entry
  BY DEF TypeOK, Journal
<1>2. PICK r : r = IF journal[t][k].status = "confirmed" THEN journal[t][k] ELSE Row("in_progress", i)
  OBVIOUS
<1>3. r \in Entry
  BY <1>1, <1>2 DEF Row, Entry, Statuses
<1>4. \/ r = journal[t][k] /\ journal[t][k].status = "confirmed"
      \/ r.status = "in_progress" /\ r.intent = i /\ journal[t][k].status # "confirmed"
  BY <1>2 DEF Row
<1>5. q = Put(journal, t, k, r)
  BY <1>2 DEF Planned, Put
<1>6. q \in Journal
  BY <1>1, <1>3, <1>5, PutRow
<1>7. q[t][k] = r
  BY <1>1, <1>3, <1>5, PutRow
<1>8. \A u \in Ticket, m \in Kind : u # t \/ m # k => q[u][m] = journal[u][m]
  BY <1>1, <1>3, <1>5, PutRow
<1>9. QED
  BY <1>4, <1>6, <1>7, <1>8 DEF Plans, Besides

(* A source that drifted is reviewed anew only if nothing may be published.     *)
LEMMA Drifting ==
  ASSUME TypeOK, Merges, node \in Ticket, SourceDrifted
  PROVE  Drifted
<1>1. CASE RuntimeBlock(journal, "published") /\ UNCHANGED qa
  <2>1. "published" \in Reasons
    BY DEF Reasons
  <2>2. Stopped(Notes)
    BY <1>1, <2>1, Noted, Zenon
  <2>3. QED
    BY <1>1, <2>2 DEF Drifted
<1>2. CASE ~ Publishing(node) /\ RuntimeBlock(Renewed(node), "drift") /\ qa' = [qa EXCEPT ![node] = "open"]
  <2>1. PICK q : q = Renewed(node)
    OBVIOUS
  <2>2. RuntimeBlock(q, "drift") /\ "drift" \in Reasons
    BY <1>2, <2>1, Zenon DEF Reasons
  <2>3. /\ q \in Journal /\ q[node]["merge"].status = "none"
        /\ \A u \in Ticket, k \in Kind : u # node \/ k \notin {"commit", "merge", "complete"} => q[u][k] = journal[u][k]
    BY <2>1, Renewing
  <2>4. /\ journal' \in Journal /\ Left /\ Marked
        /\ \A t \in Ticket, k \in Kind : t # node \/ k # "runtime-block" => journal'[t][k] = q[t][k]
    BY <2>2, <2>3, RuntimeBlocked, Zenon
  <2>5. "merge" \in Kind /\ "merge" # "runtime-block"
    BY DEF Kind
  <2>6. journal'[node]["merge"].status = "none"
    BY <2>3, <2>4, <2>5
  <2>7. Rows(Checks)
    BY <2>3, <2>4 DEF Rows, Checks
  <2>8. journal[node]["merge"].status = "none"
    BY <1>2 DEF Publishing, OpenStates, Merges, MergeKnown, Status
  <2>9. QED
    BY <1>2, <2>4, <2>6, <2>7, <2>8 DEF Drifted, Stopped
<1>3. QED
  BY <1>1, <1>2, Zenon DEF SourceDrifted

(* One row gets a new status, with or without a block after it.                 *)
LEMMA MarkRow ==
  ASSUME TypeOK, node \in Ticket, NEW k \in Kind, NEW s \in Statuses, journal' = Mark(journal, node, k, s)
  PROVE  /\ journal' \in Journal /\ Rows({k})
         /\ journal'[node][k].status = s /\ journal'[node][k].intent = journal[node][k].intent
<1>1. journal \in Journal
  BY DEF TypeOK
<1>2. journal' \in Journal
  BY <1>1, PutStatus
<1>3. journal'[node][k].status = s /\ journal'[node][k].intent = journal[node][k].intent
  BY <1>1, PutStatus
<1>4. \A u \in Ticket, m \in Kind : u # node \/ m # k => journal'[u][m] = journal[u][m]
  BY <1>1, PutStatus
<1>5. QED
  BY <1>2, <1>3, <1>4 DEF Rows

(* A row is marked and the ticket blocked.                                      *)
LEMMA MarkBlocked ==
  ASSUME TypeOK, node \in Ticket, NEW k \in Kind, NEW s \in Statuses, NEW d \in Reasons, k # "runtime-block",
         RuntimeBlock(Mark(journal, node, k, s), d)
  PROVE  /\ Stopped({k, "runtime-block"})
         /\ journal'[node][k].status = s /\ journal'[node][k].intent = journal[node][k].intent
<1>1. PICK q : q = Mark(journal, node, k, s)
  OBVIOUS
<1>2. journal \in Journal
  BY DEF TypeOK
<1>3. q \in Journal
  BY <1>1, <1>2, PutStatus
<1>4. q[node][k].status = s /\ q[node][k].intent = journal[node][k].intent
  BY <1>1, <1>2, PutStatus
<1>5. \A u \in Ticket, m \in Kind : u # node \/ m # k => q[u][m] = journal[u][m]
  BY <1>1, <1>2, PutStatus
<1>6. RuntimeBlock(q, d)
  BY <1>1
<1>7. /\ journal' \in Journal /\ Left /\ Marked
      /\ \A t \in Ticket, m \in Kind : t # node \/ m # "runtime-block" => journal'[t][m] = q[t][m]
  BY <1>3, <1>6, RuntimeBlocked, Zenon
<1>8. QED
  BY <1>4, <1>5, <1>7 DEF Stopped, Rows

(* A row is marked and the remote block recorded.                               *)
LEMMA MarkBlockedBy ==
  ASSUME TypeOK, node \in Ticket, NEW k \in Kind, NEW s \in Statuses, NEW d \in Reasons,
         k \notin {"remote-block", "runtime-block"}, Block("remote-block", Mark(journal, node, k, s), d)
  PROVE  /\ Stopped({k, "remote-block", "runtime-block"})
         /\ journal'[node][k].status = s /\ journal'[node][k].intent = journal[node][k].intent
         /\ journal[node]["remote-block"].status = "none" => tracker'[node] = "blocked"
<1>1. PICK q : q = Mark(journal, node, k, s)
  OBVIOUS
<1>2. journal \in Journal /\ "remote-block" \in Kind
  BY DEF TypeOK, Kind
<1>3. q \in Journal
  BY <1>1, <1>2, PutStatus
<1>4. q[node][k].status = s /\ q[node][k].intent = journal[node][k].intent
  BY <1>1, <1>2, PutStatus
<1>5. \A u \in Ticket, m \in Kind : u # node \/ m # k => q[u][m] = journal[u][m]
  BY <1>1, <1>2, PutStatus
<1>6. Block("remote-block", q, d)
  BY <1>1
<1>7. /\ journal' \in Journal /\ Left /\ Marked
      /\ \A t \in Ticket, m \in Kind : t # node \/ m \notin {"remote-block", "runtime-block"} => journal'[t][m] = q[t][m]
      /\ q[node]["remote-block"].status = "none" => tracker'[node] = "blocked"
  BY <1>2, <1>3, <1>6, BlockedBy, Zenon
<1>8. QED
  BY <1>2, <1>4, <1>5, <1>7 DEF Stopped, Rows

(* A row that is confirmed is left as it was.                                   *)
LEMMA Conflicting ==
  ASSUME TypeOK, node \in Ticket, NEW k \in Kind, Conflict(k)
  PROVE  Stopped(Notes) /\ Status(node, k) = "confirmed"
<1>1. "receipt" \in Reasons /\ RuntimeBlock(journal, "receipt") /\ Status(node, k) = "confirmed"
  BY DEF Reasons, Conflict, Status
<1>2. QED
  BY <1>1, Noted, Zenon

(* A step towards the remote that fails marks its row, or leaves a confirmed one. *)
LEMMA Failing ==
  ASSUME TypeOK, node \in Ticket, NEW k \in {"push", "review"}, NEW s \in {"failed", "uncertain"}, Fails(k, s)
  PROVE  \/ Stopped(Notes) /\ Status(node, k) = "confirmed"
         \/ /\ Stopped({k, "remote-block", "runtime-block"})
            /\ journal'[node][k].status \in {"failed", "uncertain"}
            /\ Status(node, "remote-block") = "none" => tracker'[node] = "blocked"
<1>1. k \in Kind /\ k \in Reasons /\ s \in Statuses /\ k \notin {"remote-block", "runtime-block"}
  BY DEF Kind, Reasons, Statuses
<1>2. CASE Conflict(k)
  BY <1>1, <1>2, Conflicting, Zenon
<1>3. CASE Block("remote-block", [journal EXCEPT ![node][k].status = s], k)
  <2>1. Block("remote-block", Mark(journal, node, k, s), k)
    BY <1>3 DEF Mark
  <2>2. /\ Stopped({k, "remote-block", "runtime-block"}) /\ journal'[node][k].status = s
        /\ journal[node]["remote-block"].status = "none" => tracker'[node] = "blocked"
    BY <1>1, <2>1, MarkBlockedBy, Zenon
  <2>3. QED
    BY <2>2 DEF Status
<1>4. QED
  BY <1>2, <1>3, Zenon DEF Fails

-----------------------------------------------------------------------------
(* What each step of the host does, in these terms.                             *)

(* The Builder's turn ends: its session is active.                              *)
LEMMA BuilderEndsEffect ==
  ASSUME IInv, NEW how \in {"done", "blocked", "error"}, BuilderEnds(how)
  PROVE  /\ at = "build" /\ node \in Ticket
         /\ UNCHANGED <<options, git, qa, cert, run, late>>
         /\ session' = [session EXCEPT ![node] = "active"] /\ interrupted' \in Ticket \cup {None}
         /\ \/ Stopped({"builder-block", "runtime-block"})
            \/ Moved(IF options.qa THEN "qa" ELSE "commit", {})
<1>1. TypeOK /\ at = "build" /\ node \in Ticket
  BY DEF IInv, TypeOK, BuilderEnds, Idle
<1>2. /\ UNCHANGED <<options, git, qa, cert, run, late>> /\ session' = [session EXCEPT ![node] = "active"]
      /\ interrupted' \in Ticket \cup {None}
  BY <1>1 DEF BuilderEnds, bounds, TypeOK
<1>3. "builder" \in Reasons /\ "builder-block" \in Kind /\ journal \in Journal
  BY <1>1 DEF Reasons, Kind, TypeOK
<1>4. CASE Goto(IF options.qa THEN "qa" ELSE "commit") /\ UNCHANGED <<journal, tracker>>
  <2>1. Moved(IF options.qa THEN "qa" ELSE "commit", {})
    BY <1>3, <1>4 DEF Moved, Kept, Goto, plan, Rows
  <2>2. QED
    BY <1>1, <1>2, <2>1
<1>5. CASE Block("builder-block", journal, "builder")
  <2>1. /\ journal' \in Journal /\ Left /\ Marked
        /\ \A t \in Ticket, m \in Kind : t # node \/ m \notin {"builder-block", "runtime-block"}
              => journal'[t][m] = journal[t][m]
    BY <1>1, <1>3, <1>5, BlockedBy, Zenon
  <2>2. QED
    BY <1>1, <1>2, <2>1 DEF Stopped, Rows
<1>6. CASE RuntimeBlock(journal, "builder")
  <2>1. Stopped(Notes)
    BY <1>1, <1>3, <1>6, Noted, Zenon
  <2>2. QED
    BY <1>1, <1>2, <2>1 DEF Stopped, Rows, Notes
<1>7. QED
  BY <1>4, <1>5, <1>6, Zenon DEF BuilderEnds

(* A review begins unless the protocol has ended.                               *)
LEMMA BeginQaEffect ==
  ASSUME IInv, BeginQa
  PROVE  /\ at = "qa" /\ node \in Ticket /\ UNCHANGED <<options, git, cert, session, run, interrupted, late>>
         /\ \/ Stopped(Notes) /\ qa' = qa
            \/ Moved("review", {}) /\ qa' = [qa EXCEPT ![node] = "open"] /\ qa[node] \notin {"waived", "completed"}
<1>1. TypeOK /\ at = "qa" /\ node \in Ticket /\ journal \in Journal /\ "terminal" \in Reasons
  BY DEF IInv, TypeOK, BeginQa, Idle, Reasons
<1>2. UNCHANGED <<options, git, cert, session, run, interrupted, late>>
  BY DEF BeginQa, bounds
<1>3. CASE RuntimeBlock(journal, "terminal") /\ UNCHANGED qa
  <2>1. Stopped(Notes)
    BY <1>1, <1>3, Noted, Zenon
  <2>2. QED
    BY <1>1, <1>2, <1>3, <2>1
<1>4. CASE /\ qa[node] \notin {"waived", "completed"} /\ qa' = [qa EXCEPT ![node] = "open"]
           /\ Goto("review") /\ UNCHANGED <<journal, tracker>>
  <2>1. Moved("review", {})
    BY <1>1, <1>4 DEF Moved, Kept, Goto, plan, Rows
  <2>2. QED
    BY <1>1, <1>2, <1>4, <2>1
<1>5. QED
  BY <1>3, <1>4, Zenon DEF BeginQa

(* A review may block the ticket.                                               *)
LEMMA QaBlocksEffect ==
  ASSUME IInv, QaBlocks
  PROVE  /\ at = "review" /\ node \in Ticket /\ UNCHANGED <<options, git, qa, cert, session, run, interrupted, late>>
         /\ Stopped({"qa-block", "runtime-block"})
<1>1. TypeOK /\ at = "review" /\ node \in Ticket /\ journal \in Journal /\ "qa" \in Reasons /\ "qa-block" \in Kind
  BY DEF IInv, TypeOK, QaBlocks, Idle, Reasons, Kind
<1>2. UNCHANGED <<options, git, qa, cert, session, run, interrupted, late>> /\ Block("qa-block", journal, "qa")
  BY DEF QaBlocks, bounds
<1>3. /\ journal' \in Journal /\ Left /\ Marked
      /\ \A t \in Ticket, m \in Kind : t # node \/ m \notin {"qa-block", "runtime-block"}
            => journal'[t][m] = journal[t][m]
  BY <1>1, <1>2, BlockedBy, Zenon
<1>4. QED
  BY <1>1, <1>2, <1>3 DEF Stopped, Rows

(* The source as certified is finalized; anything else is reviewed again.       *)
LEMMA BeginFinalizationEffect ==
  ASSUME IInv, BeginFinalization
  PROVE  /\ at = "finalize" /\ node \in Ticket /\ ~ recovering
         /\ UNCHANGED <<options, git, cert, session, run, interrupted, late>>
         /\ \/ Stopped(Notes) /\ qa' = [qa EXCEPT ![node] = "open"]
            \/ Moved("commit", {}) /\ qa' = [qa EXCEPT ![node] = "finalizing"] /\ Digest(node) = cert[node]
<1>1. TypeOK /\ at = "finalize" /\ node \in Ticket /\ journal \in Journal /\ "drift" \in Reasons
  BY DEF IInv, TypeOK, BeginFinalization, Idle, Reasons
<1>2. ~ recovering /\ UNCHANGED <<options, git, cert, session, run, interrupted, late>>
  BY DEF BeginFinalization, bounds
<1>3. CASE RuntimeBlock(journal, "drift") /\ qa' = [qa EXCEPT ![node] = "open"]
  <2>1. Stopped(Notes)
    BY <1>1, <1>3, Noted, Zenon
  <2>2. QED
    BY <1>1, <1>2, <1>3, <2>1
<1>4. CASE /\ Digest(node) = cert[node] /\ qa' = [qa EXCEPT ![node] = "finalizing"]
           /\ Goto("commit") /\ UNCHANGED <<journal, tracker>>
  <2>1. Moved("commit", {})
    BY <1>1, <1>4 DEF Moved, Kept, Goto, plan, Rows
  <2>2. QED
    BY <1>1, <1>2, <1>4, <2>1
<1>5. QED
  BY <1>3, <1>4, Zenon DEF BeginFinalization

(* A finalization goes on where the source is still the certified one.          *)
LEMMA ResumeFinalizationEffect ==
  ASSUME IInv, ResumeFinalization
  PROVE  /\ at = "finalize" /\ node \in Ticket /\ recovering
         /\ UNCHANGED <<options, git, cert, session, run, interrupted, late>>
         /\ options.qa /\ (Drifted \/ (Moved("commit", {}) /\ qa' = qa))
<1>1. TypeOK /\ Merges /\ at = "finalize" /\ node \in Ticket /\ journal \in Journal /\ options.qa
  BY DEF IInv, TypeOK, ResumeFinalization, Idle, Heads
<1>2. recovering /\ UNCHANGED <<options, git, cert, session, run, interrupted, late>>
  BY DEF ResumeFinalization, bounds
<1>3. CASE SourceDrifted
  BY <1>1, <1>2, <1>3, Drifting
<1>4. CASE Goto("commit") /\ UNCHANGED <<qa, journal, tracker>>
  <2>1. Moved("commit", {})
    BY <1>1, <1>4 DEF Moved, Kept, Goto, plan, Rows
  <2>2. QED
    BY <1>1, <1>2, <1>4, <2>1
<1>5. QED
  BY <1>3, <1>4, Zenon DEF ResumeFinalization

(* A commit is planned for what is not committed yet.                           *)
LEMMA PlanCommitEffect ==
  ASSUME IInv, PlanCommit
  PROVE  /\ at = "commit" /\ node \in Ticket
         /\ UNCHANGED <<options, git, cert, session, run, interrupted, late>>
         /\ \/ Drifted /\ options.qa
            \/ Stopped(Notes) /\ qa' = qa
            \/ Moved("verify", {}) /\ qa' = qa /\ tree[node] = head[node]
            \/ Moved("committing", {"commit"}) /\ qa' = qa
<1>1. TypeOK /\ Merges /\ at = "commit" /\ node \in Ticket /\ journal \in Journal
      /\ "refused commit" \in Reasons /\ "commit" \in Kind
  BY DEF IInv, TypeOK, PlanCommit, Idle, Reasons, Kind
<1>2. UNCHANGED <<options, git, cert, session, run, interrupted, late>>
  BY DEF PlanCommit, bounds
<1>3. CASE SourceDrifted /\ options.qa
  BY <1>1, <1>2, <1>3, Drifting
<1>4. CASE ~ Dirty(node) /\ Goto("verify") /\ UNCHANGED <<qa, journal, tracker>>
  <2>1. Moved("verify", {}) /\ tree[node] = head[node]
    BY <1>1, <1>4 DEF Moved, Kept, Goto, plan, Rows, Dirty
  <2>2. QED
    BY <1>1, <1>2, <1>4, <2>1
<1>5. CASE journal' = Planned(node, "commit", <<>>) /\ Goto("committing") /\ UNCHANGED tracker /\ UNCHANGED qa
  <2>1. <<>> \in Intents
    BY DEF Intents
  <2>2. journal' \in Journal /\ Plans(journal', journal, node, "commit", <<>>)
    BY <1>1, <1>5, <2>1, Planning, Zenon
  <2>3. \A u \in Ticket, m \in Kind : u # node \/ m # "commit" => journal'[u][m] = journal[u][m]
    BY <2>2, Zenon DEF Plans, Besides
  <2>4. Moved("committing", {"commit"})
    BY <1>5, <2>2, <2>3 DEF Moved, Kept, Goto, plan, Rows
  <2>5. QED
    BY <1>1, <1>2, <1>5, <2>4
<1>6. CASE RuntimeBlock(journal, "refused commit") /\ UNCHANGED qa
  <2>1. Stopped(Notes)
    BY <1>1, <1>6, Noted, Zenon
  <2>2. QED
    BY <1>1, <1>2, <1>6, <2>1
<1>7. QED
  BY <1>3, <1>4, <1>5, <1>6, Zenon DEF PlanCommit, Bound

(* The branch gets all of the worktree, or the commit fails.                    *)
LEMMA CommitAllEffect ==
  ASSUME IInv, CommitAll
  PROVE  /\ at = "committing" /\ node \in Ticket
         /\ UNCHANGED <<options, tree, wt, br, base, staged, remote, request, qa, cert, session, run, interrupted, late>>
         /\ \/ Moved("committed", {}) /\ head' = [head EXCEPT ![node] = tree[node]]
            \/ Stopped({"commit", "runtime-block"}) /\ head' = head
<1>1. TypeOK /\ at = "committing" /\ node \in Ticket /\ journal \in Journal
      /\ "commit" \in Reasons /\ "commit" \in Kind /\ "failed" \in Statuses
  BY DEF IInv, TypeOK, CommitAll, Idle, Reasons, Kind, Statuses
<1>2. UNCHANGED <<options, tree, wt, br, base, staged, remote, request, qa, cert, session, run, interrupted, late>>
  BY DEF CommitAll, bounds
<1>3. CASE head' = [head EXCEPT ![node] = tree[node]] /\ Goto("committed") /\ UNCHANGED <<journal, tracker>>
  <2>1. Moved("committed", {})
    BY <1>1, <1>3 DEF Moved, Kept, Goto, plan, Rows
  <2>2. QED
    BY <1>1, <1>2, <1>3, <2>1
<1>4. CASE RuntimeBlock([journal EXCEPT ![node]["commit"].status = "failed"], "commit") /\ UNCHANGED head
  <2>1. RuntimeBlock(Mark(journal, node, "commit", "failed"), "commit")
    BY <1>4 DEF Mark
  <2>2. "commit" # "runtime-block"
    OBVIOUS
  <2>3. Stopped({"commit", "runtime-block"})
    BY <1>1, <2>1, <2>2, MarkBlocked, Zenon
  <2>4. QED
    BY <1>1, <1>2, <1>4, <2>3
<1>5. CASE Conflict("commit") /\ UNCHANGED head
  <2>1. Stopped(Notes)
    BY <1>1, <1>5, Conflicting, Zenon
  <2>2. Stopped({"commit", "runtime-block"})
    BY <2>1 DEF Stopped, Rows, Notes
  <2>3. QED
    BY <1>1, <1>2, <1>5, <2>2
<1>6. QED
  BY <1>3, <1>4, <1>5, Zenon DEF CommitAll

(* The commit has its receipt, unless its row holds an earlier one.             *)
LEMMA ConfirmCommitEffect ==
  ASSUME IInv, ConfirmCommit
  PROVE  /\ at = "committed" /\ node \in Ticket
         /\ UNCHANGED <<options, git, qa, cert, session, run, interrupted, late>>
         /\ Stopped(Notes) \/ Moved("verify", {"commit"})
<1>1. TypeOK /\ at = "committed" /\ node \in Ticket /\ "commit" \in Kind /\ "confirmed" \in Statuses
  BY DEF IInv, TypeOK, ConfirmCommit, Idle, Kind, Statuses
<1>2. UNCHANGED <<options, git, qa, cert, session, run, interrupted, late>>
  BY DEF ConfirmCommit, bounds
<1>3. CASE Conflict("commit")
  BY <1>1, <1>2, <1>3, Conflicting, Zenon
<1>4. CASE /\ journal' = [journal EXCEPT ![node]["commit"].status = "confirmed"]
           /\ Goto("verify") /\ UNCHANGED tracker
  <2>1. journal' = Mark(journal, node, "commit", "confirmed")
    BY <1>4 DEF Mark
  <2>2. journal' \in Journal /\ Rows({"commit"})
    BY <1>1, <2>1, MarkRow, Zenon
  <2>3. QED
    BY <1>1, <1>2, <1>4, <2>2 DEF Moved, Kept, Goto, plan
<1>5. QED
  BY <1>3, <1>4, Zenon DEF ConfirmCommit

(* After the last look at the source, the delivery is chosen and a push planned. *)
LEMMA VerifyPublicationEffect ==
  ASSUME IInv, VerifyPublication
  PROVE  /\ at = "verify" /\ node \in Ticket
         /\ UNCHANGED <<options, git, cert, session, run, interrupted, late>>
         /\ \/ Drifted /\ options.qa
            \/ /\ qa' = qa /\ (Bound => Matches(node, TRUE))
               /\ \/ Stopped(Notes)
                  \/ Moved("complete", {}) /\ (head[node] = 0 \/ options.completion = "none")
                  \/ Moved("merge", {}) /\ head[node] # 0 /\ options.completion = "merge"
                  \/ /\ Moved("pushing", {"push"}) /\ head[node] # 0 /\ options.completion = "review"
                     /\ journal'[node]["push"].intent[1] = head[node]
                     /\ \/ journal'[node]["push"].status = "in_progress" /\ Status(node, "push") \in {"none", "in_progress"}
                        \/ journal'[node]["push"] = journal[node]["push"] /\ Status(node, "push") = "confirmed"
<1>1. TypeOK /\ Merges /\ at = "verify" /\ node \in Ticket /\ journal \in Journal /\ head[node] \in Nat
      /\ "refused push" \in Reasons /\ "push" \in Kind
  BY DEF IInv, TypeOK, VerifyPublication, Idle, Reasons, Kind
<1>2. UNCHANGED <<options, git, cert, session, run, interrupted, late>>
  BY DEF VerifyPublication, bounds
<1>3. CASE SourceDrifted /\ options.qa
  BY <1>1, <1>2, <1>3, Drifting
<1> DEFINE Kept1 == UNCHANGED qa /\ (Bound => Matches(node, TRUE))
<1>4. CASE Kept1 /\ (head[node] = 0 \/ options.completion = "none") /\ Goto("complete") /\ UNCHANGED <<journal, tracker>>
  <2>1. Moved("complete", {})
    BY <1>1, <1>4 DEF Moved, Kept, Goto, plan, Rows
  <2>2. QED
    BY <1>1, <1>2, <1>4, <2>1
<1>5. CASE Kept1 /\ head[node] # 0 /\ options.completion = "merge" /\ Goto("merge") /\ UNCHANGED <<journal, tracker>>
  <2>1. Moved("merge", {})
    BY <1>1, <1>5 DEF Moved, Kept, Goto, plan, Rows
  <2>2. QED
    BY <1>1, <1>2, <1>5, <2>1
<1>6. CASE /\ Kept1 /\ head[node] # 0 /\ options.completion = "review" /\ Plannable(node, "push", <<head[node]>>)
           /\ journal' = Planned(node, "push", <<head[node]>>) /\ Goto("pushing") /\ UNCHANGED tracker
  <2>0. head[node] \in Nat \cup Reasons
    BY <1>1
  <2>1. <<head[node]>> \in Intents
    BY <2>0 DEF Intents
  <2>2. journal' \in Journal /\ Plans(journal', journal, node, "push", <<head[node]>>)
    BY <1>1, <1>6, <2>1, Planning, Zenon
  <2>3. \A u \in Ticket, m \in Kind : u # node \/ m # "push" => journal'[u][m] = journal[u][m]
    BY <2>2, Zenon DEF Plans, Besides
  <2>4. \/ journal'[node]["push"] = journal[node]["push"] /\ journal[node]["push"].status = "confirmed"
        \/ /\ journal'[node]["push"].status = "in_progress" /\ journal'[node]["push"].intent = <<head[node]>>
           /\ journal[node]["push"].status # "confirmed"
    BY <2>2 DEF Plans
  <2>5. Moved("pushing", {"push"})
    BY <1>6, <2>2, <2>3 DEF Moved, Kept, Goto, plan, Rows
  <2>6. journal[node]["push"].status = "confirmed" => journal[node]["push"].intent = <<head[node]>>
    BY <1>6 DEF Plannable
  <2>7. journal'[node]["push"].intent[1] = head[node]
    BY <2>4, <2>6
  <2>9. Status(node, "push") \in {"none", "in_progress", "confirmed"}
    BY <1>6 DEF Plannable, Status
  <2>8. QED
    BY <1>1, <1>2, <1>6, <2>4, <2>5, <2>7, <2>9 DEF Status
<1>7. CASE Kept1 /\ RuntimeBlock(journal, "refused push")
  <2>1. Stopped(Notes)
    BY <1>1, <1>7, Noted, Zenon
  <2>2. QED
    BY <1>1, <1>2, <1>7, <2>1
<1>8. QED
  BY <1>3, <1>4, <1>5, <1>6, <1>7, Zenon DEF VerifyPublication, Bound

(* A push reaches the remote, or is recorded as failed or uncertain.            *)
LEMMA PushEffect ==
  ASSUME IInv, Push
  PROVE  /\ at = "pushing" /\ node \in Ticket
         /\ UNCHANGED <<options, tree, head, wt, br, base, staged, request, qa, cert, session, run, interrupted, late>>
         /\ \/ Moved("pushed", {}) /\ remote' = [remote EXCEPT ![node] = head[node]]
            \/ /\ \/ Stopped(Notes) /\ Status(node, "push") = "confirmed"
                  \/ /\ Stopped({"push", "remote-block", "runtime-block"})
                     /\ journal'[node]["push"].status \in {"failed", "uncertain"}
                     /\ Status(node, "remote-block") = "none" => tracker'[node] = "blocked"
               /\ remote' \in {remote, [remote EXCEPT ![node] = head[node]]}
<1>1. TypeOK /\ at = "pushing" /\ node \in Ticket /\ journal \in Journal
  BY DEF IInv, TypeOK, Push, Idle
<1>2. UNCHANGED <<options, tree, head, wt, br, base, staged, request, qa, cert, session, run, interrupted, late>>
  BY DEF Push, bounds
<1>3. CASE remote' = [remote EXCEPT ![node] = head[node]] /\ Goto("pushed") /\ UNCHANGED <<journal, tracker>>
  <2>1. Moved("pushed", {})
    BY <1>1, <1>3 DEF Moved, Kept, Goto, plan, Rows
  <2>2. QED
    BY <1>1, <1>2, <1>3, <2>1
<1>4. CASE /\ Fails("push", "failed") \/ Fails("push", "uncertain")
           /\ remote' \in {remote, [remote EXCEPT ![node] = head[node]]}
  <2>1. \/ Stopped(Notes) /\ Status(node, "push") = "confirmed"
        \/ /\ Stopped({"push", "remote-block", "runtime-block"})
           /\ journal'[node]["push"].status \in {"failed", "uncertain"}
           /\ Status(node, "remote-block") = "none" => tracker'[node] = "blocked"
    BY <1>1, <1>4, Failing, Zenon
  <2>2. QED
    BY <1>1, <1>2, <1>4, <2>1
<1>5. remote' = remote => remote' \in {remote, [remote EXCEPT ![node] = head[node]]}
  OBVIOUS
<1>6. QED
  BY <1>3, <1>4, <1>5, Zenon DEF Push

(* The push has its receipt and the request is planned.                         *)
LEMMA ConfirmPushEffect ==
  ASSUME IInv, ConfirmPush
  PROVE  /\ at = "pushed" /\ node \in Ticket
         /\ UNCHANGED <<options, git, qa, cert, session, run, interrupted, late>>
         /\ journal'[node]["push"].status = "confirmed" /\ journal'[node]["push"].intent = journal[node]["push"].intent
         /\ \/ Stopped({"push", "runtime-block"})
            \/ /\ Moved("requesting", {"push", "review"})
               /\ \/ journal'[node]["review"].status = "in_progress" /\ Status(node, "review") \in {"none", "in_progress"}
                  \/ journal'[node]["review"].status = "confirmed" /\ Status(node, "review") = "confirmed"
<1>1. TypeOK /\ at = "pushed" /\ node \in Ticket /\ journal \in Journal /\ "refused review" \in Reasons
      /\ "push" \in Kind /\ "review" \in Kind /\ "confirmed" \in Statuses
  BY DEF IInv, TypeOK, ConfirmPush, Idle, Reasons, Kind, Statuses
<1>2. UNCHANGED <<options, git, qa, cert, session, run, interrupted, late>>
  BY DEF ConfirmPush, bounds
<1>3. journal[node]["push"] \in Entry /\ journal[node]["push"].intent \in Intents
  BY <1>1 DEF Journal, Entry
<1>4. PICK q : q = Mark(journal, node, "push", "confirmed")
  OBVIOUS
<1>5. q \in Journal /\ Marks(q, journal, node, "push", "confirmed")
  BY <1>1, <1>4, MarkNamed, Zenon
<1>6. q[node]["push"].status = "confirmed" /\ q[node]["push"].intent = journal[node]["push"].intent
  BY <1>5 DEF Marks
<1>7. \A u \in Ticket, m \in Kind : u # node \/ m # "push" => q[u][m] = journal[u][m]
  BY <1>5, Zenon DEF Marks, Besides
<1>8. CASE /\ Plannable(node, "review", journal[node]["push"].intent)
           /\ journal' = [q EXCEPT ![node]["review"] =
                              IF @.status = "confirmed" THEN @ ELSE Row("in_progress", journal[node]["push"].intent)]
           /\ at' = "requesting" /\ pushed' = pushed \cup {node}
           /\ UNCHANGED <<node, queue, resumed, ndeps, qaOnly, recovering, viaMerge, settled, tracker>>
  <2>1. PICK r : r = IF q[node]["review"].status = "confirmed" THEN q[node]["review"]
                     ELSE Row("in_progress", journal[node]["push"].intent)
    OBVIOUS
  <2>2. q[node]["review"] \in Entry
    BY <1>1, <1>5 DEF Journal
  <2>3. r \in Entry
    BY <1>3, <2>1, <2>2 DEF Row, Entry, Statuses
  <2>4. \/ r.status = "in_progress" /\ q[node]["review"].status # "confirmed"
        \/ r.status = "confirmed" /\ q[node]["review"].status = "confirmed"
    BY <2>1 DEF Row
  <2>5. journal' = Put(q, node, "review", r)
    BY <1>8, <2>1 DEF Put
  <2>6. journal' \in Journal /\ Puts(journal', q, node, "review", r)
    BY <1>1, <1>5, <2>3, <2>5, PutNamed, Zenon
  <2>7. journal'[node]["review"] = r
    BY <2>6 DEF Puts
  <2>8. \A u \in Ticket, m \in Kind : u # node \/ m # "review" => journal'[u][m] = q[u][m]
    BY <2>6, Zenon DEF Puts, Besides
  <2>9. Rows({"push", "review"}) /\ journal'[node]["push"] = q[node]["push"] /\ q[node]["review"] = journal[node]["review"]
    BY <1>1, <1>7, <2>8 DEF Rows
  <2>10. Moved("requesting", {"push", "review"})
    BY <1>8, <2>6, <2>9 DEF Moved, Kept
  <2>12. Status(node, "review") \in {"none", "in_progress", "confirmed"}
    BY <1>8 DEF Plannable, Status
  <2>11. QED
    BY <1>1, <1>2, <1>6, <2>4, <2>7, <2>9, <2>10, <2>12 DEF Status
<1>9. CASE RuntimeBlock(q, "refused review")
  <2>1. /\ journal' \in Journal /\ Left /\ Marked
        /\ \A t \in Ticket, k \in Kind : t # node \/ k # "runtime-block" => journal'[t][k] = q[t][k]
    BY <1>1, <1>5, <1>9, RuntimeBlocked, Zenon
  <2>2. Stopped({"push", "runtime-block"}) /\ journal'[node]["push"] = q[node]["push"]
    BY <1>1, <1>7, <2>1 DEF Stopped, Rows
  <2>3. QED
    BY <1>1, <1>2, <1>6, <2>2
<1>10. QED
  BY <1>4, <1>8, <1>9, Zenon DEF ConfirmPush, Mark

(* The request is made, or recorded as failed or uncertain.                     *)
LEMMA RequestReviewEffect ==
  ASSUME IInv, RequestReview
  PROVE  /\ at = "requesting" /\ node \in Ticket
         /\ UNCHANGED <<options, tree, head, wt, br, base, staged, remote, qa, cert, session, run, interrupted, late>>
         /\ request \subseteq request'
         /\ \/ Moved("requested", {}) /\ node \in request'
            \/ Stopped(Notes) /\ Status(node, "review") = "confirmed"
            \/ /\ Stopped({"review", "remote-block", "runtime-block"})
               /\ journal'[node]["review"].status \in {"failed", "uncertain"}
               /\ Status(node, "remote-block") = "none" => tracker'[node] = "blocked"
<1>1. TypeOK /\ at = "requesting" /\ node \in Ticket /\ journal \in Journal
  BY DEF IInv, TypeOK, RequestReview, Idle
<1>2. UNCHANGED <<options, tree, head, wt, br, base, staged, remote, qa, cert, session, run, interrupted, late>>
  BY DEF RequestReview, bounds
<1>3. CASE request' = request \cup {node} /\ Goto("requested") /\ UNCHANGED <<journal, tracker>>
  <2>1. Moved("requested", {})
    BY <1>1, <1>3 DEF Moved, Kept, Goto, plan, Rows
  <2>2. QED
    BY <1>1, <1>2, <1>3, <2>1
<1>4. CASE /\ Fails("review", "failed") \/ Fails("review", "uncertain")
           /\ request' \in {request, request \cup {node}}
  <2>1. \/ Stopped(Notes) /\ Status(node, "review") = "confirmed"
        \/ /\ Stopped({"review", "remote-block", "runtime-block"})
           /\ journal'[node]["review"].status \in {"failed", "uncertain"}
           /\ Status(node, "remote-block") = "none" => tracker'[node] = "blocked"
    BY <1>1, <1>4, Failing, Zenon
  <2>2. request \subseteq request'
    BY <1>4
  <2>3. QED
    BY <1>1, <1>2, <2>1, <2>2
<1>5. request' = request => request' \in {request, request \cup {node}}
  OBVIOUS
<1>6. QED
  BY <1>3, <1>4, <1>5, Zenon DEF RequestReview

(* The request has its receipt.                                                 *)
LEMMA ConfirmReviewEffect ==
  ASSUME IInv, ConfirmReview
  PROVE  /\ at = "requested" /\ node \in Ticket
         /\ UNCHANGED <<options, git, qa, cert, session, run, interrupted, late>>
         /\ Moved("complete", {"review"}) /\ journal'[node]["review"].status = "confirmed"
<1>1. TypeOK /\ at = "requested" /\ node \in Ticket /\ "review" \in Kind /\ "confirmed" \in Statuses
  BY DEF IInv, TypeOK, ConfirmReview, Idle, Kind, Statuses
<1>2. journal' = Mark(journal, node, "review", "confirmed")
  BY DEF ConfirmReview, Mark
<1>3. journal' \in Journal /\ Rows({"review"}) /\ journal'[node]["review"].status = "confirmed"
  BY <1>1, <1>2, MarkRow, Zenon
<1>4. QED
  BY <1>1, <1>3 DEF ConfirmReview, bounds, Moved, Kept, Goto, plan

(* The intent of the merge is frozen once.                                      *)
LEMMA PrepareMergeEffect ==
  ASSUME IInv, PrepareMerge
  PROVE  /\ at = "merge" /\ node \in Ticket
         /\ UNCHANGED <<options, git, qa, cert, session, run, interrupted, late>>
         /\ \/ Stopped(Notes)
            \/ /\ Moved("merging", {"merge"})
               /\ \/ /\ Status(node, "merge") = "none" /\ journal'[node]["merge"].status = "in_progress"
                     /\ journal'[node]["merge"].intent = <<head[node], Len(base)>>
                  \/ /\ Status(node, "merge") \in Standing /\ journal'[node]["merge"].status = Status(node, "merge")
                     /\ journal'[node]["merge"].intent = journal[node]["merge"].intent
<1>1. TypeOK /\ Merges /\ at = "merge" /\ node \in Ticket /\ journal \in Journal
      /\ "refused merge" \in Reasons /\ "merge" \in Kind
  BY DEF IInv, TypeOK, PrepareMerge, Idle, Reasons, Kind
<1>2. head[node] \in Nat
  BY <1>1 DEF TypeOK
<1>3. Len(base) \in Nat
  BY <1>1, Lengths
<1>4. TypeOK /\ Merges /\ at = "merge" /\ node \in Ticket /\ journal \in Journal /\ head[node] \in Nat /\ Len(base) \in Nat
      /\ "refused merge" \in Reasons /\ "merge" \in Kind
  BY <1>1, <1>2, <1>3
<1>5. UNCHANGED <<options, git, qa, cert, session, run, interrupted, late>>
  BY DEF PrepareMerge, bounds
<1>6. journal[node]["merge"].intent \in Intents /\ Status(node, "merge") \in {"none", "in_progress", "confirmed"}
  BY <1>4 DEF Journal, Entry, Merges, MergeKnown, Status
<1>7. PICK i : i = IF MergeOp(node).status = "none" THEN <<head[node], Len(base)>> ELSE MergeOp(node).intent
  OBVIOUS
<1>8. i \in Intents
  <2>1. <<head[node], Len(base)>> \in Intents
    <3>1. head[node] \in Nat \cup Reasons /\ Len(base) \in Nat \cup Reasons
      BY <1>4
    <3>2. QED
      BY <3>1 DEF Intents
  <2>2. QED
    BY <1>6, <1>7, <2>1 DEF MergeOp
<1>9. CASE journal' = Planned(node, "merge", i) /\ Goto("merging") /\ UNCHANGED tracker
  <2>1. journal' \in Journal /\ Plans(journal', journal, node, "merge", i)
    BY <1>4, <1>8, <1>9, Planning, Zenon
  <2>2. \A u \in Ticket, m \in Kind : u # node \/ m # "merge" => journal'[u][m] = journal[u][m]
    BY <2>1, Zenon DEF Plans, Besides
  <2>3. \/ journal'[node]["merge"] = journal[node]["merge"] /\ journal[node]["merge"].status = "confirmed"
        \/ /\ journal'[node]["merge"].status = "in_progress" /\ journal'[node]["merge"].intent = i
           /\ journal[node]["merge"].status # "confirmed"
    BY <2>1 DEF Plans
  <2>4. Moved("merging", {"merge"})
    BY <1>9, <2>1, <2>2 DEF Moved, Kept, Goto, plan, Rows
  <2>5. journal[node]["merge"].status = "none" => i = <<head[node], Len(base)>>
    BY <1>7 DEF MergeOp
  <2>6. journal[node]["merge"].status # "none" => i = journal[node]["merge"].intent
    BY <1>7 DEF MergeOp
  <2>7. QED
    BY <1>4, <1>5, <1>6, <2>3, <2>4, <2>5, <2>6 DEF Status, Standing
<1>10. CASE RuntimeBlock(journal, "refused merge")
  <2>1. Stopped(Notes)
    BY <1>4, <1>10, Noted, Zenon
  <2>2. QED
    BY <1>4, <1>5, <2>1
<1>11. QED
  BY <1>7, <1>9, <1>10, Zenon DEF PrepareMerge

(* Where the host only looks: at the base, at the index, at what it merged.     *)
LEMMA SurveyEffect ==
  ASSUME IInv, ReconcileMerge \/ InspectIndex \/ CheckMerged
  PROVE  /\ node \in Ticket
         /\ UNCHANGED <<options, git, qa, cert, session, run, interrupted, late>>
         /\ \/ Stopped(Notes) /\ at \in {"merging", "staging", "cleanup"}
            \/ Moved("merged", {}) /\ at = "merging"
            \/ Moved("checking", {}) /\ at = "merging" /\ Len(base) = Frozen(node)
            \/ Moved("squashing", {}) /\ at = "staging" /\ staged = <<>> /\ Len(base) = Frozen(node)
            \/ Moved("staged", {}) /\ at = "staging"
            \/ Moved("removing", {}) /\ at = "cleanup" /\ SourceKept(node)
<1>1. TypeOK /\ at \in {"merging", "staging", "cleanup"} /\ node \in Ticket /\ journal \in Journal
      /\ {"base", "staged", "late edit"} \subseteq Reasons
  BY DEF IInv, TypeOK, ReconcileMerge, InspectIndex, CheckMerged, Idle, Reasons
<1>2. UNCHANGED <<options, git, qa, cert, session, run, interrupted, late>>
  BY DEF ReconcileMerge, InspectIndex, CheckMerged, bounds
<1>3. CASE \E d \in Reasons : MergeBlock(journal, d)
  <2>1. Stopped(Notes)
    BY <1>1, <1>3, Noted, Zenon
  <2>2. QED
    BY <1>1, <1>2, <2>1
<1>4. ASSUME NEW label, Goto(label), UNCHANGED <<journal, tracker>>
      PROVE  Moved(label, {})
  BY <1>1, <1>4 DEF Moved, Kept, Goto, plan, Rows
<1>5. Reconciled(node) = "unmerged" => Len(base) = Frozen(node)
  BY DEF Reconciled
<1>6. CASE ReconcileMerge
  BY <1>1, <1>2, <1>3, <1>4, <1>5, <1>6 DEF ReconcileMerge
<1>7. CASE InspectIndex
  BY <1>1, <1>2, <1>3, <1>4, <1>7 DEF InspectIndex
<1>8. CASE CheckMerged
  BY <1>1, <1>2, <1>3, <1>4, <1>8 DEF CheckMerged
<1>9. QED
  BY <1>6, <1>7, <1>8

(* A source that was kept may be merged; one that was not is reviewed anew only *)
(* while the base is untouched.                                                 *)
LEMMA CheckSourceEffect ==
  ASSUME IInv, CheckSource
  PROVE  /\ at = "checking" /\ node \in Ticket
         /\ UNCHANGED <<options, git, cert, session, run, interrupted, late>>
         /\ \/ Stopped(Notes) /\ qa' = qa
            \/ Moved("staging", {}) /\ qa' = qa
            \/ /\ Stopped(Checks) /\ staged = <<>> /\ qa[node] = "finalizing" /\ qa' = [qa EXCEPT ![node] = "open"]
               /\ Len(base) = Frozen(node) /\ Status(node, "complete") \notin Standing
               /\ journal'[node]["merge"].status = "none"
<1>1. TypeOK /\ at = "checking" /\ node \in Ticket /\ journal \in Journal
      /\ {"merge drift", "drift"} \subseteq Reasons
  BY DEF IInv, TypeOK, CheckSource, Idle, Reasons
<1>2. UNCHANGED <<options, git, cert, session, run, interrupted, late>>
  BY DEF CheckSource, bounds
<1>3. CASE Goto("staging") /\ UNCHANGED <<qa, journal, tracker>>
  <2>1. Moved("staging", {})
    BY <1>1, <1>3 DEF Moved, Kept, Goto, plan, Rows
  <2>2. QED
    BY <1>1, <1>2, <1>3, <2>1
<1>4. CASE (\E d \in Reasons : MergeBlock(journal, d)) /\ UNCHANGED qa
  <2>1. Stopped(Notes)
    BY <1>1, <1>4, Noted, Zenon
  <2>2. QED
    BY <1>1, <1>2, <1>4, <2>1
<1>5. CASE MergeDrifted
  <2>1. CASE UNCHANGED qa /\ MergeBlock(journal, "merge drift")
    BY <1>1, <1>4, <1>5, <2>1
  <2>2. CASE /\ Len(base) = Frozen(node) /\ staged = <<>> /\ qa[node] = "finalizing"
             /\ \A k \in {"push", "review", "complete"} : journal[node][k].status \notin OpenStates
             /\ qa' = [qa EXCEPT ![node] = "open"] /\ MergeBlock(Renewed(node), "drift")
    <3>1. PICK q : q = Renewed(node)
      OBVIOUS
    <3>2. MergeBlock(q, "drift")
      BY <2>2, <3>1
    <3>10. TypeOK /\ node \in Ticket
      BY <1>1
    <3>3. /\ q \in Journal /\ q[node]["merge"].status = "none"
          /\ \A u \in Ticket, k \in Kind : u # node \/ k \notin {"commit", "merge", "complete"} => q[u][k] = journal[u][k]
      BY <3>1, <3>10, Renewing
    <3>4. /\ journal' \in Journal /\ Left /\ Marked
          /\ \A t \in Ticket, k \in Kind : t # node \/ k # "runtime-block" => journal'[t][k] = q[t][k]
      BY <1>1, <3>2, <3>3, MergeBlocked, Zenon
    <3>5. "merge" \in Kind /\ "merge" # "runtime-block"
      BY DEF Kind
    <3>6. journal'[node]["merge"].status = "none"
      BY <1>1, <3>3, <3>4, <3>5
    <3>7. Stopped(Checks)
      BY <3>3, <3>4 DEF Rows, Checks, Stopped
    <3>8. Status(node, "complete") \notin Standing
      BY <2>2 DEF OpenStates, Standing, Status
    <3>9. QED
      BY <1>1, <1>2, <1>5, <2>2, <3>6, <3>7, <3>8
  <2>3. QED
    BY <1>5, <2>1, <2>2, Zenon DEF MergeDrifted
<1>6. QED
  BY <1>3, <1>5, Zenon DEF CheckSource

(* The frozen commit is put in the index, or the merge fails.                   *)
LEMMA SquashMergeEffect ==
  ASSUME IInv, SquashMerge
  PROVE  /\ at = "squashing" /\ node \in Ticket
         /\ UNCHANGED <<options, tree, head, wt, br, base, remote, request, qa, cert, session, run, interrupted, late>>
         /\ \/ Stopped(Notes) /\ staged' \in {staged, <<None, 0>>}
            \/ Moved("staged", {}) /\ staged' = <<node, Source(node)>>
<1>1. TypeOK /\ at = "squashing" /\ node \in Ticket /\ journal \in Journal /\ "merge" \in Reasons
  BY DEF IInv, TypeOK, SquashMerge, Idle, Reasons
<1>2. UNCHANGED <<options, tree, head, wt, br, base, remote, request, qa, cert, session, run, interrupted, late>>
  BY DEF SquashMerge, bounds
<1>3. CASE staged' = <<node, Source(node)>> /\ Goto("staged") /\ UNCHANGED <<journal, tracker>>
  <2>1. Moved("staged", {})
    BY <1>1, <1>3 DEF Moved, Kept, Goto, plan, Rows
  <2>2. QED
    BY <1>1, <1>2, <1>3, <2>1
<1>4. CASE /\ staged' \in {staged} \cup (IF Len(base) = Frozen(node) THEN {} ELSE {<<None, 0>>})
           /\ MergeBlock(journal, "merge")
  <2>1. Stopped(Notes)
    BY <1>1, <1>4, Noted, Zenon
  <2>2. QED
    BY <1>1, <1>2, <1>4, <2>1
<1>5. QED
  BY <1>3, <1>4, Zenon DEF SquashMerge

(* The index is committed to the base.                                          *)
LEMMA CommitMergeEffect ==
  ASSUME IInv, CommitMerge
  PROVE  /\ at = "staged" /\ node \in Ticket
         /\ UNCHANGED <<options, tree, head, wt, br, remote, request, qa, cert, session, run, interrupted, late>>
         /\ \/ Stopped(Notes) /\ UNCHANGED <<base, staged>>
            \/ Moved("merged", {}) /\ staged # <<>> /\ base' = Append(base, staged) /\ staged' = <<>>
<1>1. TypeOK /\ at = "staged" /\ node \in Ticket /\ journal \in Journal /\ "merge commit" \in Reasons
  BY DEF IInv, TypeOK, CommitMerge, Idle, Reasons
<1>2. UNCHANGED <<options, tree, head, wt, br, remote, request, qa, cert, session, run, interrupted, late>>
  BY DEF CommitMerge, bounds
<1>3. CASE MergeBlock(journal, "merge commit") /\ UNCHANGED <<base, staged>>
  <2>1. Stopped(Notes)
    BY <1>1, <1>3, Noted, Zenon
  <2>2. QED
    BY <1>1, <1>2, <1>3, <2>1
<1>4. CASE /\ staged # <<>> /\ base' = Append(base, staged) /\ staged' = <<>>
           /\ Goto("merged") /\ UNCHANGED <<journal, tracker>>
  <2>1. Moved("merged", {})
    BY <1>1, <1>4 DEF Moved, Kept, Goto, plan, Rows
  <2>2. QED
    BY <1>1, <1>2, <1>4, <2>1
<1>5. QED
  BY <1>3, <1>4, Zenon DEF CommitMerge

(* The merge has its receipt only where it is on the base.                      *)
LEMMA ConfirmMergeEffect ==
  ASSUME IInv, ConfirmMerge
  PROVE  /\ at = "merged" /\ node \in Ticket
         /\ UNCHANGED <<options, git, qa, cert, session, run, interrupted, late>>
         /\ \/ Stopped(Notes)
            \/ /\ Moved("cleanup", {"merge"}) /\ journal'[node]["merge"].status = "confirmed"
               /\ journal'[node]["merge"].intent = journal[node]["merge"].intent
               /\ Len(base) # Frozen(node) /\ base[Frozen(node) + 1] = <<node, Source(node)>>
<1>1. TypeOK /\ at = "merged" /\ node \in Ticket /\ journal \in Journal /\ "base" \in Reasons
      /\ "merge" \in Kind /\ "confirmed" \in Statuses
  BY DEF IInv, TypeOK, ConfirmMerge, Idle, Reasons, Kind, Statuses
<1>2. UNCHANGED <<options, git, qa, cert, session, run, interrupted, late>>
  BY DEF ConfirmMerge, bounds
<1>3. CASE MergeBlock(journal, "base")
  <2>1. Stopped(Notes)
    BY <1>1, <1>3, Noted, Zenon
  <2>2. QED
    BY <1>1, <1>2, <2>1
<1>4. CASE /\ Reconciled(node) = "merged" /\ journal' = [journal EXCEPT ![node]["merge"].status = "confirmed"]
           /\ Goto("cleanup") /\ UNCHANGED tracker
  <2>1. journal' = Mark(journal, node, "merge", "confirmed")
    BY <1>4 DEF Mark
  <2>2. /\ journal' \in Journal /\ Rows({"merge"}) /\ journal'[node]["merge"].status = "confirmed"
        /\ journal'[node]["merge"].intent = journal[node]["merge"].intent
    BY <1>1, <2>1, MarkRow, Zenon
  <2>3. Moved("cleanup", {"merge"})
    BY <1>4, <2>2 DEF Moved, Kept, Goto, plan
  <2>4. Len(base) # Frozen(node) /\ base[Frozen(node) + 1] = <<node, Source(node)>>
    BY <1>4 DEF Reconciled
  <2>5. QED
    BY <1>1, <1>2, <2>2, <2>3, <2>4
<1>5. QED
  BY <1>3, <1>4, Zenon DEF ConfirmMerge

(* A merged worktree goes, if it holds nothing that is not committed.           *)
LEMMA RemoveMergedEffect ==
  ASSUME IInv, RemoveMerged
  PROVE  /\ at = "removing" /\ node \in Ticket
         /\ UNCHANGED <<options, tree, head, br, base, staged, remote, request, qa, cert, session, run, interrupted, late>>
         /\ \/ Stopped(Notes) /\ wt' = wt
            \/ /\ Moved("deleting", {}) /\ (wt[node] => ~ Dirty(node))
               /\ wt' = [wt EXCEPT ![node] = FALSE]
<1>1. TypeOK /\ at = "removing" /\ node \in Ticket /\ journal \in Journal /\ "late edit" \in Reasons
  BY DEF IInv, TypeOK, RemoveMerged, Idle, Reasons
<1>2. UNCHANGED <<options, tree, head, br, base, staged, remote, request, qa, cert, session, run, interrupted, late>>
  BY DEF RemoveMerged, bounds
<1>3. CASE RuntimeBlock(journal, "late edit") /\ UNCHANGED wt
  <2>1. Stopped(Notes)
    BY <1>1, <1>3, Noted, Zenon
  <2>2. QED
    BY <1>1, <1>2, <1>3, <2>1
<1>4. CASE Halt /\ UNCHANGED <<journal, tracker>> /\ UNCHANGED wt
  <2>1. Left
    BY <1>4 DEF Left, Halt, Forgotten, Idle
  <2>2. Stopped(Notes)
    BY <1>1, <1>4, <2>1 DEF Stopped, Rows, Marked, TypeOK
  <2>3. QED
    BY <1>1, <1>2, <1>4, <2>2
<1>5. CASE /\ (wt[node] => ~ Dirty(node)) /\ wt' = [wt EXCEPT ![node] = FALSE]
           /\ Goto("deleting") /\ UNCHANGED <<journal, tracker>>
  <2>1. Moved("deleting", {})
    BY <1>1, <1>5 DEF Moved, Kept, Goto, plan, Rows
  <2>2. QED
    BY <1>1, <1>2, <1>5, <2>1
<1>6. QED
  BY <1>3, <1>4, <1>5, Zenon DEF RemoveMerged

(* Its branch goes, or stays.                                                   *)
LEMMA DeleteBranchEffect ==
  ASSUME IInv, DeleteBranch
  PROVE  /\ at = "deleting" /\ node \in Ticket
         /\ UNCHANGED <<options, tree, head, wt, base, staged, remote, request, qa, cert, session, run, interrupted, late>>
         /\ Moved("complete", {}) /\ journal' = journal /\ br' \in {br, [br EXCEPT ![node] = FALSE]}
<1>1. TypeOK /\ at = "deleting" /\ node \in Ticket /\ journal \in Journal
  BY DEF IInv, TypeOK, DeleteBranch, Idle
<1>2. QED
  BY <1>1 DEF DeleteBranch, bounds, books, Moved, Kept, Goto, plan, Rows

(* Its completion is planned, unless it has its receipt.                        *)
LEMMA PlanCompletionEffect ==
  ASSUME IInv, PlanCompletion
  PROVE  /\ at = "complete" /\ node \in Ticket /\ ~ viaMerge
         /\ UNCHANGED <<options, git, qa, cert, session, run, interrupted, late>>
         /\ Moved("closing", {"complete"}) \/ Moved("completing", {"complete"})
         /\ journal'[node]["complete"].status \in Standing
<1>1. TypeOK /\ at = "complete" /\ node \in Ticket /\ "complete" \in Kind /\ <<>> \in Intents
  BY DEF IInv, TypeOK, PlanCompletion, Idle, Kind, Intents
<1>2. journal' = Planned(node, "complete", <<>>)
  BY DEF PlanCompletion
<1>3. journal' \in Journal /\ Plans(journal', journal, node, "complete", <<>>)
  BY <1>1, <1>2, Planning, Zenon
<1>4. \A u \in Ticket, m \in Kind : u # node \/ m # "complete" => journal'[u][m] = journal[u][m]
  BY <1>3, Zenon DEF Plans, Besides
<1>5. journal'[node]["complete"].status \in Standing
  BY <1>3 DEF Plans, Standing
<1>6. QED
  BY <1>1, <1>3, <1>4, <1>5 DEF PlanCompletion, bounds, Moved, Kept, Goto, plan, Rows

(* The ticket is done in the tracker.                                           *)
LEMMA CompleteTicketEffect ==
  ASSUME IInv, CompleteTicket
  PROVE  /\ node \in Ticket /\ (at = "completing" \/ (at = "complete" /\ viaMerge))
         /\ UNCHANGED <<options, git, qa, cert, journal, session, run, interrupted, late>>
         /\ journal' \in Journal /\ Rows({}) /\ Kept
         /\ at' = (IF viaMerge THEN "closing" ELSE "completed")
         /\ tracker' = [tracker EXCEPT ![node] = "done"]
<1>1. TypeOK /\ (at = "completing" \/ (at = "complete" /\ viaMerge)) /\ node \in Ticket /\ journal \in Journal
  BY DEF IInv, TypeOK, CompleteTicket, Idle
<1>2. QED
  BY <1>1 DEF CompleteTicket, bounds, Goto, plan, Kept, Rows

(* Its completion has its receipt.                                              *)
LEMMA ConfirmCompletionEffect ==
  ASSUME IInv, ConfirmCompletion
  PROVE  /\ at = "completed" /\ node \in Ticket
         /\ UNCHANGED <<options, git, qa, cert, session, run, interrupted, late>>
         /\ Moved("closing", {"complete"}) /\ journal'[node]["complete"].status = "confirmed"
<1>1. TypeOK /\ at = "completed" /\ node \in Ticket /\ "complete" \in Kind /\ "confirmed" \in Statuses
  BY DEF IInv, TypeOK, ConfirmCompletion, Idle, Kind, Statuses
<1>2. journal' = Mark(journal, node, "complete", "confirmed")
  BY DEF ConfirmCompletion, Mark
<1>3. journal' \in Journal /\ Rows({"complete"}) /\ journal'[node]["complete"].status = "confirmed"
  BY <1>1, <1>2, MarkRow, Zenon
<1>4. QED
  BY <1>1, <1>3 DEF ConfirmCompletion, bounds, Moved, Kept, Goto, plan

(* The protocol of its review is closed.                                        *)
LEMMA CompleteQaEffect ==
  ASSUME IInv, CompleteQa
  PROVE  /\ at = "closing" /\ node \in Ticket
         /\ UNCHANGED <<options, git, cert, journal, session, run, interrupted, late>>
         /\ qa' = (IF Bound THEN [qa EXCEPT ![node] = "completed"] ELSE qa)
         /\ Moved("close", {"complete"})
<1>1. TypeOK /\ at = "closing" /\ node \in Ticket /\ journal \in Journal
  BY DEF IInv, TypeOK, CompleteQa, Idle
<1>2. QED
  BY <1>1 DEF CompleteQa, bounds, Goto, plan, Kept, Moved, Rows

(* Its session is closed.                                                       *)
LEMMA CloseSessionEffect ==
  ASSUME IInv, CloseSession
  PROVE  /\ at = "close" /\ node \in Ticket
         /\ UNCHANGED <<options, git, qa, cert, journal, tracker, run, interrupted, late>>
         /\ session' \in [Ticket -> {"none", "active", "completed"}]
         /\ \A t \in Ticket : t # node => session'[t] = session[t]
         /\ session[node] # "none" => session'[node] # "none"
         /\ \/ Stopped({}) /\ options.completion = "merge"
            \/ Moved("tidy", {}) /\ options.completion # "merge"
<1>1. TypeOK /\ at = "close" /\ node \in Ticket /\ journal \in Journal
  BY DEF IInv, TypeOK, CloseSession, Idle
<1>2. UNCHANGED <<options, git, qa, cert, journal, tracker, run, interrupted, late>>
  BY DEF CloseSession, bounds
<1>3. /\ session' \in [Ticket -> {"none", "active", "completed"}]
      /\ \A t \in Ticket : t # node => session'[t] = session[t]
      /\ session[node] # "none" => session'[node] # "none"
  BY <1>1 DEF CloseSession, TypeOK
<1>4. CASE options.completion = "merge" /\ Settle("done")
  <2>1. Left
    BY <1>4 DEF Left, Settle, Idle
  <2>2. Stopped({})
    BY <1>1, <1>2, <2>1 DEF Stopped, Rows, Marked, TypeOK
  <2>3. QED
    BY <1>1, <1>2, <1>3, <1>4, <2>2
<1>5. CASE options.completion # "merge" /\ Goto("tidy")
  <2>1. Moved("tidy", {})
    BY <1>1, <1>2, <1>5 DEF Moved, Rows, Kept, Goto, plan
  <2>2. QED
    BY <1>1, <1>2, <1>3, <1>5, <2>1
<1>6. QED
  BY <1>4, <1>5, Zenon DEF CloseSession

(* Without a merge, the worktree goes at last.                                  *)
LEMMA RemoveWorktreeEffect ==
  ASSUME IInv, RemoveWorktree
  PROVE  /\ at = "tidy" /\ node \in Ticket /\ wt' = [wt EXCEPT ![node] = FALSE]
         /\ UNCHANGED <<options, tree, head, br, base, staged, remote, request, qa, cert, journal, tracker,
                        session, run, interrupted, late>>
         /\ Stopped({})
<1>1. TypeOK /\ at = "tidy" /\ node \in Ticket /\ journal \in Journal
  BY DEF IInv, TypeOK, RemoveWorktree, Idle
<1>2. /\ UNCHANGED <<options, tree, head, br, base, staged, remote, request, qa, cert, journal, tracker,
                     session, run, interrupted, late>>
      /\ wt' = [wt EXCEPT ![node] = FALSE]
  BY DEF RemoveWorktree, bounds, books
<1>3. Left
  BY DEF RemoveWorktree, Left, Settle, Idle
<1>4. QED
  BY <1>1, <1>2, <1>3 DEF Stopped, Rows, Marked, TypeOK

(* The host begins: what it takes up was planned for as its session says.       *)
LEMMA LaunchEffect ==
  ASSUME IInv, Start \/ Resume
  PROVE  /\ at = "off" /\ at' = "next" /\ run' = "open" /\ queue' \subseteq Ticket
         /\ UNCHANGED <<options, git, books, node, recovering, viaMerge, interrupted, late>>
         /\ \A t \in queue' : session[t] = IF t \in resumed' THEN "active" ELSE "none"
         /\ qaOnly' \in queue' => qa[qaOnly'] \in Review
<1>1. CASE Start
  <2>1. run = "new" /\ Launch(Ticket, {}, options.deps, None)
    BY <1>1 DEF Start
  <2>2. \A t \in Ticket : session[t] = "none"
    BY <2>1 DEF IInv, Untouched, Beginning
  <2>3. None \notin Ticket
    BY TicketAssumption
  <2>4. QED
    BY <2>1, <2>2, <2>3 DEF Launch
<1>2. CASE Resume
  <2>1. PICK tickets \in Choices :
          LET fresh == {t \in tickets : ~Resumable(t)} IN
          /\ Accepted(tickets)
          /\ Launch(tickets, tickets \ fresh,
                    [t \in Ticket |-> IF t \in fresh THEN options.deps[t] \cap fresh ELSE {}],
                    IF interrupted = None /\ Pending # {} THEN CHOOSE t \in tickets : TRUE ELSE None)
    BY <1>2, Zenon DEF Resume
  <2>2. /\ at = "off" /\ at' = "next" /\ run' = "open" /\ queue' = tickets
        /\ resumed' = tickets \ {t \in tickets : ~Resumable(t)}
        /\ qaOnly' = IF interrupted = None /\ Pending # {} THEN CHOOSE t \in tickets : TRUE ELSE None
        /\ UNCHANGED <<options, git, books, node, recovering, viaMerge, interrupted, late>>
    BY <2>1 DEF Launch
  <2>3. \A t \in tickets : ~ Resumable(t) => session[t] = "none"
    BY <2>1 DEF Accepted, FreshlyPlanned
  <2>4. tickets \subseteq Ticket
    BY <2>1 DEF Choices, Pending, Remaining, IInv, TypeOK
  <2>5. \A t \in queue' : session[t] = IF t \in resumed' THEN "active" ELSE "none"
    BY <2>2, <2>3 DEF Resumable
  <2>6. ASSUME qaOnly' \in queue' PROVE qa[qaOnly'] \in Review
    <3>1. None \notin Ticket
      BY TicketAssumption
    <3>2. interrupted = None /\ Pending # {}
      BY <2>2, <2>4, <2>6, <3>1
    <3>3. tickets \subseteq Pending
      BY <2>1, <3>2 DEF Choices
    <3>4. QED
      BY <2>2, <2>6, <3>3 DEF Pending, Review
  <2>7. QED
    BY <2>2, <2>4, <2>5, <2>6
<1>3. QED
  BY <1>1, <1>2

(* The host ends, by itself or not.                                             *)
LEMMA HaltEffect ==
  ASSUME IInv, Finish \/ Crash
  PROVE  /\ at # "off" /\ UNCHANGED <<options, git, books, late>> /\ Stopped({})
         /\ interrupted' \in Ticket \cup {None}
         /\ run' = "new" => run = "new"
<1>1. Left
  BY DEF Finish, Crash, Halt, Forgotten, Left, Idle
<1>2. UNCHANGED <<options, git, books, late>> /\ at # "off" /\ (run' = "new" => run = "new")
  BY DEF Finish, Crash, bounds
<1>3. interrupted' \in Ticket \cup {None}
  BY DEF Finish, Crash, IInv, TypeOK, Idle
<1>4. QED
  BY <1>1, <1>2, <1>3 DEF Stopped, Rows, Marked, IInv, TypeOK, books

(* What is taken up.                                                            *)
LEMMA QueuedNext ==
  ASSUME IInv, [Next]_vars
  PROVE  Queued'
<1>1. Queued /\ TypeOK /\ (at \notin Idle => node \in Ticket)
  BY DEF IInv, TypeOK
<1>2. ASSUME queue' = {} \/ UNCHANGED <<queue, resumed, qaOnly>>, at' \in Idle \/ (node' = node /\ at \notin Idle),
             \A t \in queue : qa'[t] = qa[t] /\ session'[t] = session[t]
      PROVE  Queued'
  BY <1>1, <1>2 DEF Queued
<1>3. CASE UNCHANGED vars
  BY <1>3, <1>1 DEF Queued, Idle, vars, git, books, plan
<1>4. CASE Start \/ Resume
  BY <1>4, LaunchEffect, <1>1 DEF Queued, Idle, git, books
<1>5. CASE Finish \/ Crash
  BY <1>5, HaltEffect, <1>1 DEF Queued, Idle, Stopped, Moved, Left, Kept, Drifted, git, books
<1>6. ASSUME NEW u \in Ticket, PassOver(u)
      PROVE  Queued'
  BY <1>6, <1>1 DEF Queued, Idle, PassOver, Pass, Taking, bounds, books, git
<1>7. ASSUME NEW u \in Ticket, RecoverMerge(u)
      PROVE  Queued'
  BY <1>7, <1>1 DEF Queued, Idle, RecoverMerge, Take, Taking, MergeOp, bounds, books, git
<1>8. ASSUME NEW u \in Ticket, ContinueTicket(u)
      PROVE  Queued'
  BY <1>8, <1>1 DEF Queued, Idle, ContinueTicket, Take, Taking, MergeOp, bounds, books, git
<1>9. ASSUME NEW u \in Ticket, CreateWorktree(u)
      PROVE  Queued'
  BY <1>9, <1>1 DEF Queued, Idle, CreateWorktree, Take, Taking, Halt, Forgotten, bounds, books, git
<1>10. ASSUME NEW u \in Ticket, HumanEdits(u)
      PROVE  Queued'
  BY <1>10, <1>1 DEF Queued, Idle, HumanEdits, Touch, books, plan, git
<1>11. ASSUME NEW u \in Ticket, HumanCommits(u)
      PROVE  Queued'
  BY <1>11, <1>1 DEF Queued, Idle, HumanCommits, Touch, Dirty, books, plan, git
<1>12. CASE OpenTicket
  BY <1>12, <1>1 DEF Queued, Idle, OpenTicket, Goto, plan, bounds, git
<1>13. CASE BuilderEdits
  BY <1>13, <1>1 DEF Queued, Idle, BuilderEdits, bounds, books, plan, git
<1>14. CASE PassQa
  BY <1>14, <1>1 DEF Queued, Idle, PassQa, Goto, plan, bounds, Digest, git
<1>15. CASE WaiveQa
  BY <1>15, <1>1 DEF Queued, Idle, WaiveQa, Goto, plan, bounds, git
<1>16. CASE HumanCommitsBase
  BY <1>16, <1>1 DEF Queued, Idle, HumanCommitsBase, Touch, books, plan, git
<1>17. ASSUME NEW how \in {"done", "blocked", "error"}, BuilderEnds(how)
      PROVE  Queued'
  <2>1. \A t \in queue : qa'[t] = qa[t] /\ session'[t] = session[t]
    BY <1>17, BuilderEndsEffect, <1>1 DEF TypeOK, Drifted, Idle, Queued
  <2>2. (queue' = {} \/ UNCHANGED <<queue, resumed, qaOnly>>) /\ (at' \in Idle \/ (node' = node /\ at \notin Idle))
    BY <1>17, BuilderEndsEffect, <1>1 DEF Stopped, Moved, Left, Kept, Drifted, Idle
  <2>3. QED
    BY <1>2, <2>1, <2>2
<1>18. CASE BeginQa
  <2>1. \A t \in queue : qa'[t] = qa[t] /\ session'[t] = session[t]
    BY <1>18, BeginQaEffect, <1>1 DEF TypeOK, Drifted, Idle, Queued
  <2>2. (queue' = {} \/ UNCHANGED <<queue, resumed, qaOnly>>) /\ (at' \in Idle \/ (node' = node /\ at \notin Idle))
    BY <1>18, BeginQaEffect, <1>1 DEF Stopped, Moved, Left, Kept, Drifted, Idle
  <2>3. QED
    BY <1>2, <2>1, <2>2
<1>19. CASE QaBlocks
  BY <1>19, QaBlocksEffect, <1>1 DEF Queued, Idle, Stopped, Moved, Left, Kept, Drifted, git
<1>20. CASE BeginFinalization
  <2>1. \A t \in queue : qa'[t] = qa[t] /\ session'[t] = session[t]
    BY <1>20, BeginFinalizationEffect, <1>1 DEF TypeOK, Drifted, Idle, Queued
  <2>2. (queue' = {} \/ UNCHANGED <<queue, resumed, qaOnly>>) /\ (at' \in Idle \/ (node' = node /\ at \notin Idle))
    BY <1>20, BeginFinalizationEffect, <1>1 DEF Stopped, Moved, Left, Kept, Drifted, Idle
  <2>3. QED
    BY <1>2, <2>1, <2>2
<1>21. CASE ResumeFinalization
  <2>1. \A t \in queue : qa'[t] = qa[t] /\ session'[t] = session[t]
    BY <1>21, ResumeFinalizationEffect, <1>1 DEF TypeOK, Drifted, Idle, Queued
  <2>2. (queue' = {} \/ UNCHANGED <<queue, resumed, qaOnly>>) /\ (at' \in Idle \/ (node' = node /\ at \notin Idle))
    BY <1>21, ResumeFinalizationEffect, <1>1 DEF Stopped, Moved, Left, Kept, Drifted, Idle
  <2>3. QED
    BY <1>2, <2>1, <2>2
<1>22. CASE PlanCommit
  <2>1. \A t \in queue : qa'[t] = qa[t] /\ session'[t] = session[t]
    BY <1>22, PlanCommitEffect, <1>1 DEF TypeOK, Drifted, Idle, Queued
  <2>2. (queue' = {} \/ UNCHANGED <<queue, resumed, qaOnly>>) /\ (at' \in Idle \/ (node' = node /\ at \notin Idle))
    BY <1>22, PlanCommitEffect, <1>1 DEF Stopped, Moved, Left, Kept, Drifted, Idle
  <2>3. QED
    BY <1>2, <2>1, <2>2
<1>23. CASE CommitAll
  BY <1>23, CommitAllEffect, <1>1 DEF Queued, Idle, Stopped, Moved, Left, Kept, Drifted, git
<1>24. CASE ConfirmCommit
  BY <1>24, ConfirmCommitEffect, <1>1 DEF Queued, Idle, Stopped, Moved, Left, Kept, Drifted, git
<1>25. CASE VerifyPublication
  <2>1. \A t \in queue : qa'[t] = qa[t] /\ session'[t] = session[t]
    BY <1>25, VerifyPublicationEffect, <1>1 DEF TypeOK, Drifted, Idle, Queued
  <2>2. (queue' = {} \/ UNCHANGED <<queue, resumed, qaOnly>>) /\ (at' \in Idle \/ (node' = node /\ at \notin Idle))
    BY <1>25, VerifyPublicationEffect, <1>1 DEF Stopped, Moved, Left, Kept, Drifted, Idle
  <2>3. QED
    BY <1>2, <2>1, <2>2
<1>26. CASE Push
  BY <1>26, PushEffect, <1>1 DEF Queued, Idle, Stopped, Moved, Left, Kept, Drifted, git
<1>27. CASE ConfirmPush
  BY <1>27, ConfirmPushEffect, <1>1 DEF Queued, Idle, Stopped, Moved, Left, Kept, Drifted, git
<1>28. CASE RequestReview
  BY <1>28, RequestReviewEffect, <1>1 DEF Queued, Idle, Stopped, Moved, Left, Kept, Drifted, git
<1>29. CASE ConfirmReview
  BY <1>29, ConfirmReviewEffect, <1>1 DEF Queued, Idle, Stopped, Moved, Left, Kept, Drifted, git
<1>30. CASE PrepareMerge
  BY <1>30, PrepareMergeEffect, <1>1 DEF Queued, Idle, Stopped, Moved, Left, Kept, Drifted, git
<1>31. CASE ReconcileMerge \/ InspectIndex \/ CheckMerged
  BY <1>31, SurveyEffect, <1>1 DEF Queued, Idle, Stopped, Moved, Left, Kept, Drifted, git
<1>32. CASE CheckSource
  <2>1. \A t \in queue : qa'[t] = qa[t] /\ session'[t] = session[t]
    BY <1>32, CheckSourceEffect, <1>1 DEF TypeOK, Drifted, Idle, Queued
  <2>2. (queue' = {} \/ UNCHANGED <<queue, resumed, qaOnly>>) /\ (at' \in Idle \/ (node' = node /\ at \notin Idle))
    BY <1>32, CheckSourceEffect, <1>1 DEF Stopped, Moved, Left, Kept, Drifted, Idle
  <2>3. QED
    BY <1>2, <2>1, <2>2
<1>33. CASE SquashMerge
  BY <1>33, SquashMergeEffect, <1>1 DEF Queued, Idle, Stopped, Moved, Left, Kept, Drifted, git
<1>34. CASE CommitMerge
  BY <1>34, CommitMergeEffect, <1>1 DEF Queued, Idle, Stopped, Moved, Left, Kept, Drifted, git
<1>35. CASE ConfirmMerge
  BY <1>35, ConfirmMergeEffect, <1>1 DEF Queued, Idle, Stopped, Moved, Left, Kept, Drifted, git
<1>36. CASE RemoveMerged
  BY <1>36, RemoveMergedEffect, <1>1 DEF Queued, Idle, Stopped, Moved, Left, Kept, Drifted, git
<1>37. CASE DeleteBranch
  BY <1>37, DeleteBranchEffect, <1>1 DEF Queued, Idle, Stopped, Moved, Left, Kept, Drifted, git
<1>38. CASE PlanCompletion
  BY <1>38, PlanCompletionEffect, <1>1 DEF Queued, Idle, Stopped, Moved, Left, Kept, Drifted, git
<1>39. CASE CompleteTicket
  BY <1>39, CompleteTicketEffect, <1>1 DEF Queued, Idle, Stopped, Moved, Left, Kept, Drifted, git
<1>40. CASE ConfirmCompletion
  BY <1>40, ConfirmCompletionEffect, <1>1 DEF Queued, Idle, Stopped, Moved, Left, Kept, Drifted, git
<1>41. CASE CompleteQa
  <2>1. \A t \in queue : qa'[t] = qa[t] /\ session'[t] = session[t]
    BY <1>41, CompleteQaEffect, <1>1 DEF TypeOK, Drifted, Idle, Queued
  <2>2. (queue' = {} \/ UNCHANGED <<queue, resumed, qaOnly>>) /\ (at' \in Idle \/ (node' = node /\ at \notin Idle))
    BY <1>41, CompleteQaEffect, <1>1 DEF Stopped, Moved, Left, Kept, Drifted, Idle
  <2>3. QED
    BY <1>2, <2>1, <2>2
<1>42. CASE CloseSession
  BY <1>42, CloseSessionEffect, <1>1 DEF Queued, Idle, Stopped, Moved, Left, Kept, Drifted, git
<1>43. CASE RemoveWorktree
  BY <1>43, RemoveWorktreeEffect, <1>1 DEF Queued, Idle, Stopped, Moved, Left, Kept, Drifted, git
<1>44. QED
  BY <1>3, <1>4, <1>5, <1>6, <1>7, <1>8, <1>9, <1>10, <1>11, <1>12, <1>13, <1>14, <1>15, <1>16, <1>17,
     <1>18, <1>19, <1>20, <1>21, <1>22, <1>23, <1>24, <1>25, <1>26, <1>27, <1>28, <1>29, <1>30, <1>31,
     <1>32, <1>33, <1>34, <1>35, <1>36, <1>37, <1>38, <1>39, <1>40, <1>41, <1>42, <1>43, Zenon
     DEF Next, Loop, Build, Finalize, Deliver, Complete, Human

(* Contents only grow.                                                          *)
LEMMA ContentsNext ==
  ASSUME IInv, [Next]_vars
  PROVE  Contents'
<1> SUFFICES ASSUME NEW t \in Ticket
             PROVE  Grown(t)'
  BY DEF Contents
<1>1. Contents /\ TypeOK /\ Heads /\ Queued /\ Untouched
  BY DEF IInv
<1>2. /\ head[t] \in Nat /\ tree[t] \in Nat /\ head[t] <= tree[t] /\ (wt[t] => br[t])
      /\ qa[t] \in {"passed", "finalizing"} => cert[t].tree <= tree[t] /\ cert[t].tree \in Nat
  BY <1>1 DEF Contents, Grown, TypeOK
<1>3. /\ tree \in [Ticket -> Nat] /\ head \in [Ticket -> Nat] /\ wt \in [Ticket -> BOOLEAN] /\ br \in [Ticket -> BOOLEAN]
      /\ qa \in [Ticket -> Qas] /\ DOMAIN cert = Ticket
  BY <1>1 DEF TypeOK
<1>4. at = "finalize" => qa[node] = IF recovering THEN "finalizing" ELSE "passed"
  BY <1>1 DEF Heads
<1>5. \A u \in queue : u \notin resumed => qa[u] = "none"
  BY <1>1 DEF Queued, Untouched, Fresh
<1>6. CASE UNCHANGED vars
  BY <1>6, <1>2, <1>3 DEF Grown, vars, git, books, plan
<1>7. CASE Start \/ Resume
  BY <1>7, LaunchEffect, <1>2, <1>3 DEF Grown, git, books
<1>8. CASE Finish \/ Crash
  BY <1>8, HaltEffect, <1>2, <1>3 DEF Grown, Stopped, Moved, Drifted, git, books
<1>9. ASSUME NEW u \in Ticket, PassOver(u)
      PROVE  Grown(t)'
  BY <1>9, <1>2, <1>3 DEF Grown, PassOver, Pass, Taking, bounds, books, git
<1>10. ASSUME NEW u \in Ticket, RecoverMerge(u)
      PROVE  Grown(t)'
  BY <1>10, <1>2, <1>3 DEF Grown, RecoverMerge, Take, Taking, MergeOp, bounds, books, git
<1>11. ASSUME NEW u \in Ticket, ContinueTicket(u)
      PROVE  Grown(t)'
  BY <1>11, <1>2, <1>3 DEF Grown, ContinueTicket, Take, Taking, MergeOp, bounds, books, git
<1>12. ASSUME NEW u \in Ticket, CreateWorktree(u)
      PROVE  Grown(t)'
  <2>1. CASE br[u]
    BY <1>12, <2>1, <1>2, <1>3 DEF Grown, CreateWorktree, bounds, books, git
  <2>2. CASE ~ br[u]
    BY <1>12, <2>2, <1>2, <1>3, <1>5 DEF Grown, CreateWorktree, Take, Taking, bounds, books
  <2>3. QED
    BY <2>1, <2>2
<1>13. ASSUME NEW u \in Ticket, HumanEdits(u)
      PROVE  Grown(t)'
  BY <1>13, <1>2, <1>3 DEF Grown, HumanEdits, Touch, books, plan, git
<1>14. ASSUME NEW u \in Ticket, HumanCommits(u)
      PROVE  Grown(t)'
  BY <1>14, <1>2, <1>3 DEF Grown, HumanCommits, Touch, Dirty, books, plan, git
<1>15. CASE OpenTicket
  BY <1>15, <1>2, <1>3 DEF Grown, OpenTicket, Goto, plan, bounds, git
<1>16. CASE BuilderEdits
  BY <1>16, <1>2, <1>3 DEF Grown, BuilderEdits, bounds, books, plan, git
<1>17. CASE PassQa
  BY <1>17, <1>2, <1>3 DEF Grown, PassQa, Goto, plan, bounds, Digest, git
<1>18. CASE WaiveQa
  BY <1>18, <1>2, <1>3 DEF Grown, WaiveQa, Goto, plan, bounds, git
<1>19. CASE HumanCommitsBase
  BY <1>19, <1>2, <1>3 DEF Grown, HumanCommitsBase, Touch, books, plan, git
<1>20. ASSUME NEW how \in {"done", "blocked", "error"}, BuilderEnds(how)
      PROVE  Grown(t)'
  BY <1>20, BuilderEndsEffect, <1>2, <1>3 DEF Grown, Stopped, Moved, Drifted, git
<1>21. CASE BeginQa
  BY <1>21, BeginQaEffect, <1>2, <1>3 DEF Grown, Stopped, Moved, Drifted, git
<1>22. CASE QaBlocks
  BY <1>22, QaBlocksEffect, <1>2, <1>3 DEF Grown, Stopped, Moved, Drifted, git
<1>23. CASE BeginFinalization
  BY <1>23, BeginFinalizationEffect, <1>2, <1>3, <1>4 DEF Grown, git
<1>24. CASE ResumeFinalization
  BY <1>24, ResumeFinalizationEffect, <1>2, <1>3 DEF Grown, Stopped, Moved, Drifted, git
<1>25. CASE PlanCommit
  BY <1>25, PlanCommitEffect, <1>2, <1>3 DEF Grown, Stopped, Moved, Drifted, git
<1>26. CASE CommitAll
  BY <1>26, CommitAllEffect, <1>2, <1>3 DEF Grown, Stopped, Moved, Drifted, git
<1>27. CASE ConfirmCommit
  BY <1>27, ConfirmCommitEffect, <1>2, <1>3 DEF Grown, Stopped, Moved, Drifted, git
<1>28. CASE VerifyPublication
  BY <1>28, VerifyPublicationEffect, <1>2, <1>3 DEF Grown, Stopped, Moved, Drifted, git
<1>29. CASE Push
  BY <1>29, PushEffect, <1>2, <1>3 DEF Grown, Stopped, Moved, Drifted, git
<1>30. CASE ConfirmPush
  BY <1>30, ConfirmPushEffect, <1>2, <1>3 DEF Grown, Stopped, Moved, Drifted, git
<1>31. CASE RequestReview
  BY <1>31, RequestReviewEffect, <1>2, <1>3 DEF Grown, Stopped, Moved, Drifted, git
<1>32. CASE ConfirmReview
  BY <1>32, ConfirmReviewEffect, <1>2, <1>3 DEF Grown, Stopped, Moved, Drifted, git
<1>33. CASE PrepareMerge
  BY <1>33, PrepareMergeEffect, <1>2, <1>3 DEF Grown, Stopped, Moved, Drifted, git
<1>34. CASE ReconcileMerge \/ InspectIndex \/ CheckMerged
  BY <1>34, SurveyEffect, <1>2, <1>3 DEF Grown, Stopped, Moved, Drifted, git
<1>35. CASE CheckSource
  BY <1>35, CheckSourceEffect, <1>2, <1>3 DEF Grown, Stopped, Moved, Drifted, git
<1>36. CASE SquashMerge
  BY <1>36, SquashMergeEffect, <1>2, <1>3 DEF Grown, Stopped, Moved, Drifted, git
<1>37. CASE CommitMerge
  BY <1>37, CommitMergeEffect, <1>2, <1>3 DEF Grown, Stopped, Moved, Drifted, git
<1>38. CASE ConfirmMerge
  BY <1>38, ConfirmMergeEffect, <1>2, <1>3 DEF Grown, Stopped, Moved, Drifted, git
<1>39. CASE RemoveMerged
  BY <1>39, RemoveMergedEffect, <1>2, <1>3 DEF Grown, Stopped, Moved, Drifted, git
<1>40. CASE DeleteBranch
  <2>1. node \in Ticket /\ ~ wt[node]
    BY <1>40, DeleteBranchEffect DEF IInv, Removal
  <2>2. br'[t] = br[t] \/ t = node
    BY <1>40, DeleteBranchEffect, <1>3
  <2>3. QED
    BY <1>40, DeleteBranchEffect, <1>2, <2>1, <2>2 DEF Grown
<1>41. CASE PlanCompletion
  BY <1>41, PlanCompletionEffect, <1>2, <1>3 DEF Grown, Stopped, Moved, Drifted, git
<1>42. CASE CompleteTicket
  BY <1>42, CompleteTicketEffect, <1>2, <1>3 DEF Grown, Stopped, Moved, Drifted, git
<1>43. CASE ConfirmCompletion
  BY <1>43, ConfirmCompletionEffect, <1>2, <1>3 DEF Grown, Stopped, Moved, Drifted, git
<1>44. CASE CompleteQa
  BY <1>44, CompleteQaEffect, <1>2, <1>3 DEF Grown, Stopped, Moved, Drifted, git
<1>45. CASE CloseSession
  BY <1>45, CloseSessionEffect, <1>2, <1>3 DEF Grown, Stopped, Moved, Drifted, git
<1>46. CASE RemoveWorktree
  BY <1>46, RemoveWorktreeEffect, <1>2, <1>3 DEF Grown, Stopped, Moved, Drifted, git
<1>47. QED
  BY <1>6, <1>7, <1>8, <1>9, <1>10, <1>11, <1>12, <1>13, <1>14, <1>15, <1>16, <1>17, <1>18, <1>19, <1>20,
     <1>21, <1>22, <1>23, <1>24, <1>25, <1>26, <1>27, <1>28, <1>29, <1>30, <1>31, <1>32, <1>33, <1>34,
     <1>35, <1>36, <1>37, <1>38, <1>39, <1>40, <1>41, <1>42, <1>43, <1>44, <1>45, <1>46, Zenon
     DEF Next, Loop, Build, Finalize, Deliver, Complete, Human

(* A ticket without a session is untouched.                                     *)
LEMMA FreshNext ==
  ASSUME IInv, [Next]_vars
  PROVE  \A t \in Ticket : Fresh(t)'
<1> SUFFICES ASSUME NEW t \in Ticket
             PROVE  Fresh(t)'
  OBVIOUS
<1>1. TypeOK /\ Heads /\ Fresh(t) /\ Queued
  BY DEF IInv, Untouched
<1>2. /\ head \in [Ticket -> Nat] /\ tree \in [Ticket -> Nat] /\ journal \in Journal /\ qa \in [Ticket -> Qas]
      /\ session \in [Ticket -> {"none", "active", "completed"}] /\ (at \notin Idle => node \in Ticket)
  BY <1>1 DEF TypeOK
<1>3. at \notin Idle \cup {"open", "build"} => session[node] # "none"
  BY <1>1 DEF Heads
<1>4. CASE UNCHANGED vars
  BY <1>4, <1>1, <1>2, <1>3 DEF Fresh, Status, Idle, vars, git, books, plan
<1>5. CASE Start \/ Resume
  BY <1>5, LaunchEffect, <1>1, <1>2, <1>3 DEF Fresh, Status, Idle, git, books
<1>6. CASE Finish \/ Crash
  BY <1>6, HaltEffect, <1>1, <1>2, <1>3 DEF Fresh, Status, Idle, Stopped, Moved, Drifted, Rows, git, books
<1>7. ASSUME NEW u \in Ticket, PassOver(u)
      PROVE  Fresh(t)'
  BY <1>7, <1>1, <1>2, <1>3 DEF Fresh, Status, Idle, PassOver, Pass, Taking, bounds, books, git
<1>8. ASSUME NEW u \in Ticket, RecoverMerge(u)
      PROVE  Fresh(t)'
  BY <1>8, <1>1, <1>2, <1>3 DEF Fresh, Status, Idle, RecoverMerge, Take, Taking, MergeOp, bounds, books, git
<1>9. ASSUME NEW u \in Ticket, ContinueTicket(u)
      PROVE  Fresh(t)'
  BY <1>9, <1>1, <1>2, <1>3 DEF Fresh, Status, Idle, ContinueTicket, Take, Taking, MergeOp, bounds, books, git
<1>10. ASSUME NEW u \in Ticket, CreateWorktree(u)
      PROVE  Fresh(t)'
  BY <1>10, <1>1, <1>2, <1>3 DEF Fresh, Status, Idle, CreateWorktree, Take, Taking, Halt, Forgotten, bounds,
     books, git
<1>11. ASSUME NEW u \in Ticket, HumanEdits(u)
      PROVE  Fresh(t)'
  BY <1>11, <1>1, <1>2, <1>3 DEF Fresh, Status, Idle, HumanEdits, Touch, books, plan, git
<1>12. ASSUME NEW u \in Ticket, HumanCommits(u)
      PROVE  Fresh(t)'
  BY <1>12, <1>1, <1>2, <1>3 DEF Fresh, Status, Idle, HumanCommits, Touch, Dirty, books, plan, git
<1>13. CASE OpenTicket
  BY <1>13, <1>1, <1>2, <1>3 DEF Fresh, Status, Idle, OpenTicket, Goto, plan, bounds, git
<1>14. CASE BuilderEdits
  BY <1>14, <1>1, <1>2, <1>3 DEF Fresh, Status, Idle, BuilderEdits, bounds, books, plan, git
<1>15. CASE PassQa
  BY <1>15, <1>1, <1>2, <1>3 DEF Fresh, Status, Idle, PassQa, Goto, plan, bounds, Digest, git
<1>16. CASE WaiveQa
  BY <1>16, <1>1, <1>2, <1>3 DEF Fresh, Status, Idle, WaiveQa, Goto, plan, bounds, git
<1>17. CASE HumanCommitsBase
  BY <1>17, <1>1, <1>2, <1>3 DEF Fresh, Status, Idle, HumanCommitsBase, Touch, books, plan, git
<1>18. ASSUME NEW how \in {"done", "blocked", "error"}, BuilderEnds(how)
      PROVE  Fresh(t)'
  BY <1>18, BuilderEndsEffect, <1>1, <1>2, <1>3 DEF Fresh, Status, Idle, Stopped, Moved, Drifted, Rows, git
<1>19. CASE BeginQa
  BY <1>19, BeginQaEffect, <1>1, <1>2, <1>3 DEF Fresh, Status, Idle, Stopped, Moved, Drifted, Rows, git
<1>20. CASE QaBlocks
  BY <1>20, QaBlocksEffect, <1>1, <1>2, <1>3 DEF Fresh, Status, Idle, Stopped, Moved, Drifted, Rows, git
<1>21. CASE BeginFinalization
  BY <1>21, BeginFinalizationEffect, <1>1, <1>2, <1>3 DEF Fresh, Status, Idle, Stopped, Moved, Drifted, Rows,
     git
<1>22. CASE ResumeFinalization
  BY <1>22, ResumeFinalizationEffect, <1>1, <1>2, <1>3 DEF Fresh, Status, Idle, Stopped, Moved, Drifted,
     Rows, git
<1>23. CASE PlanCommit
  BY <1>23, PlanCommitEffect, <1>1, <1>2, <1>3 DEF Fresh, Status, Idle, Stopped, Moved, Drifted, Rows, git
<1>24. CASE CommitAll
  BY <1>24, CommitAllEffect, <1>1, <1>2, <1>3 DEF Fresh, Status, Idle, Stopped, Moved, Drifted, Rows, git
<1>25. CASE ConfirmCommit
  BY <1>25, ConfirmCommitEffect, <1>1, <1>2, <1>3 DEF Fresh, Status, Idle, Stopped, Moved, Drifted, Rows, git
<1>26. CASE VerifyPublication
  BY <1>26, VerifyPublicationEffect, <1>1, <1>2, <1>3 DEF Fresh, Status, Idle, Stopped, Moved, Drifted, Rows,
     git
<1>27. CASE Push
  BY <1>27, PushEffect, <1>1, <1>2, <1>3 DEF Fresh, Status, Idle, Stopped, Moved, Drifted, Rows, git
<1>28. CASE ConfirmPush
  BY <1>28, ConfirmPushEffect, <1>1, <1>2, <1>3 DEF Fresh, Status, Idle, Stopped, Moved, Drifted, Rows, git
<1>29. CASE RequestReview
  BY <1>29, RequestReviewEffect, <1>1, <1>2, <1>3 DEF Fresh, Status, Idle, Stopped, Moved, Drifted, Rows, git
<1>30. CASE ConfirmReview
  BY <1>30, ConfirmReviewEffect, <1>1, <1>2, <1>3 DEF Fresh, Status, Idle, Stopped, Moved, Drifted, Rows, git
<1>31. CASE PrepareMerge
  BY <1>31, PrepareMergeEffect, <1>1, <1>2, <1>3 DEF Fresh, Status, Idle, Stopped, Moved, Drifted, Rows, git
<1>32. CASE ReconcileMerge \/ InspectIndex \/ CheckMerged
  BY <1>32, SurveyEffect, <1>1, <1>2, <1>3 DEF Fresh, Status, Idle, Stopped, Moved, Drifted, Rows, git
<1>33. CASE CheckSource
  BY <1>33, CheckSourceEffect, <1>1, <1>2, <1>3 DEF Fresh, Status, Idle, Stopped, Moved, Drifted, Rows, git
<1>34. CASE SquashMerge
  BY <1>34, SquashMergeEffect, <1>1, <1>2, <1>3 DEF Fresh, Status, Idle, Stopped, Moved, Drifted, Rows, git
<1>35. CASE CommitMerge
  BY <1>35, CommitMergeEffect, <1>1, <1>2, <1>3 DEF Fresh, Status, Idle, Stopped, Moved, Drifted, Rows, git
<1>36. CASE ConfirmMerge
  BY <1>36, ConfirmMergeEffect, <1>1, <1>2, <1>3 DEF Fresh, Status, Idle, Stopped, Moved, Drifted, Rows, git
<1>37. CASE RemoveMerged
  BY <1>37, RemoveMergedEffect, <1>1, <1>2, <1>3 DEF Fresh, Status, Idle, Stopped, Moved, Drifted, Rows, git
<1>38. CASE DeleteBranch
  BY <1>38, DeleteBranchEffect, <1>1, <1>2, <1>3 DEF Fresh, Status, Idle, Stopped, Moved, Drifted, Rows, git
<1>39. CASE PlanCompletion
  BY <1>39, PlanCompletionEffect, <1>1, <1>2, <1>3 DEF Fresh, Status, Idle, Stopped, Moved, Drifted, Rows, git
<1>40. CASE CompleteTicket
  BY <1>40, CompleteTicketEffect, <1>1, <1>2, <1>3 DEF Fresh, Status, Idle, Stopped, Moved, Drifted, Rows, git
<1>41. CASE ConfirmCompletion
  BY <1>41, ConfirmCompletionEffect, <1>1, <1>2, <1>3 DEF Fresh, Status, Idle, Stopped, Moved, Drifted, Rows, git
<1>42. CASE CompleteQa
  BY <1>42, CompleteQaEffect, <1>1, <1>2, <1>3 DEF Fresh, Status, Idle, Stopped, Moved, Drifted, Rows, git
<1>43. CASE CloseSession
  BY <1>43, CloseSessionEffect, <1>1, <1>2, <1>3 DEF Fresh, Status, Idle, Stopped, Moved, Drifted, Rows, git
<1>44. CASE RemoveWorktree
  BY <1>44, RemoveWorktreeEffect, <1>1, <1>2, <1>3 DEF Fresh, Status, Idle, Stopped, Moved, Drifted, Rows, git
<1>45. QED
  BY <1>4, <1>5, <1>6, <1>7, <1>8, <1>9, <1>10, <1>11, <1>12, <1>13, <1>14, <1>15, <1>16, <1>17, <1>18,
     <1>19, <1>20, <1>21, <1>22, <1>23, <1>24, <1>25, <1>26, <1>27, <1>28, <1>29, <1>30, <1>31, <1>32,
     <1>33, <1>34, <1>35, <1>36, <1>37, <1>38, <1>39, <1>40, <1>41, <1>42, <1>43, <1>44, Zenon
     DEF Next, Loop, Build, Finalize, Deliver, Complete, Human

(* Without QA there are no QA heads, and a new run has no session.              *)
LEMMA BeginningNext ==
  ASSUME IInv, [Next]_vars
  PROVE  Beginning'
<1>1. TypeOK /\ Heads /\ Beginning
  BY DEF IInv, Untouched
<1>2. /\ head \in [Ticket -> Nat] /\ tree \in [Ticket -> Nat] /\ journal \in Journal /\ qa \in [Ticket -> Qas]
      /\ session \in [Ticket -> {"none", "active", "completed"}] /\ (at \notin Idle => node \in Ticket)
  BY <1>1 DEF TypeOK
<1>3. at \in {"qa", "review", "finalize"} => options.qa
  BY <1>1 DEF Heads
<1>4. CASE UNCHANGED vars
  BY <1>4, <1>1, <1>2, <1>3 DEF Beginning, Idle, vars, git, books, plan
<1>5. CASE Start \/ Resume
  BY <1>5, LaunchEffect, <1>1, <1>2, <1>3 DEF Beginning, Idle, git, books
<1>6. CASE Finish \/ Crash
  BY <1>6, HaltEffect, <1>1, <1>2, <1>3 DEF Beginning, Idle, Stopped, Moved, Drifted, Left, git, books
<1>7. ASSUME NEW u \in Ticket, PassOver(u)
      PROVE  Beginning'
  BY <1>7, <1>1, <1>2, <1>3 DEF Beginning, Idle, PassOver, Pass, Taking, bounds, books, git
<1>8. ASSUME NEW u \in Ticket, RecoverMerge(u)
      PROVE  Beginning'
  BY <1>8, <1>1, <1>2, <1>3 DEF Beginning, Idle, RecoverMerge, Take, Taking, MergeOp, bounds, books, git
<1>9. ASSUME NEW u \in Ticket, ContinueTicket(u)
      PROVE  Beginning'
  BY <1>9, <1>1, <1>2, <1>3 DEF Beginning, Idle, ContinueTicket, Take, Taking, MergeOp, bounds, books, git
<1>10. ASSUME NEW u \in Ticket, CreateWorktree(u)
      PROVE  Beginning'
  BY <1>10, <1>1, <1>2, <1>3 DEF Beginning, Idle, CreateWorktree, Take, Taking, Halt, Forgotten, bounds,
     books, git
<1>11. ASSUME NEW u \in Ticket, HumanEdits(u)
      PROVE  Beginning'
  BY <1>11, <1>1, <1>2, <1>3 DEF Beginning, Idle, HumanEdits, Touch, books, plan, git
<1>12. ASSUME NEW u \in Ticket, HumanCommits(u)
      PROVE  Beginning'
  BY <1>12, <1>1, <1>2, <1>3 DEF Beginning, Idle, HumanCommits, Touch, Dirty, books, plan, git
<1>13. CASE OpenTicket
  BY <1>13, <1>1, <1>2, <1>3 DEF Beginning, Idle, OpenTicket, Goto, plan, bounds, git
<1>14. CASE BuilderEdits
  BY <1>14, <1>1, <1>2, <1>3 DEF Beginning, Idle, BuilderEdits, bounds, books, plan, git
<1>15. CASE PassQa
  BY <1>15, <1>1, <1>2, <1>3 DEF Beginning, Idle, PassQa, Goto, plan, bounds, Digest, git
<1>16. CASE WaiveQa
  BY <1>16, <1>1, <1>2, <1>3 DEF Beginning, Idle, WaiveQa, Goto, plan, bounds, git
<1>17. CASE HumanCommitsBase
  BY <1>17, <1>1, <1>2, <1>3 DEF Beginning, Idle, HumanCommitsBase, Touch, books, plan, git
<1>18. ASSUME NEW how \in {"done", "blocked", "error"}, BuilderEnds(how)
      PROVE  Beginning'
  BY <1>18, BuilderEndsEffect, <1>1, <1>2, <1>3 DEF Beginning, Idle, Stopped, Moved, Drifted, Left, git
<1>19. CASE BeginQa
  BY <1>19, BeginQaEffect, <1>1, <1>2, <1>3 DEF Beginning, Idle, Stopped, Moved, Drifted, Left, git
<1>20. CASE QaBlocks
  BY <1>20, QaBlocksEffect, <1>1, <1>2, <1>3 DEF Beginning, Idle, Stopped, Moved, Drifted, Left, git
<1>21. CASE BeginFinalization
  BY <1>21, BeginFinalizationEffect, <1>1, <1>2, <1>3 DEF Beginning, Idle, Stopped, Moved, Drifted, Left, git
<1>22. CASE ResumeFinalization
  BY <1>22, ResumeFinalizationEffect, <1>1, <1>2, <1>3 DEF Beginning, Idle, Stopped, Moved, Drifted, Left, git
<1>23. CASE PlanCommit
  BY <1>23, PlanCommitEffect, <1>1, <1>2, <1>3 DEF Beginning, Idle, Stopped, Moved, Drifted, Left, git
<1>24. CASE CommitAll
  BY <1>24, CommitAllEffect, <1>1, <1>2, <1>3 DEF Beginning, Idle, Stopped, Moved, Drifted, Left, git
<1>25. CASE ConfirmCommit
  BY <1>25, ConfirmCommitEffect, <1>1, <1>2, <1>3 DEF Beginning, Idle, Stopped, Moved, Drifted, Left, git
<1>26. CASE VerifyPublication
  BY <1>26, VerifyPublicationEffect, <1>1, <1>2, <1>3 DEF Beginning, Idle, Stopped, Moved, Drifted, Left, git
<1>27. CASE Push
  BY <1>27, PushEffect, <1>1, <1>2, <1>3 DEF Beginning, Idle, Stopped, Moved, Drifted, Left, git
<1>28. CASE ConfirmPush
  BY <1>28, ConfirmPushEffect, <1>1, <1>2, <1>3 DEF Beginning, Idle, Stopped, Moved, Drifted, Left, git
<1>29. CASE RequestReview
  BY <1>29, RequestReviewEffect, <1>1, <1>2, <1>3 DEF Beginning, Idle, Stopped, Moved, Drifted, Left, git
<1>30. CASE ConfirmReview
  BY <1>30, ConfirmReviewEffect, <1>1, <1>2, <1>3 DEF Beginning, Idle, Stopped, Moved, Drifted, Left, git
<1>31. CASE PrepareMerge
  BY <1>31, PrepareMergeEffect, <1>1, <1>2, <1>3 DEF Beginning, Idle, Stopped, Moved, Drifted, Left, git
<1>32. CASE ReconcileMerge \/ InspectIndex \/ CheckMerged
  BY <1>32, SurveyEffect, <1>1, <1>2, <1>3 DEF Beginning, Idle, Stopped, Moved, Drifted, Left, git
<1>33. CASE CheckSource
  BY <1>33, CheckSourceEffect, <1>1, <1>2, <1>3 DEF Beginning, Idle, Stopped, Moved, Drifted, Left, git
<1>34. CASE SquashMerge
  BY <1>34, SquashMergeEffect, <1>1, <1>2, <1>3 DEF Beginning, Idle, Stopped, Moved, Drifted, Left, git
<1>35. CASE CommitMerge
  BY <1>35, CommitMergeEffect, <1>1, <1>2, <1>3 DEF Beginning, Idle, Stopped, Moved, Drifted, Left, git
<1>36. CASE ConfirmMerge
  BY <1>36, ConfirmMergeEffect, <1>1, <1>2, <1>3 DEF Beginning, Idle, Stopped, Moved, Drifted, Left, git
<1>37. CASE RemoveMerged
  BY <1>37, RemoveMergedEffect, <1>1, <1>2, <1>3 DEF Beginning, Idle, Stopped, Moved, Drifted, Left, git
<1>38. CASE DeleteBranch
  BY <1>38, DeleteBranchEffect, <1>1, <1>2, <1>3 DEF Beginning, Idle, Stopped, Moved, Drifted, Left, git
<1>39. CASE PlanCompletion
  BY <1>39, PlanCompletionEffect, <1>1, <1>2, <1>3 DEF Beginning, Idle, Stopped, Moved, Drifted, Left, git
<1>40. CASE CompleteTicket
  BY <1>40, CompleteTicketEffect, <1>1, <1>2, <1>3 DEF Beginning, Idle, Stopped, Moved, Drifted, Left, git
<1>41. CASE ConfirmCompletion
  BY <1>41, ConfirmCompletionEffect, <1>1, <1>2, <1>3 DEF Beginning, Idle, Stopped, Moved, Drifted, Left, git
<1>42. CASE CompleteQa
  BY <1>42, CompleteQaEffect, <1>1, <1>2 DEF Beginning, Idle, Moved, Bound, git
<1>43. CASE CloseSession
  BY <1>43, CloseSessionEffect, <1>1, <1>2, <1>3 DEF Beginning, Idle, Stopped, Moved, Drifted, Left, git
<1>44. CASE RemoveWorktree
  BY <1>44, RemoveWorktreeEffect, <1>1, <1>2, <1>3 DEF Beginning, Idle, Stopped, Moved, Drifted, Left, git
<1>45. QED
  BY <1>4, <1>5, <1>6, <1>7, <1>8, <1>9, <1>10, <1>11, <1>12, <1>13, <1>14, <1>15, <1>16, <1>17, <1>18,
     <1>19, <1>20, <1>21, <1>22, <1>23, <1>24, <1>25, <1>26, <1>27, <1>28, <1>29, <1>30, <1>31, <1>32,
     <1>33, <1>34, <1>35, <1>36, <1>37, <1>38, <1>39, <1>40, <1>41, <1>42, <1>43, <1>44, Zenon
     DEF Next, Loop, Build, Finalize, Deliver, Complete, Human

(* The journal knows where a merge belongs.                                     *)
LEMMA MergeKnownNext ==
  ASSUME IInv, [Next]_vars
  PROVE  \A t \in Ticket : MergeKnown(t)'
<1> SUFFICES ASSUME NEW t \in Ticket
             PROVE  MergeKnown(t)'
  OBVIOUS
<1>1. TypeOK /\ Merges /\ Contents /\ Queued /\ Untouched /\ Receipts /\ Closings
  BY DEF IInv
<1>2. /\ head \in [Ticket -> Nat] /\ tree \in [Ticket -> Nat] /\ journal \in Journal /\ qa \in [Ticket -> Qas]
      /\ session \in [Ticket -> {"none", "active", "completed"}] /\ (at \notin Idle => node \in Ticket)
  BY <1>1 DEF TypeOK
<1>3. MergeKnown(t)
  BY <1>1 DEF Merges
<1>4. \A u \in queue : u \notin resumed => Status(u, "merge") = "none"
  BY <1>1 DEF Queued, Untouched, Fresh, Kind
<1>5. Len(base) \in Nat /\ DOMAIN base = 1 .. Len(base)
  BY <1>1, Lengths
<1>6. head[t] \in Nat /\ tree[t] \in Nat /\ head[t] <= tree[t] /\ "merge" \in Kind
  BY <1>1 DEF Contents, Grown, TypeOK, Kind
<1>7. ASSUME journal'[t]["merge"] = journal[t]["merge"], UNCHANGED <<options, base>>, head[t] # 0 => head'[t] # 0
      PROVE  MergeKnown(t)'
  BY <1>3, <1>7 DEF MergeKnown, Status, Source, Frozen, MergeOp, Standing
<1>8. ASSUME Status(t, "merge")' = "none"
      PROVE  MergeKnown(t)'
  BY <1>8 DEF MergeKnown, Status, Standing
<1>9. CASE UNCHANGED vars
  <2>1. journal'[t]["merge"] = journal[t]["merge"] /\ UNCHANGED <<options, base>> /\ (head[t] # 0 => head'[t] # 0)
    BY <1>9, <1>2, <1>6 DEF Stopped, Moved, Rows, Notes, Drifted, git, books, vars
  <2>2. QED
    BY <1>7, <2>1
<1>10. CASE Start \/ Resume
  <2>1. journal'[t]["merge"] = journal[t]["merge"] /\ UNCHANGED <<options, base>> /\ (head[t] # 0 => head'[t] # 0)
    BY <1>10, LaunchEffect, <1>2, <1>6 DEF Stopped, Moved, Rows, Notes, Drifted, git, books
  <2>2. QED
    BY <1>7, <2>1
<1>11. CASE Finish \/ Crash
  <2>1. journal'[t]["merge"] = journal[t]["merge"] /\ UNCHANGED <<options, base>> /\ (head[t] # 0 => head'[t] # 0)
    BY <1>11, HaltEffect, <1>2, <1>6 DEF Stopped, Moved, Rows, Notes, Drifted, git, books
  <2>2. QED
    BY <1>7, <2>1
<1>12. ASSUME NEW u \in Ticket, PassOver(u)
      PROVE  MergeKnown(t)'
  <2>1. journal'[t]["merge"] = journal[t]["merge"] /\ UNCHANGED <<options, base>> /\ (head[t] # 0 => head'[t] # 0)
    BY <1>12, <1>2, <1>6 DEF Stopped, Moved, Rows, Notes, Drifted, git, books, PassOver, Pass, Taking, bounds
  <2>2. QED
    BY <1>7, <2>1
<1>13. ASSUME NEW u \in Ticket, RecoverMerge(u)
      PROVE  MergeKnown(t)'
  <2>1. journal'[t]["merge"] = journal[t]["merge"] /\ UNCHANGED <<options, base>> /\ (head[t] # 0 => head'[t] # 0)
    BY <1>13, <1>2, <1>6 DEF Stopped, Moved, Rows, Notes, Drifted, git, books, RecoverMerge, Take, Taking,
       MergeOp, bounds
  <2>2. QED
    BY <1>7, <2>1
<1>14. ASSUME NEW u \in Ticket, ContinueTicket(u)
      PROVE  MergeKnown(t)'
  <2>1. journal'[t]["merge"] = journal[t]["merge"] /\ UNCHANGED <<options, base>> /\ (head[t] # 0 => head'[t] # 0)
    BY <1>14, <1>2, <1>6 DEF Stopped, Moved, Rows, Notes, Drifted, git, books, ContinueTicket, Take, Taking,
       MergeOp, bounds
  <2>2. QED
    BY <1>7, <2>1
<1>15. ASSUME NEW u \in Ticket, CreateWorktree(u)
      PROVE  MergeKnown(t)'
  <2>1. CASE t = u /\ ~ br[u]
    <3>1. Status(t, "merge") = "none" /\ journal' = journal
      BY <1>15, <1>4, <2>1 DEF CreateWorktree, Taking, books
    <3>2. QED
      BY <1>8, <3>1 DEF Status
  <2>2. CASE t # u \/ br[u]
    <3>1. UNCHANGED <<options, base, journal>> /\ head'[t] = head[t]
      BY <1>15, <1>2, <2>2 DEF CreateWorktree, bounds, books, git
    <3>2. QED
      BY <1>7, <3>1
  <2>3. QED
    BY <2>1, <2>2
<1>16. ASSUME NEW u \in Ticket, HumanEdits(u)
      PROVE  MergeKnown(t)'
  <2>1. journal'[t]["merge"] = journal[t]["merge"] /\ UNCHANGED <<options, base>> /\ (head[t] # 0 => head'[t] # 0)
    BY <1>16, <1>2, <1>6 DEF Stopped, Moved, Rows, Notes, Drifted, git, books, HumanEdits, Touch, plan
  <2>2. QED
    BY <1>7, <2>1
<1>17. ASSUME NEW u \in Ticket, HumanCommits(u)
      PROVE  MergeKnown(t)'
  <2>1. journal'[t]["merge"] = journal[t]["merge"] /\ UNCHANGED <<options, base>> /\ (head[t] # 0 => head'[t] # 0)
    BY <1>17, <1>2, <1>6 DEF Stopped, Moved, Rows, Notes, Drifted, git, books, HumanCommits, Touch, Dirty, plan
  <2>2. QED
    BY <1>7, <2>1
<1>18. CASE OpenTicket
  <2>1. journal'[t]["merge"] = journal[t]["merge"] /\ UNCHANGED <<options, base>> /\ (head[t] # 0 => head'[t] # 0)
    BY <1>18, <1>2, <1>6 DEF Stopped, Moved, Rows, Notes, Drifted, git, books, OpenTicket, Goto, plan, bounds
  <2>2. QED
    BY <1>7, <2>1
<1>19. CASE BuilderEdits
  <2>1. journal'[t]["merge"] = journal[t]["merge"] /\ UNCHANGED <<options, base>> /\ (head[t] # 0 => head'[t] # 0)
    BY <1>19, <1>2, <1>6 DEF Stopped, Moved, Rows, Notes, Drifted, git, books, BuilderEdits, bounds, plan
  <2>2. QED
    BY <1>7, <2>1
<1>20. CASE PassQa
  <2>1. journal'[t]["merge"] = journal[t]["merge"] /\ UNCHANGED <<options, base>> /\ (head[t] # 0 => head'[t] # 0)
    BY <1>20, <1>2, <1>6 DEF Stopped, Moved, Rows, Notes, Drifted, git, books, PassQa, Goto, plan, bounds,
       Digest
  <2>2. QED
    BY <1>7, <2>1
<1>21. CASE WaiveQa
  <2>1. journal'[t]["merge"] = journal[t]["merge"] /\ UNCHANGED <<options, base>> /\ (head[t] # 0 => head'[t] # 0)
    BY <1>21, <1>2, <1>6 DEF Stopped, Moved, Rows, Notes, Drifted, git, books, WaiveQa, Goto, plan, bounds
  <2>2. QED
    BY <1>7, <2>1
<1>22. CASE HumanCommitsBase
  <2>1. UNCHANGED <<options, journal, head>> /\ base' = Append(base, IF staged = <<>> THEN <<None, 0>> ELSE staged)
    BY <1>22 DEF HumanCommitsBase, Touch, books
  <2>2. Longer
    BY <2>1, <1>5, <1>1, Appending, Zenon
  <2>3. QED
    BY <1>3, <1>5, <2>1, <2>2 DEF Longer, MergeKnown, Status, Source, Frozen, MergeOp, Standing
<1>23. ASSUME NEW how \in {"done", "blocked", "error"}, BuilderEnds(how)
      PROVE  MergeKnown(t)'
  <2>1. journal'[t]["merge"] = journal[t]["merge"] /\ UNCHANGED <<options, base>> /\ (head[t] # 0 => head'[t] # 0)
    BY <1>23, BuilderEndsEffect, <1>2, <1>6 DEF Stopped, Moved, Rows, Notes, Drifted, git, books
  <2>2. QED
    BY <1>7, <2>1
<1>24. CASE BeginQa
  <2>1. journal'[t]["merge"] = journal[t]["merge"] /\ UNCHANGED <<options, base>> /\ (head[t] # 0 => head'[t] # 0)
    BY <1>24, BeginQaEffect, <1>2, <1>6 DEF Stopped, Moved, Rows, Notes, Drifted, git, books
  <2>2. QED
    BY <1>7, <2>1
<1>25. CASE QaBlocks
  <2>1. journal'[t]["merge"] = journal[t]["merge"] /\ UNCHANGED <<options, base>> /\ (head[t] # 0 => head'[t] # 0)
    BY <1>25, QaBlocksEffect, <1>2, <1>6 DEF Stopped, Moved, Rows, Notes, Drifted, git, books
  <2>2. QED
    BY <1>7, <2>1
<1>26. CASE BeginFinalization
  <2>1. journal'[t]["merge"] = journal[t]["merge"] /\ UNCHANGED <<options, base>> /\ (head[t] # 0 => head'[t] # 0)
    BY <1>26, BeginFinalizationEffect, <1>2, <1>6 DEF Stopped, Moved, Rows, Notes, Drifted, git, books
  <2>2. QED
    BY <1>7, <2>1
<1>27. CASE ResumeFinalization
  <2>1. CASE journal'[t]["merge"] = journal[t]["merge"]
    <3>1. UNCHANGED <<options, base>> /\ head' = head
      BY <1>27, ResumeFinalizationEffect DEF git
    <3>2. QED
      BY <1>7, <2>1, <3>1
  <2>2. CASE journal'[t]["merge"] # journal[t]["merge"]
    <3>1. Status(t, "merge")' = "none"
      BY <1>27, ResumeFinalizationEffect, <1>2, <1>6, <2>2 DEF Stopped, Moved, Rows, Notes, Drifted, Status
    <3>2. QED
      BY <1>8, <3>1
  <2>3. QED
    BY <2>1, <2>2
<1>28. CASE PlanCommit
  <2>1. CASE journal'[t]["merge"] = journal[t]["merge"]
    <3>1. UNCHANGED <<options, base>> /\ head' = head
      BY <1>28, PlanCommitEffect DEF git
    <3>2. QED
      BY <1>7, <2>1, <3>1
  <2>2. CASE journal'[t]["merge"] # journal[t]["merge"]
    <3>1. Status(t, "merge")' = "none"
      BY <1>28, PlanCommitEffect, <1>2, <1>6, <2>2 DEF Stopped, Moved, Rows, Notes, Drifted, Status
    <3>2. QED
      BY <1>8, <3>1
  <2>3. QED
    BY <2>1, <2>2
<1>29. CASE CommitAll
  <2>1. journal'[t]["merge"] = journal[t]["merge"] /\ UNCHANGED <<options, base>> /\ (head[t] # 0 => head'[t] # 0)
    BY <1>29, CommitAllEffect, <1>2, <1>6 DEF Stopped, Moved, Rows, Notes, Drifted, git, books
  <2>2. QED
    BY <1>7, <2>1
<1>30. CASE ConfirmCommit
  <2>1. journal'[t]["merge"] = journal[t]["merge"] /\ UNCHANGED <<options, base>> /\ (head[t] # 0 => head'[t] # 0)
    BY <1>30, ConfirmCommitEffect, <1>2, <1>6 DEF Stopped, Moved, Rows, Notes, Drifted, git, books
  <2>2. QED
    BY <1>7, <2>1
<1>31. CASE VerifyPublication
  <2>1. CASE journal'[t]["merge"] = journal[t]["merge"]
    <3>1. UNCHANGED <<options, base>> /\ head' = head
      BY <1>31, VerifyPublicationEffect DEF git
    <3>2. QED
      BY <1>7, <2>1, <3>1
  <2>2. CASE journal'[t]["merge"] # journal[t]["merge"]
    <3>1. Status(t, "merge")' = "none"
      BY <1>31, VerifyPublicationEffect, <1>2, <1>6, <2>2 DEF Stopped, Moved, Rows, Notes, Drifted, Status
    <3>2. QED
      BY <1>8, <3>1
  <2>3. QED
    BY <2>1, <2>2
<1>32. CASE Push
  <2>1. journal'[t]["merge"] = journal[t]["merge"] /\ UNCHANGED <<options, base>> /\ (head[t] # 0 => head'[t] # 0)
    BY <1>32, PushEffect, <1>2, <1>6 DEF Stopped, Moved, Rows, Notes, Drifted, git, books
  <2>2. QED
    BY <1>7, <2>1
<1>33. CASE ConfirmPush
  <2>1. journal'[t]["merge"] = journal[t]["merge"] /\ UNCHANGED <<options, base>> /\ (head[t] # 0 => head'[t] # 0)
    BY <1>33, ConfirmPushEffect, <1>2, <1>6 DEF Stopped, Moved, Rows, Notes, Drifted, git, books
  <2>2. QED
    BY <1>7, <2>1
<1>34. CASE RequestReview
  <2>1. journal'[t]["merge"] = journal[t]["merge"] /\ UNCHANGED <<options, base>> /\ (head[t] # 0 => head'[t] # 0)
    BY <1>34, RequestReviewEffect, <1>2, <1>6 DEF Stopped, Moved, Rows, Notes, Drifted, git, books
  <2>2. QED
    BY <1>7, <2>1
<1>35. CASE ConfirmReview
  <2>1. journal'[t]["merge"] = journal[t]["merge"] /\ UNCHANGED <<options, base>> /\ (head[t] # 0 => head'[t] # 0)
    BY <1>35, ConfirmReviewEffect, <1>2, <1>6 DEF Stopped, Moved, Rows, Notes, Drifted, git, books
  <2>2. QED
    BY <1>7, <2>1
<1>36. CASE PrepareMerge
  <2>1. CASE t # node \/ Stopped(Notes)
    <3>1. journal'[t]["merge"] = journal[t]["merge"] /\ UNCHANGED <<options, base, head>>
      BY <1>36, PrepareMergeEffect, <1>2, <1>6, <2>1 DEF Stopped, Moved, Rows, Notes, git
    <3>2. QED
      BY <1>7, <3>1
  <2>2. CASE t = node /\ ~ Stopped(Notes)
    <3>1. options.completion = "merge" /\ head[node] # 0
      BY <1>36, PrepareMergeEffect, <1>1 DEF Closings, Receipts, Merging
    <3>2. UNCHANGED <<options, base, head>>
      BY <1>36, PrepareMergeEffect DEF git
    <3>3. CASE journal'[node]["merge"].status = "in_progress" /\ journal'[node]["merge"].intent = <<head[node], Len(base)>>
      BY <1>5, <1>6, <2>2, <3>1, <3>2, <3>3 DEF MergeKnown, Status, Source, Frozen, MergeOp, Standing
    <3>4. CASE /\ journal'[node]["merge"].status = Status(node, "merge")
               /\ journal'[node]["merge"].intent = journal[node]["merge"].intent
      BY <1>3, <2>2, <3>2, <3>4 DEF MergeKnown, Status, Source, Frozen, MergeOp, Standing
    <3>5. QED
      BY <1>36, PrepareMergeEffect, <2>2, <3>3, <3>4
  <2>3. QED
    BY <2>1, <2>2
<1>37. CASE ReconcileMerge \/ InspectIndex \/ CheckMerged
  <2>1. journal'[t]["merge"] = journal[t]["merge"] /\ UNCHANGED <<options, base>> /\ (head[t] # 0 => head'[t] # 0)
    BY <1>37, SurveyEffect, <1>2, <1>6 DEF Stopped, Moved, Rows, Notes, Drifted, git, books
  <2>2. QED
    BY <1>7, <2>1
<1>38. CASE CheckSource
  <2>1. CASE journal'[t]["merge"] = journal[t]["merge"]
    <3>1. UNCHANGED <<options, base>> /\ head' = head
      BY <1>38, CheckSourceEffect DEF git
    <3>2. QED
      BY <1>7, <2>1, <3>1
  <2>2. CASE journal'[t]["merge"] # journal[t]["merge"]
    <3>1. Status(t, "merge")' = "none"
      BY <1>38, CheckSourceEffect, <1>2, <1>6, <2>2 DEF Stopped, Moved, Rows, Notes, Drifted, Status
    <3>2. QED
      BY <1>8, <3>1
  <2>3. QED
    BY <2>1, <2>2
<1>39. CASE SquashMerge
  <2>1. journal'[t]["merge"] = journal[t]["merge"] /\ UNCHANGED <<options, base>> /\ (head[t] # 0 => head'[t] # 0)
    BY <1>39, SquashMergeEffect, <1>2, <1>6 DEF Stopped, Moved, Rows, Notes, Drifted, git, books
  <2>2. QED
    BY <1>7, <2>1
<1>40. CASE CommitMerge
  <2>1. CASE UNCHANGED base
    <3>1. journal'[t]["merge"] = journal[t]["merge"] /\ UNCHANGED <<options, head>>
      BY <1>40, CommitMergeEffect, <1>2, <1>6 DEF Stopped, Moved, Rows, Notes
    <3>2. QED
      BY <1>7, <2>1, <3>1
  <2>2. CASE base' = Append(base, staged)
    <3>1. journal'[t]["merge"] = journal[t]["merge"] /\ UNCHANGED <<options, head>>
      BY <1>40, CommitMergeEffect, <1>2, <1>6 DEF Stopped, Moved, Rows, Notes
    <3>2. Longer
      BY <2>2, <1>1, Appending, Zenon
    <3>3. QED
      BY <1>3, <1>5, <3>1, <3>2 DEF Longer, MergeKnown, Status, Source, Frozen, MergeOp, Standing
  <2>3. QED
    BY <1>40, CommitMergeEffect, <2>1, <2>2
<1>41. CASE ConfirmMerge
  <2>1. CASE t # node \/ Stopped(Notes)
    <3>1. journal'[t]["merge"] = journal[t]["merge"] /\ UNCHANGED <<options, base, head>>
      BY <1>41, ConfirmMergeEffect, <1>2, <1>6, <2>1 DEF Stopped, Moved, Rows, Notes, git
    <3>2. QED
      BY <1>7, <3>1
  <2>2. CASE t = node /\ ~ Stopped(Notes)
    <3>1. Status(node, "merge") \in Standing
      BY <1>41, ConfirmMergeEffect, <1>1 DEF Closings, Standings
    <3>2. UNCHANGED <<options, base, head>>
      BY <1>41, ConfirmMergeEffect DEF git
    <3>3. /\ journal'[node]["merge"].status = "confirmed" /\ journal'[node]["merge"].intent = journal[node]["merge"].intent
          /\ Len(base) # Frozen(node) /\ base[Frozen(node) + 1] = <<node, Source(node)>>
      BY <1>41, ConfirmMergeEffect, <2>2
    <3>4. QED
      BY <1>3, <1>5, <2>2, <3>1, <3>2, <3>3 DEF MergeKnown, Status, Source, Frozen, MergeOp, Standing
  <2>3. QED
    BY <2>1, <2>2
<1>42. CASE RemoveMerged
  <2>1. journal'[t]["merge"] = journal[t]["merge"] /\ UNCHANGED <<options, base>> /\ (head[t] # 0 => head'[t] # 0)
    BY <1>42, RemoveMergedEffect, <1>2, <1>6 DEF Stopped, Moved, Rows, Notes, Drifted, git, books
  <2>2. QED
    BY <1>7, <2>1
<1>43. CASE DeleteBranch
  <2>1. journal'[t]["merge"] = journal[t]["merge"] /\ UNCHANGED <<options, base>> /\ (head[t] # 0 => head'[t] # 0)
    BY <1>43, DeleteBranchEffect, <1>2, <1>6 DEF Stopped, Moved, Rows, Notes, Drifted, git, books
  <2>2. QED
    BY <1>7, <2>1
<1>44. CASE PlanCompletion
  <2>1. journal'[t]["merge"] = journal[t]["merge"] /\ UNCHANGED <<options, base>> /\ (head[t] # 0 => head'[t] # 0)
    BY <1>44, PlanCompletionEffect, <1>2, <1>6 DEF Stopped, Moved, Rows, Notes, Drifted, git, books
  <2>2. QED
    BY <1>7, <2>1
<1>45. CASE CompleteTicket
  <2>1. journal'[t]["merge"] = journal[t]["merge"] /\ UNCHANGED <<options, base>> /\ (head[t] # 0 => head'[t] # 0)
    BY <1>45, CompleteTicketEffect, <1>2, <1>6 DEF Stopped, Moved, Rows, Notes, Drifted, git, books
  <2>2. QED
    BY <1>7, <2>1
<1>46. CASE ConfirmCompletion
  <2>1. journal'[t]["merge"] = journal[t]["merge"] /\ UNCHANGED <<options, base>> /\ (head[t] # 0 => head'[t] # 0)
    BY <1>46, ConfirmCompletionEffect, <1>2, <1>6 DEF Stopped, Moved, Rows, Notes, Drifted, git, books
  <2>2. QED
    BY <1>7, <2>1
<1>47. CASE CompleteQa
  <2>1. journal'[t]["merge"] = journal[t]["merge"] /\ UNCHANGED <<options, base>> /\ (head[t] # 0 => head'[t] # 0)
    BY <1>47, CompleteQaEffect, <1>2, <1>6 DEF Stopped, Moved, Rows, Notes, Drifted, git, books
  <2>2. QED
    BY <1>7, <2>1
<1>48. CASE CloseSession
  <2>1. journal'[t]["merge"] = journal[t]["merge"] /\ UNCHANGED <<options, base>> /\ (head[t] # 0 => head'[t] # 0)
    BY <1>48, CloseSessionEffect, <1>2, <1>6 DEF Stopped, Moved, Rows, Notes, Drifted, git, books
  <2>2. QED
    BY <1>7, <2>1
<1>49. CASE RemoveWorktree
  <2>1. journal'[t]["merge"] = journal[t]["merge"] /\ UNCHANGED <<options, base>> /\ (head[t] # 0 => head'[t] # 0)
    BY <1>49, RemoveWorktreeEffect, <1>2, <1>6 DEF Stopped, Moved, Rows, Notes, Drifted, git, books
  <2>2. QED
    BY <1>7, <2>1
<1>50. QED
  BY <1>9, <1>10, <1>11, <1>12, <1>13, <1>14, <1>15, <1>16, <1>17, <1>18, <1>19, <1>20, <1>21, <1>22,
     <1>23, <1>24, <1>25, <1>26, <1>27, <1>28, <1>29, <1>30, <1>31, <1>32, <1>33, <1>34, <1>35, <1>36,
     <1>37, <1>38, <1>39, <1>40, <1>41, <1>42, <1>43, <1>44, <1>45, <1>46, <1>47, <1>48, <1>49, Zenon
     DEF Next, Loop, Build, Finalize, Deliver, Complete, Human

(* What is on the base is what the journal says of it.                          *)
LEMMA IntendedNext ==
  ASSUME IInv, [Next]_vars
  PROVE  \A i \in DOMAIN base' : Intended(i)'
<1> SUFFICES ASSUME NEW i \in DOMAIN base'
             PROVE  Intended(i)'
  OBVIOUS
<1>1. TypeOK /\ Merges /\ Closings
  BY DEF IInv
<1>2. journal \in Journal /\ (at \notin Idle => node \in Ticket)
  BY <1>1 DEF TypeOK
<1>3. "merge" \in Kind
  BY DEF Kind
<1>4. Len(base) \in Nat /\ DOMAIN base = 1 .. Len(base)
  BY <1>1, Lengths
<1> DEFINE Steady == \A t \in Ticket : Status(t, "merge") \in Standing /\ ~ Unmerged(t)
              => /\ journal'[t]["merge"].status \in Standing
                 /\ journal'[t]["merge"].intent = journal[t]["merge"].intent
<1>5. ASSUME NEW t \in Ticket PROVE MergeKnown(t)
  BY <1>1 DEF Merges
<1>6. ASSUME i \in DOMAIN base, base'[i] = base[i], Steady,
             \A j \in DOMAIN base' : base'[j][1] = base[i][1] /\ base[i][1] \in Ticket => j = i
      PROVE  Intended(i)'
  <2>1. Intended(i)
    BY <1>1, <1>6 DEF Merges
  <2>2. CASE base[i][1] = None
    BY <1>6, <2>2 DEF Intended
  <2>3. CASE base[i][1] # None
    <3>1. PICK t : t = base[i][1]
      OBVIOUS
    <3>2. t \in Ticket /\ Status(t, "merge") \in Standing /\ Frozen(t) < i /\ base[i][2] = Source(t)
      BY <2>1, <2>3, <3>1 DEF Intended
    <3>3. ~ Unmerged(t)
      BY <1>6, <3>1 DEF Unmerged
    <3>4. journal'[t]["merge"].status \in Standing /\ journal'[t]["merge"].intent = journal[t]["merge"].intent
      BY <1>6, <3>2, <3>3
    <3>5. base'[i][1] = t /\ \A j \in DOMAIN base' : base'[j][1] = t => j = i
      BY <1>6, <3>1, <3>2
    <3>6. QED
      BY <1>6, <3>2, <3>4, <3>5 DEF Intended, Status, Source, Frozen, MergeOp
  <2>4. QED
    BY <2>2, <2>3
<1>7. ASSUME UNCHANGED base, Steady
      PROVE  Intended(i)'
  <2>1. base[i][1] \in Ticket => base[i][1] # None
    BY TicketAssumption
  <2>2. \A j \in DOMAIN base : base[j][1] = base[i][1] /\ base[i][1] \in Ticket => j = i
    BY <1>1, <1>7, <2>1 DEF Merges, Intended
  <2>3. QED
    BY <1>6, <1>7, <2>2
<1>8. ASSUME UNCHANGED base, \A t \in Ticket : journal'[t]["merge"] = journal[t]["merge"]
      PROVE  Intended(i)'
  BY <1>7, <1>8 DEF Status
<1>9. ASSUME NEW e, Longer, DOMAIN base' = 1 .. Len(base) + 1, base'[Len(base) + 1] = e,
             \A t \in Ticket : journal'[t]["merge"] = journal[t]["merge"],
             e = <<None, 0>> \/ (staged # <<>> /\ e = staged)
      PROVE  Intended(i)'
  <2>0. None \notin Ticket
    BY TicketAssumption
  <2>1. \/ e = <<None, 0>>
        \/ \E t \in Ticket : /\ Status(t, "merge") = "in_progress" /\ e = <<t, Source(t)>> /\ Unmerged(t)
    BY <1>1, <1>9 DEF Merges, Staging
  <2>2. CASE i \in 1 .. Len(base)
    <3>1. Steady /\ base'[i] = base[i]
      BY <1>9, <2>2 DEF Longer, Status
    <3>2. ASSUME NEW j \in DOMAIN base', base'[j][1] = base[i][1], base[i][1] \in Ticket
          PROVE  j = i
      <4>1. CASE j \in 1 .. Len(base)
        BY <1>1, <1>4, <1>9, <2>0, <2>2, <3>2, <4>1 DEF Longer, Merges, Intended
      <4>2. CASE j = Len(base) + 1
        BY <1>4, <1>9, <2>0, <2>1, <2>2, <3>2, <4>2 DEF Unmerged
      <4>3. QED
        BY <1>4, <1>9, <3>2, <4>1, <4>2
    <3>3. QED
      BY <1>4, <1>6, <2>2, <3>1, <3>2
  <2>3. CASE i = Len(base) + 1 /\ e = <<None, 0>>
    BY <1>9, <2>3 DEF Intended
  <2>4. CASE i = Len(base) + 1 /\ e # <<None, 0>>
    <3>1. PICK t \in Ticket : Status(t, "merge") = "in_progress" /\ e = <<t, Source(t)>> /\ Unmerged(t)
      BY <2>1, <2>4
    <3>2. base'[i][1] = t /\ base'[i][2] = Source(t) /\ journal'[t]["merge"] = journal[t]["merge"]
      BY <1>9, <2>4, <3>1
    <3>3. Frozen(t) < i
      BY <1>4, <1>5, <2>4, <3>1 DEF MergeKnown, Standing
    <3>4. ASSUME NEW j \in DOMAIN base', base'[j][1] = t
          PROVE  j = i
      <4>1. j \notin 1 .. Len(base)
        BY <1>4, <1>9, <3>1, <3>4 DEF Longer, Unmerged
      <4>2. QED
        BY <1>4, <1>9, <2>4, <3>4, <4>1
    <3>5. QED
      BY <3>1, <3>2, <3>3, <3>4 DEF Intended, Status, Standing, Source, Frozen, MergeOp
  <2>5. QED
    BY <1>4, <1>9, <2>2, <2>3, <2>4
<1>10. CASE UNCHANGED vars
  <2>1. UNCHANGED base /\ \A t \in Ticket : journal'[t]["merge"] = journal[t]["merge"]
    BY <1>10, <1>2, <1>3 DEF Stopped, Moved, Rows, Notes, git, books, vars
  <2>2. QED
    BY <1>8, <2>1
<1>11. CASE Start \/ Resume
  <2>1. UNCHANGED base /\ \A t \in Ticket : journal'[t]["merge"] = journal[t]["merge"]
    BY <1>11, LaunchEffect, <1>2, <1>3 DEF Stopped, Moved, Rows, Notes, git, books
  <2>2. QED
    BY <1>8, <2>1
<1>12. CASE Finish \/ Crash
  <2>1. UNCHANGED base /\ \A t \in Ticket : journal'[t]["merge"] = journal[t]["merge"]
    BY <1>12, HaltEffect, <1>2, <1>3 DEF Stopped, Moved, Rows, Notes, git, books
  <2>2. QED
    BY <1>8, <2>1
<1>13. ASSUME NEW u \in Ticket, PassOver(u)
      PROVE  Intended(i)'
  <2>1. UNCHANGED base /\ \A t \in Ticket : journal'[t]["merge"] = journal[t]["merge"]
    BY <1>13, <1>2, <1>3 DEF Stopped, Moved, Rows, Notes, git, books, PassOver, Pass, Taking, bounds
  <2>2. QED
    BY <1>8, <2>1
<1>14. ASSUME NEW u \in Ticket, RecoverMerge(u)
      PROVE  Intended(i)'
  <2>1. UNCHANGED base /\ \A t \in Ticket : journal'[t]["merge"] = journal[t]["merge"]
    BY <1>14, <1>2, <1>3 DEF Stopped, Moved, Rows, Notes, git, books, RecoverMerge, Take, Taking, MergeOp,
       bounds
  <2>2. QED
    BY <1>8, <2>1
<1>15. ASSUME NEW u \in Ticket, ContinueTicket(u)
      PROVE  Intended(i)'
  <2>1. UNCHANGED base /\ \A t \in Ticket : journal'[t]["merge"] = journal[t]["merge"]
    BY <1>15, <1>2, <1>3 DEF Stopped, Moved, Rows, Notes, git, books, ContinueTicket, Take, Taking, MergeOp,
       bounds
  <2>2. QED
    BY <1>8, <2>1
<1>16. ASSUME NEW u \in Ticket, CreateWorktree(u)
      PROVE  Intended(i)'
  <2>1. UNCHANGED base /\ \A t \in Ticket : journal'[t]["merge"] = journal[t]["merge"]
    BY <1>16, <1>2, <1>3 DEF Stopped, Moved, Rows, Notes, git, books, CreateWorktree, Take, Taking, Halt,
       Forgotten, bounds
  <2>2. QED
    BY <1>8, <2>1
<1>17. ASSUME NEW u \in Ticket, HumanEdits(u)
      PROVE  Intended(i)'
  <2>1. UNCHANGED base /\ \A t \in Ticket : journal'[t]["merge"] = journal[t]["merge"]
    BY <1>17, <1>2, <1>3 DEF Stopped, Moved, Rows, Notes, git, books, HumanEdits, Touch, plan
  <2>2. QED
    BY <1>8, <2>1
<1>18. ASSUME NEW u \in Ticket, HumanCommits(u)
      PROVE  Intended(i)'
  <2>1. UNCHANGED base /\ \A t \in Ticket : journal'[t]["merge"] = journal[t]["merge"]
    BY <1>18, <1>2, <1>3 DEF Stopped, Moved, Rows, Notes, git, books, HumanCommits, Touch, Dirty, plan
  <2>2. QED
    BY <1>8, <2>1
<1>19. CASE OpenTicket
  <2>1. UNCHANGED base /\ \A t \in Ticket : journal'[t]["merge"] = journal[t]["merge"]
    BY <1>19, <1>2, <1>3 DEF Stopped, Moved, Rows, Notes, git, books, OpenTicket, Goto, plan, bounds
  <2>2. QED
    BY <1>8, <2>1
<1>20. CASE BuilderEdits
  <2>1. UNCHANGED base /\ \A t \in Ticket : journal'[t]["merge"] = journal[t]["merge"]
    BY <1>20, <1>2, <1>3 DEF Stopped, Moved, Rows, Notes, git, books, BuilderEdits, bounds, plan
  <2>2. QED
    BY <1>8, <2>1
<1>21. CASE PassQa
  <2>1. UNCHANGED base /\ \A t \in Ticket : journal'[t]["merge"] = journal[t]["merge"]
    BY <1>21, <1>2, <1>3 DEF Stopped, Moved, Rows, Notes, git, books, PassQa, Goto, plan, bounds, Digest
  <2>2. QED
    BY <1>8, <2>1
<1>22. CASE WaiveQa
  <2>1. UNCHANGED base /\ \A t \in Ticket : journal'[t]["merge"] = journal[t]["merge"]
    BY <1>22, <1>2, <1>3 DEF Stopped, Moved, Rows, Notes, git, books, WaiveQa, Goto, plan, bounds
  <2>2. QED
    BY <1>8, <2>1
<1>23. CASE HumanCommitsBase
  <2>1. PICK e : e = IF staged = <<>> THEN <<None, 0>> ELSE staged
    OBVIOUS
  <2>2. base' = Append(base, e) /\ journal' = journal
    BY <1>23, <2>1 DEF HumanCommitsBase, books
  <2>3. Longer /\ DOMAIN base' = 1 .. Len(base) + 1 /\ base'[Len(base) + 1] = e
    BY <1>1, <2>2, Appending, Zenon
  <2>4. QED
    BY <1>9, <2>1, <2>2, <2>3
<1>24. ASSUME NEW how \in {"done", "blocked", "error"}, BuilderEnds(how)
      PROVE  Intended(i)'
  <2>1. UNCHANGED base /\ \A t \in Ticket : journal'[t]["merge"] = journal[t]["merge"]
    BY <1>24, BuilderEndsEffect, <1>2, <1>3 DEF Stopped, Moved, Rows, Notes, git, books
  <2>2. QED
    BY <1>8, <2>1
<1>25. CASE BeginQa
  <2>1. UNCHANGED base /\ \A t \in Ticket : journal'[t]["merge"] = journal[t]["merge"]
    BY <1>25, BeginQaEffect, <1>2, <1>3 DEF Stopped, Moved, Rows, Notes, git, books
  <2>2. QED
    BY <1>8, <2>1
<1>26. CASE QaBlocks
  <2>1. UNCHANGED base /\ \A t \in Ticket : journal'[t]["merge"] = journal[t]["merge"]
    BY <1>26, QaBlocksEffect, <1>2, <1>3 DEF Stopped, Moved, Rows, Notes, git, books
  <2>2. QED
    BY <1>8, <2>1
<1>27. CASE BeginFinalization
  <2>1. UNCHANGED base /\ \A t \in Ticket : journal'[t]["merge"] = journal[t]["merge"]
    BY <1>27, BeginFinalizationEffect, <1>2, <1>3 DEF Stopped, Moved, Rows, Notes, git, books
  <2>2. QED
    BY <1>8, <2>1
<1>28. CASE ResumeFinalization
  <2>1. UNCHANGED base
    BY <1>28, ResumeFinalizationEffect DEF git
  <2>2. \A t \in Ticket : t # node => journal'[t]["merge"] = journal[t]["merge"]
    BY <1>28, ResumeFinalizationEffect, <1>3 DEF Stopped, Moved, Rows, Notes, Checks, Drifted
  <2>3. Status(node, "merge") \in Standing
           => journal'[node]["merge"] = journal[node]["merge"]
    BY <1>28, ResumeFinalizationEffect, <1>2, <1>3 DEF Stopped, Moved, Rows, Notes, Checks, Drifted, Status,
       Standing
  <2>4. Steady
    BY <2>2, <2>3 DEF Status
  <2>5. QED
    BY <1>7, <2>1, <2>4
<1>29. CASE PlanCommit
  <2>1. UNCHANGED base
    BY <1>29, PlanCommitEffect DEF git
  <2>2. \A t \in Ticket : t # node => journal'[t]["merge"] = journal[t]["merge"]
    BY <1>29, PlanCommitEffect, <1>3 DEF Stopped, Moved, Rows, Notes, Checks, Drifted
  <2>3. Status(node, "merge") \in Standing
           => journal'[node]["merge"] = journal[node]["merge"]
    BY <1>29, PlanCommitEffect, <1>2, <1>3 DEF Stopped, Moved, Rows, Notes, Checks, Drifted, Status, Standing
  <2>4. Steady
    BY <2>2, <2>3 DEF Status
  <2>5. QED
    BY <1>7, <2>1, <2>4
<1>30. CASE CommitAll
  <2>1. UNCHANGED base /\ \A t \in Ticket : journal'[t]["merge"] = journal[t]["merge"]
    BY <1>30, CommitAllEffect, <1>2, <1>3 DEF Stopped, Moved, Rows, Notes, git, books
  <2>2. QED
    BY <1>8, <2>1
<1>31. CASE ConfirmCommit
  <2>1. UNCHANGED base /\ \A t \in Ticket : journal'[t]["merge"] = journal[t]["merge"]
    BY <1>31, ConfirmCommitEffect, <1>2, <1>3 DEF Stopped, Moved, Rows, Notes, git, books
  <2>2. QED
    BY <1>8, <2>1
<1>32. CASE VerifyPublication
  <2>1. UNCHANGED base
    BY <1>32, VerifyPublicationEffect DEF git
  <2>2. \A t \in Ticket : t # node => journal'[t]["merge"] = journal[t]["merge"]
    BY <1>32, VerifyPublicationEffect, <1>3 DEF Stopped, Moved, Rows, Notes, Checks, Drifted
  <2>3. Status(node, "merge") \in Standing
           => journal'[node]["merge"] = journal[node]["merge"]
    BY <1>32, VerifyPublicationEffect, <1>2, <1>3 DEF Stopped, Moved, Rows, Notes, Checks, Drifted, Status,
       Standing
  <2>4. Steady
    BY <2>2, <2>3 DEF Status
  <2>5. QED
    BY <1>7, <2>1, <2>4
<1>33. CASE Push
  <2>1. UNCHANGED base /\ \A t \in Ticket : journal'[t]["merge"] = journal[t]["merge"]
    BY <1>33, PushEffect, <1>2, <1>3 DEF Stopped, Moved, Rows, Notes, git, books
  <2>2. QED
    BY <1>8, <2>1
<1>34. CASE ConfirmPush
  <2>1. UNCHANGED base /\ \A t \in Ticket : journal'[t]["merge"] = journal[t]["merge"]
    BY <1>34, ConfirmPushEffect, <1>2, <1>3 DEF Stopped, Moved, Rows, Notes, git, books
  <2>2. QED
    BY <1>8, <2>1
<1>35. CASE RequestReview
  <2>1. UNCHANGED base /\ \A t \in Ticket : journal'[t]["merge"] = journal[t]["merge"]
    BY <1>35, RequestReviewEffect, <1>2, <1>3 DEF Stopped, Moved, Rows, Notes, git, books
  <2>2. QED
    BY <1>8, <2>1
<1>36. CASE ConfirmReview
  <2>1. UNCHANGED base /\ \A t \in Ticket : journal'[t]["merge"] = journal[t]["merge"]
    BY <1>36, ConfirmReviewEffect, <1>2, <1>3 DEF Stopped, Moved, Rows, Notes, git, books
  <2>2. QED
    BY <1>8, <2>1
<1>37. CASE PrepareMerge
  <2>1. UNCHANGED base
    BY <1>37, PrepareMergeEffect DEF git
  <2>2. \A t \in Ticket : t # node => journal'[t]["merge"] = journal[t]["merge"]
    BY <1>37, PrepareMergeEffect, <1>3 DEF Stopped, Moved, Rows, Notes, Checks, Drifted
  <2>3. Status(node, "merge") \in Standing
           => /\ journal'[node]["merge"].status \in Standing
              /\ journal'[node]["merge"].intent = journal[node]["merge"].intent
    BY <1>37, PrepareMergeEffect, <1>2, <1>3 DEF Stopped, Moved, Rows, Notes, Status, Standing
  <2>4. Steady
    BY <2>2, <2>3 DEF Status
  <2>5. QED
    BY <1>7, <2>1, <2>4
<1>38. CASE ReconcileMerge \/ InspectIndex \/ CheckMerged
  <2>1. UNCHANGED base /\ \A t \in Ticket : journal'[t]["merge"] = journal[t]["merge"]
    BY <1>38, SurveyEffect, <1>2, <1>3 DEF Stopped, Moved, Rows, Notes, git, books
  <2>2. QED
    BY <1>8, <2>1
<1>39. CASE CheckSource
  <2>1. UNCHANGED base
    BY <1>39, CheckSourceEffect DEF git
  <2>2. \A t \in Ticket : t # node => journal'[t]["merge"] = journal[t]["merge"]
    BY <1>39, CheckSourceEffect, <1>3 DEF Stopped, Moved, Rows, Notes, Checks, Drifted
  <2>3. ASSUME ~ Unmerged(node) PROVE journal'[node]["merge"] = journal[node]["merge"]
    <3>1. node \in Ticket /\ node # None
      BY <1>39, CheckSourceEffect, TicketAssumption
    <3>2. PICK m \in DOMAIN base : base[m][1] = node
      BY <2>3 DEF Unmerged
    <3>3. Frozen(node) < m /\ Status(node, "merge") \in Standing
      BY <1>1, <3>1, <3>2 DEF Merges, Intended
    <3>4. Len(base) # Frozen(node)
      BY <1>4, <1>5, <3>1, <3>2, <3>3 DEF MergeKnown
    <3>5. QED
      BY <1>39, CheckSourceEffect, <1>2, <1>3, <3>4 DEF Stopped, Moved, Rows, Notes
  <2>4. Steady
    BY <2>2, <2>3 DEF Status
  <2>5. QED
    BY <1>7, <2>1, <2>4
<1>40. CASE SquashMerge
  <2>1. UNCHANGED base /\ \A t \in Ticket : journal'[t]["merge"] = journal[t]["merge"]
    BY <1>40, SquashMergeEffect, <1>2, <1>3 DEF Stopped, Moved, Rows, Notes, git, books
  <2>2. QED
    BY <1>8, <2>1
<1>41. CASE CommitMerge
  <2>1. \A t \in Ticket : journal'[t]["merge"] = journal[t]["merge"]
    BY <1>41, CommitMergeEffect, <1>3 DEF Stopped, Moved, Rows, Notes
  <2>2. CASE UNCHANGED base
    BY <1>8, <2>1, <2>2
  <2>3. CASE staged # <<>> /\ base' = Append(base, staged)
    <3>1. Longer /\ DOMAIN base' = 1 .. Len(base) + 1 /\ base'[Len(base) + 1] = staged
      BY <1>1, <2>3, Appending, Zenon
    <3>2. QED
      BY <1>9, <2>1, <2>3, <3>1
  <2>4. QED
    BY <1>41, CommitMergeEffect, <2>2, <2>3
<1>42. CASE ConfirmMerge
  <2>1. UNCHANGED base
    BY <1>42, ConfirmMergeEffect DEF git
  <2>2. \A t \in Ticket : t # node => journal'[t]["merge"] = journal[t]["merge"]
    BY <1>42, ConfirmMergeEffect, <1>3 DEF Stopped, Moved, Rows, Notes, Checks, Drifted
  <2>3. Status(node, "merge") \in Standing
           => /\ journal'[node]["merge"].status \in Standing
              /\ journal'[node]["merge"].intent = journal[node]["merge"].intent
    BY <1>42, ConfirmMergeEffect, <1>2, <1>3 DEF Stopped, Moved, Rows, Notes, Status, Standing
  <2>4. Steady
    BY <2>2, <2>3 DEF Status
  <2>5. QED
    BY <1>7, <2>1, <2>4
<1>43. CASE RemoveMerged
  <2>1. UNCHANGED base /\ \A t \in Ticket : journal'[t]["merge"] = journal[t]["merge"]
    BY <1>43, RemoveMergedEffect, <1>2, <1>3 DEF Stopped, Moved, Rows, Notes, git, books
  <2>2. QED
    BY <1>8, <2>1
<1>44. CASE DeleteBranch
  <2>1. UNCHANGED base /\ \A t \in Ticket : journal'[t]["merge"] = journal[t]["merge"]
    BY <1>44, DeleteBranchEffect, <1>2, <1>3 DEF Stopped, Moved, Rows, Notes, git, books
  <2>2. QED
    BY <1>8, <2>1
<1>45. CASE PlanCompletion
  <2>1. UNCHANGED base /\ \A t \in Ticket : journal'[t]["merge"] = journal[t]["merge"]
    BY <1>45, PlanCompletionEffect, <1>2, <1>3 DEF Stopped, Moved, Rows, Notes, git, books
  <2>2. QED
    BY <1>8, <2>1
<1>46. CASE CompleteTicket
  <2>1. UNCHANGED base /\ \A t \in Ticket : journal'[t]["merge"] = journal[t]["merge"]
    BY <1>46, CompleteTicketEffect, <1>2, <1>3 DEF Stopped, Moved, Rows, Notes, git, books
  <2>2. QED
    BY <1>8, <2>1
<1>47. CASE ConfirmCompletion
  <2>1. UNCHANGED base /\ \A t \in Ticket : journal'[t]["merge"] = journal[t]["merge"]
    BY <1>47, ConfirmCompletionEffect, <1>2, <1>3 DEF Stopped, Moved, Rows, Notes, git, books
  <2>2. QED
    BY <1>8, <2>1
<1>48. CASE CompleteQa
  <2>1. UNCHANGED base /\ \A t \in Ticket : journal'[t]["merge"] = journal[t]["merge"]
    BY <1>48, CompleteQaEffect, <1>2, <1>3 DEF Stopped, Moved, Rows, Notes, git, books
  <2>2. QED
    BY <1>8, <2>1
<1>49. CASE CloseSession
  <2>1. UNCHANGED base /\ \A t \in Ticket : journal'[t]["merge"] = journal[t]["merge"]
    BY <1>49, CloseSessionEffect, <1>2, <1>3 DEF Stopped, Moved, Rows, Notes, git, books
  <2>2. QED
    BY <1>8, <2>1
<1>50. CASE RemoveWorktree
  <2>1. UNCHANGED base /\ \A t \in Ticket : journal'[t]["merge"] = journal[t]["merge"]
    BY <1>50, RemoveWorktreeEffect, <1>2, <1>3 DEF Stopped, Moved, Rows, Notes, git, books
  <2>2. QED
    BY <1>8, <2>1
<1>51. QED
  BY <1>10, <1>11, <1>12, <1>13, <1>14, <1>15, <1>16, <1>17, <1>18, <1>19, <1>20, <1>21, <1>22, <1>23,
     <1>24, <1>25, <1>26, <1>27, <1>28, <1>29, <1>30, <1>31, <1>32, <1>33, <1>34, <1>35, <1>36, <1>37,
     <1>38, <1>39, <1>40, <1>41, <1>42, <1>43, <1>44, <1>45, <1>46, <1>47, <1>48, <1>49, <1>50, Zenon
     DEF Next, Loop, Build, Finalize, Deliver, Complete, Human

(* What is staged is a merge that is under way.                                 *)
LEMMA StagingNext ==
  ASSUME IInv, [Next]_vars
  PROVE  Staging'
<1>1. TypeOK /\ Merges /\ Closings
  BY DEF IInv
<1>2. journal \in Journal /\ (at \notin Idle => node \in Ticket)
  BY <1>1 DEF TypeOK
<1>3. "merge" \in Kind
  BY DEF Kind
<1>4. Staging
  BY <1>1 DEF Merges
<1>5. ASSUME NEW t \in Ticket PROVE MergeKnown(t)
  BY <1>1 DEF Merges
<1>6. ASSUME UNCHANGED <<base, staged>>, at' = "squashing" => UNCHANGED <<at, node>>,
             \A t \in Ticket : Status(t, "merge") = "in_progress" /\ staged = <<t, Source(t)>> /\ Unmerged(t)
                  => /\ journal'[t]["merge"].status = "in_progress"
                     /\ journal'[t]["merge"].intent = journal[t]["merge"].intent
      PROVE  Staging'
  <2>1. at' = "squashing" => staged' = <<>> /\ Unmerged(node)'
    BY <1>4, <1>6 DEF Staging, Unmerged
  <2>2. CASE staged \in {<<>>, <<None, 0>>}
    BY <1>6, <2>1, <2>2 DEF Staging
  <2>3. CASE \E t \in Ticket : Status(t, "merge") = "in_progress" /\ staged = <<t, Source(t)>> /\ Unmerged(t)
    <3>1. PICK t \in Ticket : Status(t, "merge") = "in_progress" /\ staged = <<t, Source(t)>> /\ Unmerged(t)
      BY <2>3
    <3>2. journal'[t]["merge"].status = "in_progress" /\ journal'[t]["merge"].intent = journal[t]["merge"].intent
      BY <1>6, <3>1
    <3>3. Unmerged(t)'
      BY <1>6, <3>1 DEF Unmerged
    <3>4. Status(t, "merge")' = "in_progress" /\ staged' = <<t, Source(t)'>>
      BY <1>6, <3>1, <3>2 DEF Status, Source, MergeOp
    <3>5. QED
      BY <2>1, <3>3, <3>4 DEF Staging
  <2>4. QED
    BY <1>4, <2>2, <2>3 DEF Staging
<1>7. ASSUME UNCHANGED <<base, staged>>, at' = "squashing" => UNCHANGED <<at, node>>,
             \A t \in Ticket : journal'[t]["merge"] = journal[t]["merge"]
      PROVE  Staging'
  BY <1>6, <1>7 DEF Status
<1>8. ASSUME staged' \in {<<>>, <<None, 0>>}, at' # "squashing"
      PROVE  Staging'
  BY <1>8 DEF Staging
<1>9. ASSUME node \in Ticket, Status(node, "merge") \in Standing, Len(base) = Frozen(node)
      PROVE  Unmerged(node)
  BY <1>1, <1>5, <1>9, Lengths, TicketAssumption DEF Merges, Intended, Unmerged, MergeKnown
<1>10. CASE UNCHANGED vars
  <2>1. UNCHANGED <<base, staged>> /\ (at' = "squashing" => UNCHANGED <<at, node>>)
        /\ \A t \in Ticket : journal'[t]["merge"] = journal[t]["merge"]
    BY <1>10, <1>2, <1>3 DEF Stopped, Moved, Left, Idle, Rows, Notes, git, books, vars, plan
  <2>2. QED
    BY <1>7, <2>1
<1>11. CASE Start \/ Resume
  <2>1. UNCHANGED <<base, staged>> /\ (at' = "squashing" => UNCHANGED <<at, node>>)
        /\ \A t \in Ticket : journal'[t]["merge"] = journal[t]["merge"]
    BY <1>11, LaunchEffect, <1>2, <1>3 DEF Stopped, Moved, Left, Idle, Rows, Notes, git, books
  <2>2. QED
    BY <1>7, <2>1
<1>12. CASE Finish \/ Crash
  <2>1. UNCHANGED <<base, staged>> /\ (at' = "squashing" => UNCHANGED <<at, node>>)
        /\ \A t \in Ticket : journal'[t]["merge"] = journal[t]["merge"]
    BY <1>12, HaltEffect, <1>2, <1>3 DEF Stopped, Moved, Left, Idle, Rows, Notes, git, books
  <2>2. QED
    BY <1>7, <2>1
<1>13. ASSUME NEW u \in Ticket, PassOver(u)
      PROVE  Staging'
  <2>1. UNCHANGED <<base, staged>> /\ (at' = "squashing" => UNCHANGED <<at, node>>)
        /\ \A t \in Ticket : journal'[t]["merge"] = journal[t]["merge"]
    BY <1>13, <1>2, <1>3 DEF Stopped, Moved, Left, Idle, Rows, Notes, git, books, PassOver, Pass, Taking, bounds
  <2>2. QED
    BY <1>7, <2>1
<1>14. ASSUME NEW u \in Ticket, RecoverMerge(u)
      PROVE  Staging'
  <2>1. UNCHANGED <<base, staged>> /\ (at' = "squashing" => UNCHANGED <<at, node>>)
        /\ \A t \in Ticket : journal'[t]["merge"] = journal[t]["merge"]
    BY <1>14, <1>2, <1>3 DEF Stopped, Moved, Left, Idle, Rows, Notes, git, books, RecoverMerge, Take, Taking, MergeOp,
       bounds
  <2>2. QED
    BY <1>7, <2>1
<1>15. ASSUME NEW u \in Ticket, ContinueTicket(u)
      PROVE  Staging'
  <2>1. UNCHANGED <<base, staged>> /\ (at' = "squashing" => UNCHANGED <<at, node>>)
        /\ \A t \in Ticket : journal'[t]["merge"] = journal[t]["merge"]
    BY <1>15, <1>2, <1>3 DEF Stopped, Moved, Left, Idle, Rows, Notes, git, books, ContinueTicket, Take, Taking, MergeOp,
       bounds
  <2>2. QED
    BY <1>7, <2>1
<1>16. ASSUME NEW u \in Ticket, CreateWorktree(u)
      PROVE  Staging'
  <2>1. UNCHANGED <<base, staged>> /\ (at' = "squashing" => UNCHANGED <<at, node>>)
        /\ \A t \in Ticket : journal'[t]["merge"] = journal[t]["merge"]
    BY <1>16, <1>2, <1>3 DEF Stopped, Moved, Left, Idle, Rows, Notes, git, books, CreateWorktree, Take, Taking, Halt,
       Forgotten, bounds
  <2>2. QED
    BY <1>7, <2>1
<1>17. ASSUME NEW u \in Ticket, HumanEdits(u)
      PROVE  Staging'
  <2>1. UNCHANGED <<base, staged>> /\ (at' = "squashing" => UNCHANGED <<at, node>>)
        /\ \A t \in Ticket : journal'[t]["merge"] = journal[t]["merge"]
    BY <1>17, <1>2, <1>3 DEF Stopped, Moved, Left, Idle, Rows, Notes, git, books, HumanEdits, Touch, plan
  <2>2. QED
    BY <1>7, <2>1
<1>18. ASSUME NEW u \in Ticket, HumanCommits(u)
      PROVE  Staging'
  <2>1. UNCHANGED <<base, staged>> /\ (at' = "squashing" => UNCHANGED <<at, node>>)
        /\ \A t \in Ticket : journal'[t]["merge"] = journal[t]["merge"]
    BY <1>18, <1>2, <1>3 DEF Stopped, Moved, Left, Idle, Rows, Notes, git, books, HumanCommits, Touch, Dirty, plan
  <2>2. QED
    BY <1>7, <2>1
<1>19. CASE OpenTicket
  <2>1. UNCHANGED <<base, staged>> /\ (at' = "squashing" => UNCHANGED <<at, node>>)
        /\ \A t \in Ticket : journal'[t]["merge"] = journal[t]["merge"]
    BY <1>19, <1>2, <1>3 DEF Stopped, Moved, Left, Idle, Rows, Notes, git, books, OpenTicket, Goto, plan, bounds
  <2>2. QED
    BY <1>7, <2>1
<1>20. CASE BuilderEdits
  <2>1. UNCHANGED <<base, staged>> /\ (at' = "squashing" => UNCHANGED <<at, node>>)
        /\ \A t \in Ticket : journal'[t]["merge"] = journal[t]["merge"]
    BY <1>20, <1>2, <1>3 DEF Stopped, Moved, Left, Idle, Rows, Notes, git, books, BuilderEdits, bounds, plan
  <2>2. QED
    BY <1>7, <2>1
<1>21. CASE PassQa
  <2>1. UNCHANGED <<base, staged>> /\ (at' = "squashing" => UNCHANGED <<at, node>>)
        /\ \A t \in Ticket : journal'[t]["merge"] = journal[t]["merge"]
    BY <1>21, <1>2, <1>3 DEF Stopped, Moved, Left, Idle, Rows, Notes, git, books, PassQa, Goto, plan, bounds, Digest
  <2>2. QED
    BY <1>7, <2>1
<1>22. CASE WaiveQa
  <2>1. UNCHANGED <<base, staged>> /\ (at' = "squashing" => UNCHANGED <<at, node>>)
        /\ \A t \in Ticket : journal'[t]["merge"] = journal[t]["merge"]
    BY <1>22, <1>2, <1>3 DEF Stopped, Moved, Left, Idle, Rows, Notes, git, books, WaiveQa, Goto, plan, bounds
  <2>2. QED
    BY <1>7, <2>1
<1>23. CASE HumanCommitsBase
  <2>1. staged' = <<>> /\ UNCHANGED <<at, node>>
    BY <1>23 DEF HumanCommitsBase, plan
  <2>2. ASSUME at = "squashing" PROVE Unmerged(node)'
    <3>1. staged = <<>> /\ Unmerged(node) /\ node \in Ticket
      BY <1>2, <1>4, <2>2 DEF Staging, Idle
    <3>2. base' = Append(base, <<None, 0>>)
      BY <1>23, <3>1 DEF HumanCommitsBase
    <3>3. Longer /\ DOMAIN base' = 1 .. Len(base) + 1 /\ base'[Len(base) + 1] = <<None, 0>>
      BY <1>1, <3>2, Appending, Zenon
    <3>4. Len(base) \in Nat /\ DOMAIN base = 1 .. Len(base) /\ None \notin Ticket
      BY <1>1, Lengths, TicketAssumption
    <3>5. QED
      BY <2>1, <3>1, <3>3, <3>4 DEF Longer, Unmerged
  <2>3. QED
    BY <2>1, <2>2 DEF Staging
<1>24. ASSUME NEW how \in {"done", "blocked", "error"}, BuilderEnds(how)
      PROVE  Staging'
  <2>1. UNCHANGED <<base, staged>> /\ (at' = "squashing" => UNCHANGED <<at, node>>)
        /\ \A t \in Ticket : journal'[t]["merge"] = journal[t]["merge"]
    BY <1>24, BuilderEndsEffect, <1>2, <1>3 DEF Stopped, Moved, Left, Idle, Rows, Notes, git, books
  <2>2. QED
    BY <1>7, <2>1
<1>25. CASE BeginQa
  <2>1. UNCHANGED <<base, staged>> /\ (at' = "squashing" => UNCHANGED <<at, node>>)
        /\ \A t \in Ticket : journal'[t]["merge"] = journal[t]["merge"]
    BY <1>25, BeginQaEffect, <1>2, <1>3 DEF Stopped, Moved, Left, Idle, Rows, Notes, git, books
  <2>2. QED
    BY <1>7, <2>1
<1>26. CASE QaBlocks
  <2>1. UNCHANGED <<base, staged>> /\ (at' = "squashing" => UNCHANGED <<at, node>>)
        /\ \A t \in Ticket : journal'[t]["merge"] = journal[t]["merge"]
    BY <1>26, QaBlocksEffect, <1>2, <1>3 DEF Stopped, Moved, Left, Idle, Rows, Notes, git, books
  <2>2. QED
    BY <1>7, <2>1
<1>27. CASE BeginFinalization
  <2>1. UNCHANGED <<base, staged>> /\ (at' = "squashing" => UNCHANGED <<at, node>>)
        /\ \A t \in Ticket : journal'[t]["merge"] = journal[t]["merge"]
    BY <1>27, BeginFinalizationEffect, <1>2, <1>3 DEF Stopped, Moved, Left, Idle, Rows, Notes, git, books
  <2>2. QED
    BY <1>7, <2>1
<1>28. CASE ResumeFinalization
  <2>1. UNCHANGED <<base, staged>>
    BY <1>28, ResumeFinalizationEffect DEF git
  <2>2. \A t \in Ticket : t # node => journal'[t]["merge"] = journal[t]["merge"]
    BY <1>28, ResumeFinalizationEffect, <1>3 DEF Stopped, Moved, Left, Idle, Rows, Notes, Checks, Drifted
  <2>3. Status(node, "merge") = "in_progress" /\ Unmerged(node)
           => /\ journal'[node]["merge"].status = "in_progress"
              /\ journal'[node]["merge"].intent = journal[node]["merge"].intent
    BY <1>28, ResumeFinalizationEffect, <1>2, <1>3 DEF Stopped, Moved, Left, Idle, Rows, Notes, Checks, Drifted, Status,
       Standing
  <2>4. at' # "squashing"
    BY <1>28, ResumeFinalizationEffect DEF Stopped, Moved, Left, Idle, Drifted
  <2>5. QED
    BY <1>6, <2>1, <2>2, <2>3, <2>4 DEF Status
<1>29. CASE PlanCommit
  <2>1. UNCHANGED <<base, staged>>
    BY <1>29, PlanCommitEffect DEF git
  <2>2. \A t \in Ticket : t # node => journal'[t]["merge"] = journal[t]["merge"]
    BY <1>29, PlanCommitEffect, <1>3 DEF Stopped, Moved, Left, Idle, Rows, Notes, Checks, Drifted
  <2>3. Status(node, "merge") = "in_progress" /\ Unmerged(node)
           => /\ journal'[node]["merge"].status = "in_progress"
              /\ journal'[node]["merge"].intent = journal[node]["merge"].intent
    BY <1>29, PlanCommitEffect, <1>2, <1>3 DEF Stopped, Moved, Left, Idle, Rows, Notes, Checks, Drifted, Status, Standing
  <2>4. at' # "squashing"
    BY <1>29, PlanCommitEffect DEF Stopped, Moved, Left, Idle, Drifted
  <2>5. QED
    BY <1>6, <2>1, <2>2, <2>3, <2>4 DEF Status
<1>30. CASE CommitAll
  <2>1. UNCHANGED <<base, staged>> /\ (at' = "squashing" => UNCHANGED <<at, node>>)
        /\ \A t \in Ticket : journal'[t]["merge"] = journal[t]["merge"]
    BY <1>30, CommitAllEffect, <1>2, <1>3 DEF Stopped, Moved, Left, Idle, Rows, Notes, git, books
  <2>2. QED
    BY <1>7, <2>1
<1>31. CASE ConfirmCommit
  <2>1. UNCHANGED <<base, staged>> /\ (at' = "squashing" => UNCHANGED <<at, node>>)
        /\ \A t \in Ticket : journal'[t]["merge"] = journal[t]["merge"]
    BY <1>31, ConfirmCommitEffect, <1>2, <1>3 DEF Stopped, Moved, Left, Idle, Rows, Notes, git, books
  <2>2. QED
    BY <1>7, <2>1
<1>32. CASE VerifyPublication
  <2>1. UNCHANGED <<base, staged>>
    BY <1>32, VerifyPublicationEffect DEF git
  <2>2. \A t \in Ticket : t # node => journal'[t]["merge"] = journal[t]["merge"]
    BY <1>32, VerifyPublicationEffect, <1>3 DEF Stopped, Moved, Left, Idle, Rows, Notes, Checks, Drifted
  <2>3. Status(node, "merge") = "in_progress" /\ Unmerged(node)
           => /\ journal'[node]["merge"].status = "in_progress"
              /\ journal'[node]["merge"].intent = journal[node]["merge"].intent
    BY <1>32, VerifyPublicationEffect, <1>2, <1>3 DEF Stopped, Moved, Left, Idle, Rows, Notes, Checks, Drifted, Status,
       Standing
  <2>4. at' # "squashing"
    BY <1>32, VerifyPublicationEffect DEF Stopped, Moved, Left, Idle, Drifted
  <2>5. QED
    BY <1>6, <2>1, <2>2, <2>3, <2>4 DEF Status
<1>33. CASE Push
  <2>1. UNCHANGED <<base, staged>> /\ (at' = "squashing" => UNCHANGED <<at, node>>)
        /\ \A t \in Ticket : journal'[t]["merge"] = journal[t]["merge"]
    BY <1>33, PushEffect, <1>2, <1>3 DEF Stopped, Moved, Left, Idle, Rows, Notes, git, books
  <2>2. QED
    BY <1>7, <2>1
<1>34. CASE ConfirmPush
  <2>1. UNCHANGED <<base, staged>> /\ (at' = "squashing" => UNCHANGED <<at, node>>)
        /\ \A t \in Ticket : journal'[t]["merge"] = journal[t]["merge"]
    BY <1>34, ConfirmPushEffect, <1>2, <1>3 DEF Stopped, Moved, Left, Idle, Rows, Notes, git, books
  <2>2. QED
    BY <1>7, <2>1
<1>35. CASE RequestReview
  <2>1. UNCHANGED <<base, staged>> /\ (at' = "squashing" => UNCHANGED <<at, node>>)
        /\ \A t \in Ticket : journal'[t]["merge"] = journal[t]["merge"]
    BY <1>35, RequestReviewEffect, <1>2, <1>3 DEF Stopped, Moved, Left, Idle, Rows, Notes, git, books
  <2>2. QED
    BY <1>7, <2>1
<1>36. CASE ConfirmReview
  <2>1. UNCHANGED <<base, staged>> /\ (at' = "squashing" => UNCHANGED <<at, node>>)
        /\ \A t \in Ticket : journal'[t]["merge"] = journal[t]["merge"]
    BY <1>36, ConfirmReviewEffect, <1>2, <1>3 DEF Stopped, Moved, Left, Idle, Rows, Notes, git, books
  <2>2. QED
    BY <1>7, <2>1
<1>37. CASE PrepareMerge
  <2>1. UNCHANGED <<base, staged>>
    BY <1>37, PrepareMergeEffect DEF git
  <2>2. \A t \in Ticket : t # node => journal'[t]["merge"] = journal[t]["merge"]
    BY <1>37, PrepareMergeEffect, <1>3 DEF Stopped, Moved, Left, Idle, Rows, Notes, Checks, Drifted
  <2>3. Status(node, "merge") = "in_progress" /\ Unmerged(node)
           => /\ journal'[node]["merge"].status = "in_progress"
              /\ journal'[node]["merge"].intent = journal[node]["merge"].intent
    BY <1>37, PrepareMergeEffect, <1>2, <1>3 DEF Stopped, Moved, Left, Idle, Rows, Notes, Checks, Drifted, Status, Standing
  <2>4. at' # "squashing"
    BY <1>37, PrepareMergeEffect DEF Stopped, Moved, Left, Idle, Drifted
  <2>5. QED
    BY <1>6, <2>1, <2>2, <2>3, <2>4 DEF Status
<1>38. CASE ReconcileMerge \/ InspectIndex \/ CheckMerged
  <2>1. UNCHANGED <<base, staged>> /\ \A t \in Ticket : journal'[t]["merge"] = journal[t]["merge"]
    BY <1>38, SurveyEffect, <1>3 DEF Stopped, Moved, Rows, Notes, git
  <2>2. CASE at' # "squashing"
    BY <1>7, <2>1, <2>2
  <2>3. CASE Moved("squashing", {}) /\ at = "staging" /\ staged = <<>> /\ Len(base) = Frozen(node)
    <3>1. node \in Ticket /\ Status(node, "merge") \in Standing
      BY <1>38, SurveyEffect, <1>1, <2>3 DEF Closings, Standings
    <3>2. Unmerged(node) /\ node' = node
      BY <1>9, <2>3, <3>1 DEF Moved, Kept
    <3>3. QED
      BY <2>1, <2>3, <3>2 DEF Staging, Unmerged
  <2>4. QED
    BY <1>38, SurveyEffect, <2>2, <2>3 DEF Stopped, Moved, Left, Idle
<1>39. CASE CheckSource
  <2>1. UNCHANGED <<base, staged>> /\ at' # "squashing"
    BY <1>39, CheckSourceEffect DEF Stopped, Moved, Left, Idle, git
  <2>2. CASE staged = <<>>
    BY <1>8, <2>1, <2>2
  <2>3. CASE staged # <<>>
    <3>1. \A t \in Ticket : journal'[t]["merge"] = journal[t]["merge"]
      BY <1>39, CheckSourceEffect, <1>3, <2>3 DEF Stopped, Moved, Rows, Notes
    <3>2. QED
      BY <1>7, <2>1, <3>1
  <2>4. QED
    BY <2>2, <2>3
<1>40. CASE SquashMerge
  <2>1. at = "squashing" /\ node \in Ticket /\ at' # "squashing" /\ UNCHANGED base
    BY <1>40, SquashMergeEffect DEF Stopped, Moved, Left, Idle
  <2>2. staged = <<>> /\ Unmerged(node) /\ Status(node, "merge") = "in_progress"
    BY <1>1, <1>4, <2>1 DEF Staging, Closings
  <2>3. CASE staged' \in {staged, <<None, 0>>}
    BY <1>8, <2>1, <2>2, <2>3
  <2>4. CASE Moved("staged", {}) /\ staged' = <<node, Source(node)>>
    <3>1. journal'[node]["merge"] = journal[node]["merge"]
      BY <1>3, <2>1, <2>4 DEF Moved, Rows
    <3>2. Status(node, "merge")' = "in_progress" /\ node' = node
      BY <2>2, <2>4, <3>1 DEF Status, Moved, Kept
    <3>3. PICK t \in Ticket : t = node
      BY <2>1
    <3>4. staged' = <<t, Source(t)'>> /\ Unmerged(t)' /\ Status(t, "merge")' = "in_progress"
      BY <2>1, <2>2, <2>4, <3>1, <3>2, <3>3 DEF Source, MergeOp, Unmerged, Status
    <3>5. QED
      BY <2>1, <3>4 DEF Staging
  <2>5. QED
    BY <1>40, SquashMergeEffect, <2>3, <2>4
<1>41. CASE CommitMerge
  <2>1. at' # "squashing" /\ node \in Ticket
    BY <1>41, CommitMergeEffect DEF Stopped, Moved, Left, Idle
  <2>2. CASE UNCHANGED <<base, staged>> /\ Stopped(Notes)
    BY <1>3, <1>7, <2>1, <2>2 DEF Stopped, Rows, Notes
  <2>3. CASE staged' = <<>>
    BY <1>8, <2>1, <2>3
  <2>4. QED
    BY <1>41, CommitMergeEffect, <2>2, <2>3
<1>42. CASE ConfirmMerge
  <2>1. UNCHANGED <<base, staged>> /\ at' # "squashing" /\ node \in Ticket
    BY <1>42, ConfirmMergeEffect DEF Stopped, Moved, Left, Idle, git
  <2>2. \A t \in Ticket : t # node => journal'[t]["merge"] = journal[t]["merge"]
    BY <1>42, ConfirmMergeEffect, <1>3 DEF Stopped, Moved, Rows, Notes
  <2>3. ASSUME Unmerged(node) PROVE journal'[node]["merge"] = journal[node]["merge"]
    <3>1. Status(node, "merge") \in Standing
      BY <1>42, ConfirmMergeEffect, <1>1 DEF Closings, Standings
    <3>2. ASSUME Len(base) # Frozen(node) PROVE base[Frozen(node) + 1] # <<node, Source(node)>>
      <4>1. Frozen(node) + 1 \in DOMAIN base
        BY <1>1, <1>5, <2>1, <3>1, <3>2, Lengths DEF MergeKnown
      <4>2. QED
        BY <2>3, <4>1 DEF Unmerged
    <3>3. Stopped(Notes)
      BY <1>42, ConfirmMergeEffect, <3>2
    <3>4. QED
      BY <1>3, <2>1, <3>3 DEF Stopped, Rows, Notes
  <2>4. QED
    BY <1>6, <2>1, <2>2, <2>3 DEF Status
<1>43. CASE RemoveMerged
  <2>1. UNCHANGED <<base, staged>> /\ (at' = "squashing" => UNCHANGED <<at, node>>)
        /\ \A t \in Ticket : journal'[t]["merge"] = journal[t]["merge"]
    BY <1>43, RemoveMergedEffect, <1>2, <1>3 DEF Stopped, Moved, Left, Idle, Rows, Notes, git, books
  <2>2. QED
    BY <1>7, <2>1
<1>44. CASE DeleteBranch
  <2>1. UNCHANGED <<base, staged>> /\ (at' = "squashing" => UNCHANGED <<at, node>>)
        /\ \A t \in Ticket : journal'[t]["merge"] = journal[t]["merge"]
    BY <1>44, DeleteBranchEffect, <1>2, <1>3 DEF Stopped, Moved, Left, Idle, Rows, Notes, git, books
  <2>2. QED
    BY <1>7, <2>1
<1>45. CASE PlanCompletion
  <2>1. UNCHANGED <<base, staged>> /\ (at' = "squashing" => UNCHANGED <<at, node>>)
        /\ \A t \in Ticket : journal'[t]["merge"] = journal[t]["merge"]
    BY <1>45, PlanCompletionEffect, <1>2, <1>3 DEF Stopped, Moved, Left, Idle, Rows, Notes, git, books
  <2>2. QED
    BY <1>7, <2>1
<1>46. CASE CompleteTicket
  <2>1. UNCHANGED <<base, staged>> /\ (at' = "squashing" => UNCHANGED <<at, node>>)
        /\ \A t \in Ticket : journal'[t]["merge"] = journal[t]["merge"]
    BY <1>46, CompleteTicketEffect, <1>2, <1>3 DEF Stopped, Moved, Left, Idle, Rows, Notes, git, books
  <2>2. QED
    BY <1>7, <2>1
<1>47. CASE ConfirmCompletion
  <2>1. UNCHANGED <<base, staged>> /\ (at' = "squashing" => UNCHANGED <<at, node>>)
        /\ \A t \in Ticket : journal'[t]["merge"] = journal[t]["merge"]
    BY <1>47, ConfirmCompletionEffect, <1>2, <1>3 DEF Stopped, Moved, Left, Idle, Rows, Notes, git, books
  <2>2. QED
    BY <1>7, <2>1
<1>48. CASE CompleteQa
  <2>1. UNCHANGED <<base, staged>> /\ (at' = "squashing" => UNCHANGED <<at, node>>)
        /\ \A t \in Ticket : journal'[t]["merge"] = journal[t]["merge"]
    BY <1>48, CompleteQaEffect, <1>2, <1>3 DEF Stopped, Moved, Left, Idle, Rows, Notes, git, books
  <2>2. QED
    BY <1>7, <2>1
<1>49. CASE CloseSession
  <2>1. UNCHANGED <<base, staged>> /\ (at' = "squashing" => UNCHANGED <<at, node>>)
        /\ \A t \in Ticket : journal'[t]["merge"] = journal[t]["merge"]
    BY <1>49, CloseSessionEffect, <1>2, <1>3 DEF Stopped, Moved, Left, Idle, Rows, Notes, git, books
  <2>2. QED
    BY <1>7, <2>1
<1>50. CASE RemoveWorktree
  <2>1. UNCHANGED <<base, staged>> /\ (at' = "squashing" => UNCHANGED <<at, node>>)
        /\ \A t \in Ticket : journal'[t]["merge"] = journal[t]["merge"]
    BY <1>50, RemoveWorktreeEffect, <1>2, <1>3 DEF Stopped, Moved, Left, Idle, Rows, Notes, git, books
  <2>2. QED
    BY <1>7, <2>1
<1>51. QED
  BY <1>10, <1>11, <1>12, <1>13, <1>14, <1>15, <1>16, <1>17, <1>18, <1>19, <1>20, <1>21, <1>22, <1>23,
     <1>24, <1>25, <1>26, <1>27, <1>28, <1>29, <1>30, <1>31, <1>32, <1>33, <1>34, <1>35, <1>36, <1>37,
     <1>38, <1>39, <1>40, <1>41, <1>42, <1>43, <1>44, <1>45, <1>46, <1>47, <1>48, <1>49, <1>50, Zenon
     DEF Next, Loop, Build, Finalize, Deliver, Complete, Human

(* What is merged, or may be, is certified.                                     *)
LEMMA CertifiedNext ==
  ASSUME IInv, [Next]_vars
  PROVE  \A t \in Ticket : MergeCertified(t)'
<1> SUFFICES ASSUME NEW t \in Ticket
             PROVE  MergeCertified(t)'
  OBVIOUS
<1>1. TypeOK /\ Merges /\ Certificates /\ Heads /\ Receipts /\ Closings /\ Done
  BY DEF IInv
<1>2. journal \in Journal /\ qa \in [Ticket -> Qas] /\ DOMAIN cert = Ticket /\ (at \notin Idle => node \in Ticket)
  BY <1>1 DEF TypeOK
<1>3. "merge" \in Kind
  BY DEF Kind
<1>4. MergeCertified(t)
  BY <1>1 DEF Certificates
<1>5. MergeKnown(t)
  BY <1>1 DEF Merges
<1>6. ASSUME UNCHANGED options, late \subseteq late', journal'[t]["merge"] = journal[t]["merge"],
             qa'[t] = qa[t], cert'[t] = cert[t]
      PROVE  MergeCertified(t)'
  BY <1>4, <1>6 DEF MergeCertified, Status, Source, MergeOp
<1>7. ASSUME Status(t, "merge")' = "none"
      PROVE  MergeCertified(t)'
  BY <1>7 DEF MergeCertified, Standing
<1>8. ASSUME UNCHANGED options, late \subseteq late', journal'[t]["merge"] = journal[t]["merge"],
             qa[t] \notin {"waived", "finalizing", "completed"}
      PROVE  MergeCertified(t)'
  BY <1>4, <1>8 DEF MergeCertified, Status
<1>9. CASE UNCHANGED vars
  <2>1. UNCHANGED options /\ late \subseteq late' /\ journal'[t]["merge"] = journal[t]["merge"] /\ qa'[t] = qa[t] /\ cert'[t] = cert[t]
    BY <1>9, <1>2, <1>3 DEF Stopped, Moved, Rows, Notes, Drifted, git, books, vars
  <2>2. QED
    BY <1>6, <2>1
<1>10. CASE Start \/ Resume
  <2>1. UNCHANGED options /\ late \subseteq late' /\ journal'[t]["merge"] = journal[t]["merge"] /\ qa'[t] = qa[t] /\ cert'[t] = cert[t]
    BY <1>10, LaunchEffect, <1>2, <1>3 DEF Stopped, Moved, Rows, Notes, Drifted, git, books
  <2>2. QED
    BY <1>6, <2>1
<1>11. CASE Finish \/ Crash
  <2>1. UNCHANGED options /\ late \subseteq late' /\ journal'[t]["merge"] = journal[t]["merge"] /\ qa'[t] = qa[t] /\ cert'[t] = cert[t]
    BY <1>11, HaltEffect, <1>2, <1>3 DEF Stopped, Moved, Rows, Notes, Drifted, git, books
  <2>2. QED
    BY <1>6, <2>1
<1>12. ASSUME NEW u \in Ticket, PassOver(u)
      PROVE  MergeCertified(t)'
  <2>1. UNCHANGED options /\ late \subseteq late' /\ journal'[t]["merge"] = journal[t]["merge"] /\ qa'[t] = qa[t] /\ cert'[t] = cert[t]
    BY <1>12, <1>2, <1>3 DEF Stopped, Moved, Rows, Notes, Drifted, git, books, PassOver, Pass, Taking, bounds
  <2>2. QED
    BY <1>6, <2>1
<1>13. ASSUME NEW u \in Ticket, RecoverMerge(u)
      PROVE  MergeCertified(t)'
  <2>1. UNCHANGED options /\ late \subseteq late' /\ journal'[t]["merge"] = journal[t]["merge"] /\ qa'[t] = qa[t] /\ cert'[t] = cert[t]
    BY <1>13, <1>2, <1>3 DEF Stopped, Moved, Rows, Notes, Drifted, git, books, RecoverMerge, Take, Taking,
       MergeOp, bounds
  <2>2. QED
    BY <1>6, <2>1
<1>14. ASSUME NEW u \in Ticket, ContinueTicket(u)
      PROVE  MergeCertified(t)'
  <2>1. UNCHANGED options /\ late \subseteq late' /\ journal'[t]["merge"] = journal[t]["merge"] /\ qa'[t] = qa[t] /\ cert'[t] = cert[t]
    BY <1>14, <1>2, <1>3 DEF Stopped, Moved, Rows, Notes, Drifted, git, books, ContinueTicket, Take, Taking,
       MergeOp, bounds
  <2>2. QED
    BY <1>6, <2>1
<1>15. ASSUME NEW u \in Ticket, CreateWorktree(u)
      PROVE  MergeCertified(t)'
  <2>1. UNCHANGED options /\ late \subseteq late' /\ journal'[t]["merge"] = journal[t]["merge"] /\ qa'[t] = qa[t] /\ cert'[t] = cert[t]
    BY <1>15, <1>2, <1>3 DEF Stopped, Moved, Rows, Notes, Drifted, git, books, CreateWorktree, Take, Taking,
       Halt, Forgotten, bounds
  <2>2. QED
    BY <1>6, <2>1
<1>16. ASSUME NEW u \in Ticket, HumanEdits(u)
      PROVE  MergeCertified(t)'
  <2>1. UNCHANGED options /\ late \subseteq late' /\ journal'[t]["merge"] = journal[t]["merge"] /\ qa'[t] = qa[t] /\ cert'[t] = cert[t]
    BY <1>16, <1>2, <1>3 DEF Stopped, Moved, Rows, Notes, Drifted, git, books, HumanEdits, Touch, plan
  <2>2. QED
    BY <1>6, <2>1
<1>17. ASSUME NEW u \in Ticket, HumanCommits(u)
      PROVE  MergeCertified(t)'
  <2>1. UNCHANGED options /\ late \subseteq late' /\ journal'[t]["merge"] = journal[t]["merge"] /\ qa'[t] = qa[t] /\ cert'[t] = cert[t]
    BY <1>17, <1>2, <1>3 DEF Stopped, Moved, Rows, Notes, Drifted, git, books, HumanCommits, Touch, Dirty, plan
  <2>2. QED
    BY <1>6, <2>1
<1>18. CASE OpenTicket
  <2>1. UNCHANGED options /\ late \subseteq late' /\ journal'[t]["merge"] = journal[t]["merge"] /\ qa'[t] = qa[t] /\ cert'[t] = cert[t]
    BY <1>18, <1>2, <1>3 DEF Stopped, Moved, Rows, Notes, Drifted, git, books, OpenTicket, Goto, plan, bounds
  <2>2. QED
    BY <1>6, <2>1
<1>19. CASE BuilderEdits
  <2>1. UNCHANGED options /\ late \subseteq late' /\ journal'[t]["merge"] = journal[t]["merge"] /\ qa'[t] = qa[t] /\ cert'[t] = cert[t]
    BY <1>19, <1>2, <1>3 DEF Stopped, Moved, Rows, Notes, Drifted, git, books, BuilderEdits, bounds, plan
  <2>2. QED
    BY <1>6, <2>1
<1>20. CASE PassQa
  <2>1. qa[node] \notin {"waived", "finalizing", "completed"} /\ node \in Ticket
    BY <1>20, <1>1, <1>2 DEF PassQa, Heads, Idle
  <2>2. UNCHANGED options /\ late \subseteq late' /\ journal'[t]["merge"] = journal[t]["merge"]
    BY <1>20, <1>3 DEF Stopped, Moved, Rows, Notes, git, books, PassQa, Goto, plan, bounds, Digest
  <2>3. CASE t = node
    BY <1>8, <2>1, <2>2, <2>3
  <2>4. CASE t # node
    <3>1. qa'[t] = qa[t] /\ cert'[t] = cert[t]
      BY <1>20, <1>2, <2>4 DEF git, PassQa, Goto, plan, bounds, Digest
    <3>2. QED
      BY <1>6, <2>2, <3>1
  <2>5. QED
    BY <2>3, <2>4
<1>21. CASE WaiveQa
  <2>1. qa[node] \notin {"waived", "finalizing", "completed"} /\ node \in Ticket
    BY <1>21, <1>1, <1>2 DEF WaiveQa, Heads, Idle
  <2>2. UNCHANGED options /\ late \subseteq late' /\ journal'[t]["merge"] = journal[t]["merge"]
    BY <1>21, <1>3 DEF Stopped, Moved, Rows, Notes, git, books, WaiveQa, Goto, plan, bounds
  <2>3. CASE t = node
    BY <1>8, <2>1, <2>2, <2>3
  <2>4. CASE t # node
    <3>1. qa'[t] = qa[t] /\ cert'[t] = cert[t]
      BY <1>21, <1>2, <2>4 DEF git, WaiveQa, Goto, plan, bounds
    <3>2. QED
      BY <1>6, <2>2, <3>1
  <2>5. QED
    BY <2>3, <2>4
<1>22. CASE HumanCommitsBase
  <2>1. UNCHANGED options /\ late \subseteq late' /\ journal'[t]["merge"] = journal[t]["merge"] /\ qa'[t] = qa[t] /\ cert'[t] = cert[t]
    BY <1>22, <1>2, <1>3 DEF Stopped, Moved, Rows, Notes, Drifted, git, books, HumanCommitsBase, Touch, plan
  <2>2. QED
    BY <1>6, <2>1
<1>23. ASSUME NEW how \in {"done", "blocked", "error"}, BuilderEnds(how)
      PROVE  MergeCertified(t)'
  <2>1. UNCHANGED options /\ late \subseteq late' /\ journal'[t]["merge"] = journal[t]["merge"] /\ qa'[t] = qa[t] /\ cert'[t] = cert[t]
    BY <1>23, BuilderEndsEffect, <1>2, <1>3 DEF Stopped, Moved, Rows, Notes, Drifted, git, books
  <2>2. QED
    BY <1>6, <2>1
<1>24. CASE BeginQa
  <2>1. CASE Stopped(Notes) /\ qa' = qa
    <3>1. UNCHANGED options /\ late \subseteq late' /\ journal'[t]["merge"] = journal[t]["merge"] /\ cert' = cert
      BY <1>24, BeginQaEffect, <1>3, <2>1 DEF Stopped, Rows, Notes
    <3>2. QED
      BY <1>6, <2>1, <3>1
  <2>2. CASE Moved("review", {}) /\ qa' = [qa EXCEPT ![node] = "open"] /\ qa[node] \notin {"waived", "completed"}
    <3>1. qa[node] \notin {"waived", "finalizing", "completed"} /\ node \in Ticket
      BY <1>24, BeginQaEffect, <1>1, <2>2 DEF Heads, Building
    <3>2. UNCHANGED options /\ late \subseteq late' /\ journal'[t]["merge"] = journal[t]["merge"] /\ cert' = cert
      BY <1>24, BeginQaEffect, <1>3, <2>2 DEF Moved, Rows
    <3>3. t # node => qa'[t] = qa[t]
      BY <1>2, <2>2
    <3>4. QED
      BY <1>6, <1>8, <3>1, <3>2, <3>3
  <2>3. QED
    BY <1>24, BeginQaEffect, <2>1, <2>2
<1>25. CASE QaBlocks
  <2>1. UNCHANGED options /\ late \subseteq late' /\ journal'[t]["merge"] = journal[t]["merge"] /\ qa'[t] = qa[t] /\ cert'[t] = cert[t]
    BY <1>25, QaBlocksEffect, <1>2, <1>3 DEF Stopped, Moved, Rows, Notes, Drifted, git, books
  <2>2. QED
    BY <1>6, <2>1
<1>26. CASE BeginFinalization
  <2>1. qa[node] \notin {"waived", "finalizing", "completed"} /\ node \in Ticket
    BY <1>26, BeginFinalizationEffect, <1>1, <1>2 DEF Heads, Idle
  <2>2. UNCHANGED options /\ late \subseteq late' /\ journal'[t]["merge"] = journal[t]["merge"]
    BY <1>26, BeginFinalizationEffect, <1>3 DEF Stopped, Moved, Rows, Notes, git, books
  <2>3. CASE t = node
    BY <1>8, <2>1, <2>2, <2>3
  <2>4. CASE t # node
    <3>1. qa'[t] = qa[t] /\ cert'[t] = cert[t]
      BY <1>26, BeginFinalizationEffect, <1>2, <2>4 DEF git
    <3>2. QED
      BY <1>6, <2>2, <3>1
  <2>5. QED
    BY <2>3, <2>4
<1>27. CASE ResumeFinalization
  <2>1. UNCHANGED options /\ late \subseteq late' /\ cert' = cert
    BY <1>27, ResumeFinalizationEffect DEF git
  <2>2. CASE journal'[t]["merge"] = journal[t]["merge"] /\ qa'[t] = qa[t]
    BY <1>6, <2>1, <2>2
  <2>3. CASE ~ (journal'[t]["merge"] = journal[t]["merge"] /\ qa'[t] = qa[t])
    <3>1. Status(t, "merge")' = "none"
      BY <1>27, ResumeFinalizationEffect, <1>2, <1>3, <2>3 DEF Stopped, Moved, Rows, Notes, Drifted, Status
    <3>2. QED
      BY <1>7, <3>1
  <2>4. QED
    BY <2>2, <2>3
<1>28. CASE PlanCommit
  <2>1. UNCHANGED options /\ late \subseteq late' /\ cert' = cert
    BY <1>28, PlanCommitEffect DEF git
  <2>2. CASE journal'[t]["merge"] = journal[t]["merge"] /\ qa'[t] = qa[t]
    BY <1>6, <2>1, <2>2
  <2>3. CASE ~ (journal'[t]["merge"] = journal[t]["merge"] /\ qa'[t] = qa[t])
    <3>1. Status(t, "merge")' = "none"
      BY <1>28, PlanCommitEffect, <1>2, <1>3, <2>3 DEF Stopped, Moved, Rows, Notes, Drifted, Status
    <3>2. QED
      BY <1>7, <3>1
  <2>4. QED
    BY <2>2, <2>3
<1>29. CASE CommitAll
  <2>1. UNCHANGED options /\ late \subseteq late' /\ journal'[t]["merge"] = journal[t]["merge"] /\ qa'[t] = qa[t] /\ cert'[t] = cert[t]
    BY <1>29, CommitAllEffect, <1>2, <1>3 DEF Stopped, Moved, Rows, Notes, Drifted, git, books
  <2>2. QED
    BY <1>6, <2>1
<1>30. CASE ConfirmCommit
  <2>1. UNCHANGED options /\ late \subseteq late' /\ journal'[t]["merge"] = journal[t]["merge"] /\ qa'[t] = qa[t] /\ cert'[t] = cert[t]
    BY <1>30, ConfirmCommitEffect, <1>2, <1>3 DEF Stopped, Moved, Rows, Notes, Drifted, git, books
  <2>2. QED
    BY <1>6, <2>1
<1>31. CASE VerifyPublication
  <2>1. UNCHANGED options /\ late \subseteq late' /\ cert' = cert
    BY <1>31, VerifyPublicationEffect DEF git
  <2>2. CASE journal'[t]["merge"] = journal[t]["merge"] /\ qa'[t] = qa[t]
    BY <1>6, <2>1, <2>2
  <2>3. CASE ~ (journal'[t]["merge"] = journal[t]["merge"] /\ qa'[t] = qa[t])
    <3>1. Status(t, "merge")' = "none"
      BY <1>31, VerifyPublicationEffect, <1>2, <1>3, <2>3 DEF Stopped, Moved, Rows, Notes, Drifted, Status
    <3>2. QED
      BY <1>7, <3>1
  <2>4. QED
    BY <2>2, <2>3
<1>32. CASE Push
  <2>1. UNCHANGED options /\ late \subseteq late' /\ journal'[t]["merge"] = journal[t]["merge"] /\ qa'[t] = qa[t] /\ cert'[t] = cert[t]
    BY <1>32, PushEffect, <1>2, <1>3 DEF Stopped, Moved, Rows, Notes, Drifted, git, books
  <2>2. QED
    BY <1>6, <2>1
<1>33. CASE ConfirmPush
  <2>1. UNCHANGED options /\ late \subseteq late' /\ journal'[t]["merge"] = journal[t]["merge"] /\ qa'[t] = qa[t] /\ cert'[t] = cert[t]
    BY <1>33, ConfirmPushEffect, <1>2, <1>3 DEF Stopped, Moved, Rows, Notes, Drifted, git, books
  <2>2. QED
    BY <1>6, <2>1
<1>34. CASE RequestReview
  <2>1. UNCHANGED options /\ late \subseteq late' /\ journal'[t]["merge"] = journal[t]["merge"] /\ qa'[t] = qa[t] /\ cert'[t] = cert[t]
    BY <1>34, RequestReviewEffect, <1>2, <1>3 DEF Stopped, Moved, Rows, Notes, Drifted, git, books
  <2>2. QED
    BY <1>6, <2>1
<1>35. CASE ConfirmReview
  <2>1. UNCHANGED options /\ late \subseteq late' /\ journal'[t]["merge"] = journal[t]["merge"] /\ qa'[t] = qa[t] /\ cert'[t] = cert[t]
    BY <1>35, ConfirmReviewEffect, <1>2, <1>3 DEF Stopped, Moved, Rows, Notes, Drifted, git, books
  <2>2. QED
    BY <1>6, <2>1
<1>36. CASE PrepareMerge
  <2>1. UNCHANGED <<options, late, qa, cert>>
    BY <1>36, PrepareMergeEffect DEF git
  <2>2. CASE journal'[t]["merge"] = journal[t]["merge"]
    BY <1>6, <2>1, <2>2
  <2>3. CASE journal'[t]["merge"] # journal[t]["merge"]
    <3>1. t = node
      BY <1>36, PrepareMergeEffect, <1>3, <2>3 DEF Stopped, Moved, Rows, Notes
    <3>2. \/ journal'[node]["merge"].intent[1] = head[node]
          \/ /\ journal'[node]["merge"].status = Status(node, "merge")
             /\ journal'[node]["merge"].intent = journal[node]["merge"].intent
      BY <1>36, PrepareMergeEffect, <1>3, <2>3, <3>1 DEF Stopped, Rows, Notes
    <3>3. options.qa /\ node \notin late => Certified(node)
      BY <1>36, PrepareMergeEffect, <1>1 DEF Receipts
    <3>4. options.qa => qa[node] \in {"finalizing", "waived"}
      BY <1>36, PrepareMergeEffect, <1>1 DEF Heads, Delivering, Merging
    <3>5. QED
      BY <1>4, <2>1, <3>1, <3>2, <3>3, <3>4 DEF MergeCertified, Certified, Status, Source, MergeOp
  <2>4. QED
    BY <2>2, <2>3
<1>37. CASE ReconcileMerge \/ InspectIndex \/ CheckMerged
  <2>1. UNCHANGED options /\ late \subseteq late' /\ journal'[t]["merge"] = journal[t]["merge"] /\ qa'[t] = qa[t] /\ cert'[t] = cert[t]
    BY <1>37, SurveyEffect, <1>2, <1>3 DEF Stopped, Moved, Rows, Notes, Drifted, git, books
  <2>2. QED
    BY <1>6, <2>1
<1>38. CASE CheckSource
  <2>1. UNCHANGED options /\ late \subseteq late' /\ cert' = cert
    BY <1>38, CheckSourceEffect DEF git
  <2>2. CASE journal'[t]["merge"] = journal[t]["merge"] /\ qa'[t] = qa[t]
    BY <1>6, <2>1, <2>2
  <2>3. CASE ~ (journal'[t]["merge"] = journal[t]["merge"] /\ qa'[t] = qa[t])
    <3>1. Status(t, "merge")' = "none"
      BY <1>38, CheckSourceEffect, <1>2, <1>3, <2>3 DEF Stopped, Moved, Rows, Notes, Drifted, Status
    <3>2. QED
      BY <1>7, <3>1
  <2>4. QED
    BY <2>2, <2>3
<1>39. CASE SquashMerge
  <2>1. UNCHANGED options /\ late \subseteq late' /\ journal'[t]["merge"] = journal[t]["merge"] /\ qa'[t] = qa[t] /\ cert'[t] = cert[t]
    BY <1>39, SquashMergeEffect, <1>2, <1>3 DEF Stopped, Moved, Rows, Notes, Drifted, git, books
  <2>2. QED
    BY <1>6, <2>1
<1>40. CASE CommitMerge
  <2>1. UNCHANGED options /\ late \subseteq late' /\ journal'[t]["merge"] = journal[t]["merge"] /\ qa'[t] = qa[t] /\ cert'[t] = cert[t]
    BY <1>40, CommitMergeEffect, <1>2, <1>3 DEF Stopped, Moved, Rows, Notes, Drifted, git, books
  <2>2. QED
    BY <1>6, <2>1
<1>41. CASE ConfirmMerge
  <2>1. UNCHANGED <<options, late, qa, cert>>
    BY <1>41, ConfirmMergeEffect DEF git
  <2>2. CASE journal'[t]["merge"] = journal[t]["merge"]
    BY <1>6, <2>1, <2>2
  <2>3. CASE journal'[t]["merge"] # journal[t]["merge"]
    <3>1. t = node
      BY <1>41, ConfirmMergeEffect, <1>3, <2>3 DEF Stopped, Moved, Rows, Notes
    <3>2. /\ journal'[node]["merge"].status = "confirmed"
          /\ journal'[node]["merge"].intent = journal[node]["merge"].intent
      BY <1>41, ConfirmMergeEffect, <1>3, <2>3, <3>1 DEF Stopped, Rows, Notes
    <3>3. Status(node, "merge") \in Standing
      BY <1>41, ConfirmMergeEffect, <1>1 DEF Closings, Standings
    <3>5. QED
      BY <1>4, <2>1, <3>1, <3>2, <3>3 DEF MergeCertified, Status, Source, MergeOp
  <2>4. QED
    BY <2>2, <2>3
<1>42. CASE RemoveMerged
  <2>1. UNCHANGED options /\ late \subseteq late' /\ journal'[t]["merge"] = journal[t]["merge"] /\ qa'[t] = qa[t] /\ cert'[t] = cert[t]
    BY <1>42, RemoveMergedEffect, <1>2, <1>3 DEF Stopped, Moved, Rows, Notes, Drifted, git, books
  <2>2. QED
    BY <1>6, <2>1
<1>43. CASE DeleteBranch
  <2>1. UNCHANGED options /\ late \subseteq late' /\ journal'[t]["merge"] = journal[t]["merge"] /\ qa'[t] = qa[t] /\ cert'[t] = cert[t]
    BY <1>43, DeleteBranchEffect, <1>2, <1>3 DEF Stopped, Moved, Rows, Notes, Drifted, git, books
  <2>2. QED
    BY <1>6, <2>1
<1>44. CASE PlanCompletion
  <2>1. UNCHANGED options /\ late \subseteq late' /\ journal'[t]["merge"] = journal[t]["merge"] /\ qa'[t] = qa[t] /\ cert'[t] = cert[t]
    BY <1>44, PlanCompletionEffect, <1>2, <1>3 DEF Stopped, Moved, Rows, Notes, Drifted, git, books
  <2>2. QED
    BY <1>6, <2>1
<1>45. CASE CompleteTicket
  <2>1. UNCHANGED options /\ late \subseteq late' /\ journal'[t]["merge"] = journal[t]["merge"] /\ qa'[t] = qa[t] /\ cert'[t] = cert[t]
    BY <1>45, CompleteTicketEffect, <1>2, <1>3 DEF Stopped, Moved, Rows, Notes, Drifted, git, books
  <2>2. QED
    BY <1>6, <2>1
<1>46. CASE ConfirmCompletion
  <2>1. UNCHANGED options /\ late \subseteq late' /\ journal'[t]["merge"] = journal[t]["merge"] /\ qa'[t] = qa[t] /\ cert'[t] = cert[t]
    BY <1>46, ConfirmCompletionEffect, <1>2, <1>3 DEF Stopped, Moved, Rows, Notes, Drifted, git, books
  <2>2. QED
    BY <1>6, <2>1
<1>47. CASE CompleteQa
  <2>1. UNCHANGED <<options, late, cert>> /\ journal'[t]["merge"] = journal[t]["merge"] /\ node \in Ticket
    BY <1>47, CompleteQaEffect, <1>3 DEF git, Moved, Rows
  <2>2. CASE qa'[t] = qa[t]
    BY <1>6, <2>1, <2>2
  <2>3. CASE qa'[t] # qa[t]
    <3>1. t = node /\ qa'[t] = "completed" /\ options.qa /\ qa[node] # "waived"
      BY <1>47, CompleteQaEffect, <1>2, <2>3 DEF Bound
    <3>2. Status(node, "merge") \in {"none", "confirmed"}
      BY <1>47, CompleteQaEffect, <1>1 DEF Closings, Completing, Done, DoneWell, Delivered
    <3>3. QED
      BY <1>4, <2>1, <3>1, <3>2 DEF MergeCertified, Standing, Status, Source, MergeOp
  <2>4. QED
    BY <2>2, <2>3
<1>48. CASE CloseSession
  <2>1. UNCHANGED options /\ late \subseteq late' /\ journal'[t]["merge"] = journal[t]["merge"] /\ qa'[t] = qa[t] /\ cert'[t] = cert[t]
    BY <1>48, CloseSessionEffect, <1>2, <1>3 DEF Stopped, Moved, Rows, Notes, Drifted, git, books
  <2>2. QED
    BY <1>6, <2>1
<1>49. CASE RemoveWorktree
  <2>1. UNCHANGED options /\ late \subseteq late' /\ journal'[t]["merge"] = journal[t]["merge"] /\ qa'[t] = qa[t] /\ cert'[t] = cert[t]
    BY <1>49, RemoveWorktreeEffect, <1>2, <1>3 DEF Stopped, Moved, Rows, Notes, Drifted, git, books
  <2>2. QED
    BY <1>6, <2>1
<1>50. QED
  BY <1>9, <1>10, <1>11, <1>12, <1>13, <1>14, <1>15, <1>16, <1>17, <1>18, <1>19, <1>20, <1>21, <1>22,
     <1>23, <1>24, <1>25, <1>26, <1>27, <1>28, <1>29, <1>30, <1>31, <1>32, <1>33, <1>34, <1>35, <1>36,
     <1>37, <1>38, <1>39, <1>40, <1>41, <1>42, <1>43, <1>44, <1>45, <1>46, <1>47, <1>48, <1>49, Zenon
     DEF Next, Loop, Build, Finalize, Deliver, Complete, Human

(* The journal knows of every push and every request.                           *)
LEMMA PushKnownNext ==
  ASSUME IInv, [Next]_vars
  PROVE  \A t \in Ticket : PushKnown(t)'
<1> SUFFICES ASSUME NEW t \in Ticket
             PROVE  PushKnown(t)'
  OBVIOUS
<1>1. TypeOK /\ Pushes /\ Contents /\ Queued /\ Untouched /\ Receipts
  BY DEF IInv
<1>2. /\ head \in [Ticket -> Nat] /\ tree \in [Ticket -> Nat] /\ remote \in [Ticket -> Nat] /\ journal \in Journal
      /\ (at \notin Idle => node \in Ticket)
  BY <1>1 DEF TypeOK
<1>3. {"push", "review", "remote-block"} \subseteq Kind
  BY DEF Kind
<1>4. PushKnown(t)
  BY <1>1 DEF Pushes
<1>5. head[t] \in Nat /\ tree[t] \in Nat /\ head[t] <= tree[t]
  BY <1>1 DEF Contents, Grown, TypeOK
<1>6. ASSUME UNCHANGED options, head[t] # 0 => head'[t] # 0,
             \A k \in {"push", "review", "remote-block"} : journal'[t][k] = journal[t][k],
             remote'[t] = remote[t], request \subseteq request', late \subseteq late'
      PROVE  PushKnown(t)'
  BY <1>4, <1>6 DEF PushKnown, Status
<1>7. ASSUME \A k \in {"push", "review", "remote-block"} : Status(t, k)' = "none"
      PROVE  PushKnown(t)'
  BY <1>7 DEF PushKnown
<1>8. \A u \in queue : u \notin resumed => \A k \in {"push", "review", "remote-block"} : Status(u, k) = "none"
  BY <1>1, <1>3 DEF Queued, Untouched, Fresh
<1>9. CASE UNCHANGED vars
  <2>1. /\ UNCHANGED options /\ (head[t] # 0 => head'[t] # 0)
        /\ \A k \in {"push", "review", "remote-block"} : journal'[t][k] = journal[t][k]
        /\ remote'[t] = remote[t] /\ request \subseteq request' /\ late \subseteq late'
    BY <1>9, <1>2, <1>3, <1>5 DEF Stopped, Moved, Rows, Notes, Checks, Drifted, git, books, vars
  <2>2. QED
    BY <1>6, <2>1
<1>10. CASE Start \/ Resume
  <2>1. /\ UNCHANGED options /\ (head[t] # 0 => head'[t] # 0)
        /\ \A k \in {"push", "review", "remote-block"} : journal'[t][k] = journal[t][k]
        /\ remote'[t] = remote[t] /\ request \subseteq request' /\ late \subseteq late'
    BY <1>10, LaunchEffect, <1>2, <1>3, <1>5 DEF Stopped, Moved, Rows, Notes, Checks, Drifted, git, books
  <2>2. QED
    BY <1>6, <2>1
<1>11. CASE Finish \/ Crash
  <2>1. /\ UNCHANGED options /\ (head[t] # 0 => head'[t] # 0)
        /\ \A k \in {"push", "review", "remote-block"} : journal'[t][k] = journal[t][k]
        /\ remote'[t] = remote[t] /\ request \subseteq request' /\ late \subseteq late'
    BY <1>11, HaltEffect, <1>2, <1>3, <1>5 DEF Stopped, Moved, Rows, Notes, Checks, Drifted, git, books
  <2>2. QED
    BY <1>6, <2>1
<1>12. ASSUME NEW u \in Ticket, PassOver(u)
      PROVE  PushKnown(t)'
  <2>1. /\ UNCHANGED options /\ (head[t] # 0 => head'[t] # 0)
        /\ \A k \in {"push", "review", "remote-block"} : journal'[t][k] = journal[t][k]
        /\ remote'[t] = remote[t] /\ request \subseteq request' /\ late \subseteq late'
    BY <1>12, <1>2, <1>3, <1>5 DEF Stopped, Moved, Rows, Notes, Checks, Drifted, git, books, PassOver, Pass,
       Taking, bounds
  <2>2. QED
    BY <1>6, <2>1
<1>13. ASSUME NEW u \in Ticket, RecoverMerge(u)
      PROVE  PushKnown(t)'
  <2>1. /\ UNCHANGED options /\ (head[t] # 0 => head'[t] # 0)
        /\ \A k \in {"push", "review", "remote-block"} : journal'[t][k] = journal[t][k]
        /\ remote'[t] = remote[t] /\ request \subseteq request' /\ late \subseteq late'
    BY <1>13, <1>2, <1>3, <1>5 DEF Stopped, Moved, Rows, Notes, Checks, Drifted, git, books, RecoverMerge,
       Take, Taking, MergeOp, bounds
  <2>2. QED
    BY <1>6, <2>1
<1>14. ASSUME NEW u \in Ticket, ContinueTicket(u)
      PROVE  PushKnown(t)'
  <2>1. /\ UNCHANGED options /\ (head[t] # 0 => head'[t] # 0)
        /\ \A k \in {"push", "review", "remote-block"} : journal'[t][k] = journal[t][k]
        /\ remote'[t] = remote[t] /\ request \subseteq request' /\ late \subseteq late'
    BY <1>14, <1>2, <1>3, <1>5 DEF Stopped, Moved, Rows, Notes, Checks, Drifted, git, books, ContinueTicket,
       Take, Taking, MergeOp, bounds
  <2>2. QED
    BY <1>6, <2>1
<1>15. ASSUME NEW u \in Ticket, CreateWorktree(u)
      PROVE  PushKnown(t)'
  <2>1. CASE t = u /\ ~ br[u]
    <3>1. journal' = journal /\ u \in queue /\ u \notin resumed
      BY <1>15, <2>1 DEF CreateWorktree, Taking, books
    <3>2. QED
      BY <1>7, <1>8, <2>1, <3>1 DEF Status
  <2>2. CASE t # u \/ br[u]
    <3>1. UNCHANGED <<options, journal, remote, request, late>> /\ head'[t] = head[t]
      BY <1>15, <1>2, <2>2 DEF CreateWorktree, bounds, books, git
    <3>2. QED
      BY <1>6, <3>1
  <2>3. QED
    BY <2>1, <2>2
<1>16. ASSUME NEW u \in Ticket, HumanEdits(u)
      PROVE  PushKnown(t)'
  <2>1. /\ UNCHANGED options /\ (head[t] # 0 => head'[t] # 0)
        /\ \A k \in {"push", "review", "remote-block"} : journal'[t][k] = journal[t][k]
        /\ remote'[t] = remote[t] /\ request \subseteq request' /\ late \subseteq late'
    BY <1>16, <1>2, <1>3, <1>5 DEF Stopped, Moved, Rows, Notes, Checks, Drifted, git, books, HumanEdits,
       Touch, plan
  <2>2. QED
    BY <1>6, <2>1
<1>17. ASSUME NEW u \in Ticket, HumanCommits(u)
      PROVE  PushKnown(t)'
  <2>1. /\ UNCHANGED options /\ (head[t] # 0 => head'[t] # 0)
        /\ \A k \in {"push", "review", "remote-block"} : journal'[t][k] = journal[t][k]
        /\ remote'[t] = remote[t] /\ request \subseteq request' /\ late \subseteq late'
    BY <1>17, <1>2, <1>3, <1>5 DEF Stopped, Moved, Rows, Notes, Checks, Drifted, git, books, HumanCommits,
       Touch, Dirty, plan
  <2>2. QED
    BY <1>6, <2>1
<1>18. CASE OpenTicket
  <2>1. /\ UNCHANGED options /\ (head[t] # 0 => head'[t] # 0)
        /\ \A k \in {"push", "review", "remote-block"} : journal'[t][k] = journal[t][k]
        /\ remote'[t] = remote[t] /\ request \subseteq request' /\ late \subseteq late'
    BY <1>18, <1>2, <1>3, <1>5 DEF Stopped, Moved, Rows, Notes, Checks, Drifted, git, books, OpenTicket,
       Goto, plan, bounds
  <2>2. QED
    BY <1>6, <2>1
<1>19. CASE BuilderEdits
  <2>1. /\ UNCHANGED options /\ (head[t] # 0 => head'[t] # 0)
        /\ \A k \in {"push", "review", "remote-block"} : journal'[t][k] = journal[t][k]
        /\ remote'[t] = remote[t] /\ request \subseteq request' /\ late \subseteq late'
    BY <1>19, <1>2, <1>3, <1>5 DEF Stopped, Moved, Rows, Notes, Checks, Drifted, git, books, BuilderEdits,
       bounds, plan
  <2>2. QED
    BY <1>6, <2>1
<1>20. CASE PassQa
  <2>1. /\ UNCHANGED options /\ (head[t] # 0 => head'[t] # 0)
        /\ \A k \in {"push", "review", "remote-block"} : journal'[t][k] = journal[t][k]
        /\ remote'[t] = remote[t] /\ request \subseteq request' /\ late \subseteq late'
    BY <1>20, <1>2, <1>3, <1>5 DEF Stopped, Moved, Rows, Notes, Checks, Drifted, git, books, PassQa, Goto,
       plan, bounds, Digest
  <2>2. QED
    BY <1>6, <2>1
<1>21. CASE WaiveQa
  <2>1. /\ UNCHANGED options /\ (head[t] # 0 => head'[t] # 0)
        /\ \A k \in {"push", "review", "remote-block"} : journal'[t][k] = journal[t][k]
        /\ remote'[t] = remote[t] /\ request \subseteq request' /\ late \subseteq late'
    BY <1>21, <1>2, <1>3, <1>5 DEF Stopped, Moved, Rows, Notes, Checks, Drifted, git, books, WaiveQa, Goto,
       plan, bounds
  <2>2. QED
    BY <1>6, <2>1
<1>22. CASE HumanCommitsBase
  <2>1. /\ UNCHANGED options /\ (head[t] # 0 => head'[t] # 0)
        /\ \A k \in {"push", "review", "remote-block"} : journal'[t][k] = journal[t][k]
        /\ remote'[t] = remote[t] /\ request \subseteq request' /\ late \subseteq late'
    BY <1>22, <1>2, <1>3, <1>5 DEF Stopped, Moved, Rows, Notes, Checks, Drifted, git, books,
       HumanCommitsBase, Touch, plan
  <2>2. QED
    BY <1>6, <2>1
<1>23. ASSUME NEW how \in {"done", "blocked", "error"}, BuilderEnds(how)
      PROVE  PushKnown(t)'
  <2>1. /\ UNCHANGED options /\ (head[t] # 0 => head'[t] # 0)
        /\ \A k \in {"push", "review", "remote-block"} : journal'[t][k] = journal[t][k]
        /\ remote'[t] = remote[t] /\ request \subseteq request' /\ late \subseteq late'
    BY <1>23, BuilderEndsEffect, <1>2, <1>3, <1>5 DEF Stopped, Moved, Rows, Notes, Checks, Drifted, git, books
  <2>2. QED
    BY <1>6, <2>1
<1>24. CASE BeginQa
  <2>1. /\ UNCHANGED options /\ (head[t] # 0 => head'[t] # 0)
        /\ \A k \in {"push", "review", "remote-block"} : journal'[t][k] = journal[t][k]
        /\ remote'[t] = remote[t] /\ request \subseteq request' /\ late \subseteq late'
    BY <1>24, BeginQaEffect, <1>2, <1>3, <1>5 DEF Stopped, Moved, Rows, Notes, Checks, Drifted, git, books
  <2>2. QED
    BY <1>6, <2>1
<1>25. CASE QaBlocks
  <2>1. /\ UNCHANGED options /\ (head[t] # 0 => head'[t] # 0)
        /\ \A k \in {"push", "review", "remote-block"} : journal'[t][k] = journal[t][k]
        /\ remote'[t] = remote[t] /\ request \subseteq request' /\ late \subseteq late'
    BY <1>25, QaBlocksEffect, <1>2, <1>3, <1>5 DEF Stopped, Moved, Rows, Notes, Checks, Drifted, git, books
  <2>2. QED
    BY <1>6, <2>1
<1>26. CASE BeginFinalization
  <2>1. /\ UNCHANGED options /\ (head[t] # 0 => head'[t] # 0)
        /\ \A k \in {"push", "review", "remote-block"} : journal'[t][k] = journal[t][k]
        /\ remote'[t] = remote[t] /\ request \subseteq request' /\ late \subseteq late'
    BY <1>26, BeginFinalizationEffect, <1>2, <1>3, <1>5 DEF Stopped, Moved, Rows, Notes, Checks, Drifted,
       git, books
  <2>2. QED
    BY <1>6, <2>1
<1>27. CASE ResumeFinalization
  <2>1. /\ UNCHANGED options /\ (head[t] # 0 => head'[t] # 0)
        /\ \A k \in {"push", "review", "remote-block"} : journal'[t][k] = journal[t][k]
        /\ remote'[t] = remote[t] /\ request \subseteq request' /\ late \subseteq late'
    BY <1>27, ResumeFinalizationEffect, <1>2, <1>3, <1>5 DEF Stopped, Moved, Rows, Notes, Checks, Drifted,
       git, books
  <2>2. QED
    BY <1>6, <2>1
<1>28. CASE PlanCommit
  <2>1. /\ UNCHANGED options /\ (head[t] # 0 => head'[t] # 0)
        /\ \A k \in {"push", "review", "remote-block"} : journal'[t][k] = journal[t][k]
        /\ remote'[t] = remote[t] /\ request \subseteq request' /\ late \subseteq late'
    BY <1>28, PlanCommitEffect, <1>2, <1>3, <1>5 DEF Stopped, Moved, Rows, Notes, Checks, Drifted, git, books
  <2>2. QED
    BY <1>6, <2>1
<1>29. CASE CommitAll
  <2>1. /\ UNCHANGED options /\ (head[t] # 0 => head'[t] # 0)
        /\ \A k \in {"push", "review", "remote-block"} : journal'[t][k] = journal[t][k]
        /\ remote'[t] = remote[t] /\ request \subseteq request' /\ late \subseteq late'
    BY <1>29, CommitAllEffect, <1>2, <1>3, <1>5 DEF Stopped, Moved, Rows, Notes, Checks, Drifted, git, books
  <2>2. QED
    BY <1>6, <2>1
<1>30. CASE ConfirmCommit
  <2>1. /\ UNCHANGED options /\ (head[t] # 0 => head'[t] # 0)
        /\ \A k \in {"push", "review", "remote-block"} : journal'[t][k] = journal[t][k]
        /\ remote'[t] = remote[t] /\ request \subseteq request' /\ late \subseteq late'
    BY <1>30, ConfirmCommitEffect, <1>2, <1>3, <1>5 DEF Stopped, Moved, Rows, Notes, Checks, Drifted, git, books
  <2>2. QED
    BY <1>6, <2>1
<1>31. CASE VerifyPublication
  <2>1. CASE t # node
    <3>1. /\ UNCHANGED options /\ (head[t] # 0 => head'[t] # 0)
          /\ \A k \in {"push", "review", "remote-block"} : journal'[t][k] = journal[t][k]
          /\ remote'[t] = remote[t] /\ request \subseteq request' /\ late \subseteq late'
      BY <1>31, VerifyPublicationEffect, <1>2, <1>3, <2>1 DEF Stopped, Moved, Rows, Drifted, git
    <3>2. QED
      BY <1>6, <3>1
  <2>2. CASE t = node
    <3>1. UNCHANGED <<options, head, remote, request, late>>
      BY <1>31, VerifyPublicationEffect DEF git
    <3>2. \A k \in {"review", "remote-block"} : journal'[node][k] = journal[node][k]
      BY <1>31, VerifyPublicationEffect, <1>2, <1>3 DEF Stopped, Moved, Rows, Drifted, Notes, Checks
    <3>3. CASE journal'[node]["push"] = journal[node]["push"]
      BY <1>6, <2>2, <3>1, <3>2, <3>3
    <3>4. CASE journal'[node]["push"] # journal[node]["push"]
      <4>1. /\ head[node] # 0 /\ options.completion = "review"
            /\ journal'[node]["push"].status = "in_progress" /\ Status(node, "push") \in {"none", "in_progress"}
        BY <1>31, VerifyPublicationEffect, <1>2, <1>3, <3>4 DEF Stopped, Moved, Rows, Drifted, Notes, Checks
      <4>2. at = "verify"
        BY <1>31, VerifyPublicationEffect
      <4>3. journal'[node]["remote-block"].status # "none" => Status(node, "review") \in {"failed", "uncertain"}
               \/ Status(node, "push") \in {"failed", "uncertain"}
        BY <1>4, <2>2, <3>2 DEF PushKnown, Status
      <4>5. QED
        BY <1>4, <2>2, <3>1, <3>2, <4>1, <4>3 DEF PushKnown, Status
    <3>5. QED
      BY <3>3, <3>4
  <2>3. QED
    BY <2>1, <2>2
<1>32. CASE Push
  <2>1. CASE t # node
    <3>1. /\ UNCHANGED options /\ (head[t] # 0 => head'[t] # 0)
          /\ \A k \in {"push", "review", "remote-block"} : journal'[t][k] = journal[t][k]
          /\ remote'[t] = remote[t] /\ request \subseteq request' /\ late \subseteq late'
      BY <1>32, PushEffect, <1>2, <1>3, <2>1 DEF Stopped, Moved, Rows, Notes, Drifted, git
    <3>2. QED
      BY <1>6, <3>1
  <2>2. CASE t = node
    <3>1. UNCHANGED <<options, head, request, late>>
      BY <1>32, PushEffect
    <3>2. journal'[node]["review"] = journal[node]["review"]
      BY <1>32, PushEffect, <1>2, <1>3 DEF Stopped, Moved, Rows, Notes
    <3>3. CASE Moved("pushed", {}) /\ remote' = [remote EXCEPT ![node] = head[node]]
      <4>1. \A k \in {"push", "review", "remote-block"} : journal'[node][k] = journal[node][k]
        BY <1>32, PushEffect, <1>3, <3>3 DEF Moved, Rows
      <4>2. remote'[node] = head[node] /\ (journal[node]["push"].intent[1] = head[node] \/ node \in late)
        BY <1>32, PushEffect, <1>1, <1>2, <3>3 DEF Receipts
      <4>3. QED
        BY <1>4, <2>2, <3>1, <4>1, <4>2 DEF PushKnown, Status
    <3>4. CASE journal'[node]["push"].status \in {"failed", "uncertain"}
      <4>1. Status(node, "push") # "none"
        BY <1>32, PushEffect, <1>1 DEF Receipts, Standing
      <4>2. QED
        BY <1>4, <2>2, <3>1, <3>2, <3>4, <4>1 DEF PushKnown, Status
    <3>5. CASE Stopped(Notes)
      <4>1. \A k \in {"push", "review", "remote-block"} : journal'[node][k] = journal[node][k]
        BY <1>32, PushEffect, <1>3, <3>5 DEF Stopped, Rows, Notes
      <4>2. remote'[node] \in {remote[node], head[node]} /\ (journal[node]["push"].intent[1] = head[node] \/ node \in late)
        BY <1>32, PushEffect, <1>1, <1>2 DEF Receipts
      <4>3. QED
        BY <1>4, <2>2, <3>1, <4>1, <4>2 DEF PushKnown, Status
    <3>6. QED
      BY <1>32, PushEffect, <3>3, <3>4, <3>5
  <2>3. QED
    BY <2>1, <2>2
<1>33. CASE ConfirmPush
  <2>1. CASE t # node
    <3>1. /\ UNCHANGED options /\ (head[t] # 0 => head'[t] # 0)
          /\ \A k \in {"push", "review", "remote-block"} : journal'[t][k] = journal[t][k]
          /\ remote'[t] = remote[t] /\ request \subseteq request' /\ late \subseteq late'
      BY <1>33, ConfirmPushEffect, <1>2, <1>3, <2>1 DEF Stopped, Moved, Rows, Drifted, git
    <3>2. QED
      BY <1>6, <3>1
  <2>2. CASE t = node
    <3>1. UNCHANGED <<options, head, remote, request, late>>
      BY <1>33, ConfirmPushEffect DEF git
    <3>2. journal'[node]["remote-block"] = journal[node]["remote-block"]
      BY <1>33, ConfirmPushEffect, <1>2, <1>3 DEF Stopped, Moved, Rows
    <3>3. /\ journal'[node]["push"].status = "confirmed" /\ journal'[node]["push"].intent = journal[node]["push"].intent
          /\ journal[node]["push"].intent[1] = remote[node] \/ node \in late
          /\ Status(node, "push") \in Standing
      BY <1>33, ConfirmPushEffect, <1>1 DEF Receipts
    <3>4. \/ journal'[node]["review"] = journal[node]["review"]
          \/ journal'[node]["review"].status = "confirmed" /\ Status(node, "review") = "confirmed"
          \/ /\ journal'[node]["review"].status = "in_progress" /\ Status(node, "review") \in {"none", "in_progress"}
      BY <1>33, ConfirmPushEffect, <1>2, <1>3 DEF Stopped, Rows
    <3>5. QED
      BY <1>4, <2>2, <3>1, <3>2, <3>3, <3>4 DEF PushKnown, Status, Standing
  <2>3. QED
    BY <2>1, <2>2
<1>34. CASE RequestReview
  <2>1. CASE t # node
    <3>1. /\ UNCHANGED options /\ (head[t] # 0 => head'[t] # 0)
          /\ \A k \in {"push", "review", "remote-block"} : journal'[t][k] = journal[t][k]
          /\ remote'[t] = remote[t] /\ request \subseteq request' /\ late \subseteq late'
      BY <1>34, RequestReviewEffect, <1>2, <1>3, <2>1 DEF Stopped, Moved, Rows, Drifted, git
    <3>2. QED
      BY <1>6, <3>1
  <2>2. CASE t = node
    <3>1. UNCHANGED <<options, head, remote, late>> /\ request \subseteq request'
      BY <1>34, RequestReviewEffect
    <3>2. journal'[node]["push"] = journal[node]["push"]
      BY <1>34, RequestReviewEffect, <1>2, <1>3 DEF Stopped, Moved, Rows, Notes
    <3>3. CASE Moved("requested", {})
      <4>1. \A k \in {"push", "review", "remote-block"} : journal'[node][k] = journal[node][k]
        BY <1>34, RequestReviewEffect, <1>3, <3>3 DEF Moved, Rows
      <4>2. QED
        BY <1>6, <2>2, <3>1, <4>1
    <3>4. CASE journal'[node]["review"].status \in {"failed", "uncertain"}
      <4>1. Status(node, "push") = "confirmed"
        BY <1>34, RequestReviewEffect, <1>1 DEF Receipts
      <4>2. QED
        BY <1>4, <2>2, <3>1, <3>2, <3>4, <4>1 DEF PushKnown, Status
    <3>5. CASE Stopped(Notes)
      <4>1. \A k \in {"push", "review", "remote-block"} : journal'[node][k] = journal[node][k]
        BY <1>34, RequestReviewEffect, <1>3, <3>5 DEF Stopped, Rows, Notes
      <4>2. QED
        BY <1>6, <2>2, <3>1, <4>1
    <3>6. QED
      BY <1>34, RequestReviewEffect, <3>3, <3>4, <3>5
  <2>3. QED
    BY <2>1, <2>2
<1>35. CASE ConfirmReview
  <2>1. CASE t # node
    <3>1. /\ UNCHANGED options /\ (head[t] # 0 => head'[t] # 0)
          /\ \A k \in {"push", "review", "remote-block"} : journal'[t][k] = journal[t][k]
          /\ remote'[t] = remote[t] /\ request \subseteq request' /\ late \subseteq late'
      BY <1>35, ConfirmReviewEffect, <1>2, <1>3, <2>1 DEF Stopped, Moved, Rows, Drifted, git
    <3>2. QED
      BY <1>6, <3>1
  <2>2. CASE t = node
    <3>1. UNCHANGED <<options, head, remote, request, late>>
      BY <1>35, ConfirmReviewEffect DEF git
    <3>2. \A k \in {"push", "remote-block"} : journal'[node][k] = journal[node][k]
      BY <1>35, ConfirmReviewEffect, <1>2, <1>3 DEF Moved, Rows
    <3>3. /\ journal'[node]["review"].status = "confirmed" /\ Status(node, "push") = "confirmed" /\ node \in request
          /\ Status(node, "review") \in Standing
      BY <1>35, ConfirmReviewEffect, <1>1 DEF Receipts
    <3>4. QED
      BY <1>4, <2>2, <3>1, <3>2, <3>3 DEF PushKnown, Status, Standing
  <2>3. QED
    BY <2>1, <2>2
<1>36. CASE PrepareMerge
  <2>1. /\ UNCHANGED options /\ (head[t] # 0 => head'[t] # 0)
        /\ \A k \in {"push", "review", "remote-block"} : journal'[t][k] = journal[t][k]
        /\ remote'[t] = remote[t] /\ request \subseteq request' /\ late \subseteq late'
    BY <1>36, PrepareMergeEffect, <1>2, <1>3, <1>5 DEF Stopped, Moved, Rows, Notes, Checks, Drifted, git, books
  <2>2. QED
    BY <1>6, <2>1
<1>37. CASE ReconcileMerge \/ InspectIndex \/ CheckMerged
  <2>1. /\ UNCHANGED options /\ (head[t] # 0 => head'[t] # 0)
        /\ \A k \in {"push", "review", "remote-block"} : journal'[t][k] = journal[t][k]
        /\ remote'[t] = remote[t] /\ request \subseteq request' /\ late \subseteq late'
    BY <1>37, SurveyEffect, <1>2, <1>3, <1>5 DEF Stopped, Moved, Rows, Notes, Checks, Drifted, git, books
  <2>2. QED
    BY <1>6, <2>1
<1>38. CASE CheckSource
  <2>1. /\ UNCHANGED options /\ (head[t] # 0 => head'[t] # 0)
        /\ \A k \in {"push", "review", "remote-block"} : journal'[t][k] = journal[t][k]
        /\ remote'[t] = remote[t] /\ request \subseteq request' /\ late \subseteq late'
    BY <1>38, CheckSourceEffect, <1>2, <1>3, <1>5 DEF Stopped, Moved, Rows, Notes, Checks, Drifted, git, books
  <2>2. QED
    BY <1>6, <2>1
<1>39. CASE SquashMerge
  <2>1. /\ UNCHANGED options /\ (head[t] # 0 => head'[t] # 0)
        /\ \A k \in {"push", "review", "remote-block"} : journal'[t][k] = journal[t][k]
        /\ remote'[t] = remote[t] /\ request \subseteq request' /\ late \subseteq late'
    BY <1>39, SquashMergeEffect, <1>2, <1>3, <1>5 DEF Stopped, Moved, Rows, Notes, Checks, Drifted, git, books
  <2>2. QED
    BY <1>6, <2>1
<1>40. CASE CommitMerge
  <2>1. /\ UNCHANGED options /\ (head[t] # 0 => head'[t] # 0)
        /\ \A k \in {"push", "review", "remote-block"} : journal'[t][k] = journal[t][k]
        /\ remote'[t] = remote[t] /\ request \subseteq request' /\ late \subseteq late'
    BY <1>40, CommitMergeEffect, <1>2, <1>3, <1>5 DEF Stopped, Moved, Rows, Notes, Checks, Drifted, git, books
  <2>2. QED
    BY <1>6, <2>1
<1>41. CASE ConfirmMerge
  <2>1. /\ UNCHANGED options /\ (head[t] # 0 => head'[t] # 0)
        /\ \A k \in {"push", "review", "remote-block"} : journal'[t][k] = journal[t][k]
        /\ remote'[t] = remote[t] /\ request \subseteq request' /\ late \subseteq late'
    BY <1>41, ConfirmMergeEffect, <1>2, <1>3, <1>5 DEF Stopped, Moved, Rows, Notes, Checks, Drifted, git, books
  <2>2. QED
    BY <1>6, <2>1
<1>42. CASE RemoveMerged
  <2>1. /\ UNCHANGED options /\ (head[t] # 0 => head'[t] # 0)
        /\ \A k \in {"push", "review", "remote-block"} : journal'[t][k] = journal[t][k]
        /\ remote'[t] = remote[t] /\ request \subseteq request' /\ late \subseteq late'
    BY <1>42, RemoveMergedEffect, <1>2, <1>3, <1>5 DEF Stopped, Moved, Rows, Notes, Checks, Drifted, git, books
  <2>2. QED
    BY <1>6, <2>1
<1>43. CASE DeleteBranch
  <2>1. /\ UNCHANGED options /\ (head[t] # 0 => head'[t] # 0)
        /\ \A k \in {"push", "review", "remote-block"} : journal'[t][k] = journal[t][k]
        /\ remote'[t] = remote[t] /\ request \subseteq request' /\ late \subseteq late'
    BY <1>43, DeleteBranchEffect, <1>2, <1>3, <1>5 DEF Stopped, Moved, Rows, Notes, Checks, Drifted, git, books
  <2>2. QED
    BY <1>6, <2>1
<1>44. CASE PlanCompletion
  <2>1. /\ UNCHANGED options /\ (head[t] # 0 => head'[t] # 0)
        /\ \A k \in {"push", "review", "remote-block"} : journal'[t][k] = journal[t][k]
        /\ remote'[t] = remote[t] /\ request \subseteq request' /\ late \subseteq late'
    BY <1>44, PlanCompletionEffect, <1>2, <1>3, <1>5 DEF Stopped, Moved, Rows, Notes, Checks, Drifted, git, books
  <2>2. QED
    BY <1>6, <2>1
<1>45. CASE CompleteTicket
  <2>1. /\ UNCHANGED options /\ (head[t] # 0 => head'[t] # 0)
        /\ \A k \in {"push", "review", "remote-block"} : journal'[t][k] = journal[t][k]
        /\ remote'[t] = remote[t] /\ request \subseteq request' /\ late \subseteq late'
    BY <1>45, CompleteTicketEffect, <1>2, <1>3, <1>5 DEF Stopped, Moved, Rows, Notes, Checks, Drifted, git,
       books
  <2>2. QED
    BY <1>6, <2>1
<1>46. CASE ConfirmCompletion
  <2>1. /\ UNCHANGED options /\ (head[t] # 0 => head'[t] # 0)
        /\ \A k \in {"push", "review", "remote-block"} : journal'[t][k] = journal[t][k]
        /\ remote'[t] = remote[t] /\ request \subseteq request' /\ late \subseteq late'
    BY <1>46, ConfirmCompletionEffect, <1>2, <1>3, <1>5 DEF Stopped, Moved, Rows, Notes, Checks, Drifted, git, books
  <2>2. QED
    BY <1>6, <2>1
<1>47. CASE CompleteQa
  <2>1. /\ UNCHANGED options /\ (head[t] # 0 => head'[t] # 0)
        /\ \A k \in {"push", "review", "remote-block"} : journal'[t][k] = journal[t][k]
        /\ remote'[t] = remote[t] /\ request \subseteq request' /\ late \subseteq late'
    BY <1>47, CompleteQaEffect, <1>2, <1>3, <1>5 DEF Stopped, Moved, Rows, Notes, Checks, Drifted, git, books
  <2>2. QED
    BY <1>6, <2>1
<1>48. CASE CloseSession
  <2>1. /\ UNCHANGED options /\ (head[t] # 0 => head'[t] # 0)
        /\ \A k \in {"push", "review", "remote-block"} : journal'[t][k] = journal[t][k]
        /\ remote'[t] = remote[t] /\ request \subseteq request' /\ late \subseteq late'
    BY <1>48, CloseSessionEffect, <1>2, <1>3, <1>5 DEF Stopped, Moved, Rows, Notes, Checks, Drifted, git, books
  <2>2. QED
    BY <1>6, <2>1
<1>49. CASE RemoveWorktree
  <2>1. /\ UNCHANGED options /\ (head[t] # 0 => head'[t] # 0)
        /\ \A k \in {"push", "review", "remote-block"} : journal'[t][k] = journal[t][k]
        /\ remote'[t] = remote[t] /\ request \subseteq request' /\ late \subseteq late'
    BY <1>49, RemoveWorktreeEffect, <1>2, <1>3, <1>5 DEF Stopped, Moved, Rows, Notes, Checks, Drifted, git,
       books
  <2>2. QED
    BY <1>6, <2>1
<1>50. QED
  BY <1>9, <1>10, <1>11, <1>12, <1>13, <1>14, <1>15, <1>16, <1>17, <1>18, <1>19, <1>20, <1>21, <1>22,
     <1>23, <1>24, <1>25, <1>26, <1>27, <1>28, <1>29, <1>30, <1>31, <1>32, <1>33, <1>34, <1>35, <1>36,
     <1>37, <1>38, <1>39, <1>40, <1>41, <1>42, <1>43, <1>44, <1>45, <1>46, <1>47, <1>48, <1>49, Zenon
     DEF Next, Loop, Build, Finalize, Deliver, Complete, Human

(* A ticket that is done has been delivered.                                    *)
LEMMA DoneNext ==
  ASSUME IInv, [Next]_vars
  PROVE  \A t \in Ticket : DoneWell(t)'
<1> SUFFICES ASSUME NEW t \in Ticket
             PROVE  DoneWell(t)'
  OBVIOUS
<1>1. TypeOK /\ Done /\ Merges /\ Pushes /\ Heads /\ Receipts /\ Closings /\ Contents /\ Untouched
  BY DEF IInv
<1>2. /\ journal \in Journal /\ qa \in [Ticket -> Qas] /\ tracker \in Tracker /\ DOMAIN cert = Ticket
      /\ (at \notin Idle => node \in Ticket)
  BY <1>1 DEF TypeOK
<1>3. {"push", "review", "merge", "complete"} \subseteq Kind
  BY DEF Kind
<1>4. DoneWell(t) /\ MergeKnown(t) /\ PushKnown(t)
  BY <1>1 DEF Done, Merges, Pushes
<1>5. ASSUME UNCHANGED options, \A k \in {"push", "review", "merge", "complete"} : journal'[t][k] = journal[t][k],
             tracker'[t] = "done" => tracker[t] = "done", qa'[t] = qa[t], cert'[t] = cert[t]
      PROVE  DoneWell(t)'
  BY <1>4, <1>5 DEF DoneWell, Delivered, Recorded, Status
<1>6. ASSUME tracker'[t] # "done"
      PROVE  DoneWell(t)'
  BY <1>6 DEF DoneWell
<1>7. CASE UNCHANGED vars
  <2>1. /\ UNCHANGED options /\ (\A k \in {"push", "review", "merge", "complete"} : journal'[t][k] = journal[t][k])
        /\ (tracker'[t] = "done" => tracker[t] = "done") /\ qa'[t] = qa[t] /\ cert'[t] = cert[t]
    BY <1>7, <1>2, <1>3 DEF Stopped, Moved, Marked, Rows, Notes, Tracker, git, books, vars
  <2>2. QED
    BY <1>5, <2>1
<1>8. CASE Start \/ Resume
  <2>1. /\ UNCHANGED options /\ (\A k \in {"push", "review", "merge", "complete"} : journal'[t][k] = journal[t][k])
        /\ (tracker'[t] = "done" => tracker[t] = "done") /\ qa'[t] = qa[t] /\ cert'[t] = cert[t]
    BY <1>8, LaunchEffect, <1>2, <1>3 DEF Stopped, Moved, Marked, Rows, Notes, Tracker, git, books
  <2>2. QED
    BY <1>5, <2>1
<1>9. CASE Finish \/ Crash
  <2>1. /\ UNCHANGED options /\ (\A k \in {"push", "review", "merge", "complete"} : journal'[t][k] = journal[t][k])
        /\ (tracker'[t] = "done" => tracker[t] = "done") /\ qa'[t] = qa[t] /\ cert'[t] = cert[t]
    BY <1>9, HaltEffect, <1>2, <1>3 DEF Stopped, Moved, Marked, Rows, Notes, Tracker, git, books
  <2>2. QED
    BY <1>5, <2>1
<1>10. ASSUME NEW u \in Ticket, PassOver(u)
      PROVE  DoneWell(t)'
  <2>1. /\ UNCHANGED options /\ (\A k \in {"push", "review", "merge", "complete"} : journal'[t][k] = journal[t][k])
        /\ (tracker'[t] = "done" => tracker[t] = "done") /\ qa'[t] = qa[t] /\ cert'[t] = cert[t]
    BY <1>10, <1>2, <1>3 DEF Stopped, Moved, Marked, Rows, Notes, Tracker, git, books, PassOver, Pass,
       Taking, bounds
  <2>2. QED
    BY <1>5, <2>1
<1>11. ASSUME NEW u \in Ticket, RecoverMerge(u)
      PROVE  DoneWell(t)'
  <2>1. /\ UNCHANGED options /\ (\A k \in {"push", "review", "merge", "complete"} : journal'[t][k] = journal[t][k])
        /\ (tracker'[t] = "done" => tracker[t] = "done") /\ qa'[t] = qa[t] /\ cert'[t] = cert[t]
    BY <1>11, <1>2, <1>3 DEF Stopped, Moved, Marked, Rows, Notes, Tracker, git, books, RecoverMerge, Take,
       Taking, MergeOp, bounds
  <2>2. QED
    BY <1>5, <2>1
<1>12. ASSUME NEW u \in Ticket, ContinueTicket(u)
      PROVE  DoneWell(t)'
  <2>1. /\ UNCHANGED options /\ (\A k \in {"push", "review", "merge", "complete"} : journal'[t][k] = journal[t][k])
        /\ (tracker'[t] = "done" => tracker[t] = "done") /\ qa'[t] = qa[t] /\ cert'[t] = cert[t]
    BY <1>12, <1>2, <1>3 DEF Stopped, Moved, Marked, Rows, Notes, Tracker, git, books, ContinueTicket, Take,
       Taking, MergeOp, bounds
  <2>2. QED
    BY <1>5, <2>1
<1>13. ASSUME NEW u \in Ticket, CreateWorktree(u)
      PROVE  DoneWell(t)'
  <2>1. /\ UNCHANGED options /\ (\A k \in {"push", "review", "merge", "complete"} : journal'[t][k] = journal[t][k])
        /\ (tracker'[t] = "done" => tracker[t] = "done") /\ qa'[t] = qa[t] /\ cert'[t] = cert[t]
    BY <1>13, <1>2, <1>3 DEF Stopped, Moved, Marked, Rows, Notes, Tracker, git, books, CreateWorktree, Take,
       Taking, Halt, Forgotten, bounds
  <2>2. QED
    BY <1>5, <2>1
<1>14. ASSUME NEW u \in Ticket, HumanEdits(u)
      PROVE  DoneWell(t)'
  <2>1. /\ UNCHANGED options /\ (\A k \in {"push", "review", "merge", "complete"} : journal'[t][k] = journal[t][k])
        /\ (tracker'[t] = "done" => tracker[t] = "done") /\ qa'[t] = qa[t] /\ cert'[t] = cert[t]
    BY <1>14, <1>2, <1>3 DEF Stopped, Moved, Marked, Rows, Notes, Tracker, git, books, HumanEdits, Touch, plan
  <2>2. QED
    BY <1>5, <2>1
<1>15. ASSUME NEW u \in Ticket, HumanCommits(u)
      PROVE  DoneWell(t)'
  <2>1. /\ UNCHANGED options /\ (\A k \in {"push", "review", "merge", "complete"} : journal'[t][k] = journal[t][k])
        /\ (tracker'[t] = "done" => tracker[t] = "done") /\ qa'[t] = qa[t] /\ cert'[t] = cert[t]
    BY <1>15, <1>2, <1>3 DEF Stopped, Moved, Marked, Rows, Notes, Tracker, git, books, HumanCommits, Touch,
       Dirty, plan
  <2>2. QED
    BY <1>5, <2>1
<1>16. CASE OpenTicket
  <2>1. /\ UNCHANGED options /\ (\A k \in {"push", "review", "merge", "complete"} : journal'[t][k] = journal[t][k])
        /\ (tracker'[t] = "done" => tracker[t] = "done") /\ qa'[t] = qa[t] /\ cert'[t] = cert[t]
    BY <1>16, <1>2, <1>3 DEF Stopped, Moved, Marked, Rows, Notes, Tracker, git, books, OpenTicket, Goto,
       plan, bounds
  <2>2. QED
    BY <1>5, <2>1
<1>17. CASE BuilderEdits
  <2>1. /\ UNCHANGED options /\ (\A k \in {"push", "review", "merge", "complete"} : journal'[t][k] = journal[t][k])
        /\ (tracker'[t] = "done" => tracker[t] = "done") /\ qa'[t] = qa[t] /\ cert'[t] = cert[t]
    BY <1>17, <1>2, <1>3 DEF Stopped, Moved, Marked, Rows, Notes, Tracker, git, books, BuilderEdits, bounds,
       plan
  <2>2. QED
    BY <1>5, <2>1
<1>18. CASE PassQa
  <2>1. CASE t # node
    <3>1. /\ UNCHANGED options /\ (\A k \in {"push", "review", "merge", "complete"} : journal'[t][k] = journal[t][k])
          /\ (tracker'[t] = "done" => tracker[t] = "done") /\ qa'[t] = qa[t] /\ cert'[t] = cert[t]
      BY <1>18, <1>2, <1>3, <2>1 DEF Stopped, Moved, Marked, Rows, Drifted, Tracker, git, books, PassQa,
         Goto, plan, bounds, Digest
    <3>2. QED
      BY <1>5, <3>1
  <2>2. CASE t = node
    <3>1. tracker[node] # "done" /\ node \in Ticket
      BY <1>18, <1>1, <1>2 DEF Heads, Closings, Building, Idle, PassQa, Goto, plan, bounds, Digest, Completing
    <3>2. tracker'[node] # "done"
      BY <1>18, <3>1 DEF Stopped, Moved, Marked, Drifted, PassQa, Goto, plan, bounds, Digest
    <3>3. QED
      BY <1>6, <2>2, <3>2
  <2>3. QED
    BY <2>1, <2>2
<1>19. CASE WaiveQa
  <2>1. CASE t # node
    <3>1. /\ UNCHANGED options /\ (\A k \in {"push", "review", "merge", "complete"} : journal'[t][k] = journal[t][k])
          /\ (tracker'[t] = "done" => tracker[t] = "done") /\ qa'[t] = qa[t] /\ cert'[t] = cert[t]
      BY <1>19, <1>2, <1>3, <2>1 DEF Stopped, Moved, Marked, Rows, Drifted, Tracker, git, books, WaiveQa,
         Goto, plan, bounds
    <3>2. QED
      BY <1>5, <3>1
  <2>2. CASE t = node
    <3>1. tracker[node] # "done" /\ node \in Ticket
      BY <1>19, <1>1, <1>2 DEF Heads, Closings, Building, Idle, WaiveQa, Goto, plan, bounds, Completing
    <3>2. tracker'[node] # "done"
      BY <1>19, <3>1 DEF Stopped, Moved, Marked, Drifted, WaiveQa, Goto, plan, bounds
    <3>3. QED
      BY <1>6, <2>2, <3>2
  <2>3. QED
    BY <2>1, <2>2
<1>20. CASE HumanCommitsBase
  <2>1. /\ UNCHANGED options /\ (\A k \in {"push", "review", "merge", "complete"} : journal'[t][k] = journal[t][k])
        /\ (tracker'[t] = "done" => tracker[t] = "done") /\ qa'[t] = qa[t] /\ cert'[t] = cert[t]
    BY <1>20, <1>2, <1>3 DEF Stopped, Moved, Marked, Rows, Notes, Tracker, git, books, HumanCommitsBase,
       Touch, plan
  <2>2. QED
    BY <1>5, <2>1
<1>21. ASSUME NEW how \in {"done", "blocked", "error"}, BuilderEnds(how)
      PROVE  DoneWell(t)'
  <2>1. /\ UNCHANGED options /\ (\A k \in {"push", "review", "merge", "complete"} : journal'[t][k] = journal[t][k])
        /\ (tracker'[t] = "done" => tracker[t] = "done") /\ qa'[t] = qa[t] /\ cert'[t] = cert[t]
    BY <1>21, BuilderEndsEffect, <1>2, <1>3 DEF Stopped, Moved, Marked, Rows, Notes, Tracker, git, books
  <2>2. QED
    BY <1>5, <2>1
<1>22. CASE BeginQa
  <2>1. CASE t # node
    <3>1. /\ UNCHANGED options /\ (\A k \in {"push", "review", "merge", "complete"} : journal'[t][k] = journal[t][k])
          /\ (tracker'[t] = "done" => tracker[t] = "done") /\ qa'[t] = qa[t] /\ cert'[t] = cert[t]
      BY <1>22, BeginQaEffect, <1>2, <1>3, <2>1 DEF Stopped, Moved, Marked, Rows, Drifted, Tracker, git, books
    <3>2. QED
      BY <1>5, <3>1
  <2>2. CASE t = node
    <3>1. tracker[node] # "done" /\ node \in Ticket
      BY <1>22, BeginQaEffect, <1>1, <1>2 DEF Heads, Closings, Building, Idle, Completing
    <3>2. tracker'[node] # "done"
      BY <1>22, BeginQaEffect, <3>1 DEF Stopped, Moved, Marked, Drifted
    <3>3. QED
      BY <1>6, <2>2, <3>2
  <2>3. QED
    BY <2>1, <2>2
<1>23. CASE QaBlocks
  <2>1. /\ UNCHANGED options /\ (\A k \in {"push", "review", "merge", "complete"} : journal'[t][k] = journal[t][k])
        /\ (tracker'[t] = "done" => tracker[t] = "done") /\ qa'[t] = qa[t] /\ cert'[t] = cert[t]
    BY <1>23, QaBlocksEffect, <1>2, <1>3 DEF Stopped, Moved, Marked, Rows, Notes, Tracker, git, books
  <2>2. QED
    BY <1>5, <2>1
<1>24. CASE BeginFinalization
  <2>1. CASE t # node
    <3>1. /\ UNCHANGED options /\ (\A k \in {"push", "review", "merge", "complete"} : journal'[t][k] = journal[t][k])
          /\ (tracker'[t] = "done" => tracker[t] = "done") /\ qa'[t] = qa[t] /\ cert'[t] = cert[t]
      BY <1>24, BeginFinalizationEffect, <1>2, <1>3, <2>1 DEF Stopped, Moved, Marked, Rows, Drifted, Tracker,
         git, books
    <3>2. QED
      BY <1>5, <3>1
  <2>2. CASE t = node
    <3>1. tracker[node] # "done" /\ node \in Ticket
      BY <1>24, BeginFinalizationEffect, <1>1, <1>2 DEF Heads, Closings, Building, Idle, Completing
    <3>2. tracker'[node] # "done"
      BY <1>24, BeginFinalizationEffect, <3>1 DEF Stopped, Moved, Marked, Drifted
    <3>3. QED
      BY <1>6, <2>2, <3>2
  <2>3. QED
    BY <2>1, <2>2
<1>25. CASE ResumeFinalization
  <2>1. CASE t # node
    <3>1. /\ UNCHANGED options /\ (\A k \in {"push", "review", "merge", "complete"} : journal'[t][k] = journal[t][k])
          /\ (tracker'[t] = "done" => tracker[t] = "done") /\ qa'[t] = qa[t] /\ cert'[t] = cert[t]
      BY <1>25, ResumeFinalizationEffect, <1>2, <1>3, <2>1 DEF Stopped, Moved, Marked, Rows, Drifted,
         Tracker, git, books
    <3>2. QED
      BY <1>5, <3>1
  <2>2. CASE t = node
    <3>1. UNCHANGED <<options, cert>>
      BY <1>25, ResumeFinalizationEffect
    <3>2. CASE Stopped(Checks) /\ ~ Publishing(node) /\ journal[node]["merge"].status = "none"
      <4>1. tracker[node] # "done"
        BY <1>4, <2>2, <3>2 DEF DoneWell, Recorded, Publishing, OpenStates, Status, Standing
      <4>2. tracker'[node] # "done"
        BY <1>2, <2>2, <3>2, <4>1 DEF Stopped, Marked
      <4>3. QED
        BY <1>6, <2>2, <4>2
    <3>3. CASE (Stopped(Notes) \/ Moved("commit", {})) /\ qa' = qa
      <4>1. /\ UNCHANGED options /\ (\A k \in {"push", "review", "merge", "complete"} : journal'[t][k] = journal[t][k])
            /\ (tracker'[t] = "done" => tracker[t] = "done") /\ qa'[t] = qa[t] /\ cert'[t] = cert[t]
        BY <1>25, <1>2, <1>3, <2>2, <3>1, <3>3 DEF Stopped, Moved, Marked, Rows, Notes, Tracker
      <4>2. QED
        BY <1>5, <4>1
    <3>4. QED
      BY <1>25, ResumeFinalizationEffect, <3>2, <3>3 DEF Drifted
  <2>3. QED
    BY <2>1, <2>2
<1>26. CASE PlanCommit
  <2>1. CASE t # node
    <3>1. /\ UNCHANGED options /\ (\A k \in {"push", "review", "merge", "complete"} : journal'[t][k] = journal[t][k])
          /\ (tracker'[t] = "done" => tracker[t] = "done") /\ qa'[t] = qa[t] /\ cert'[t] = cert[t]
      BY <1>26, PlanCommitEffect, <1>2, <1>3, <2>1 DEF Stopped, Moved, Marked, Rows, Drifted, Tracker, git,
         books
    <3>2. QED
      BY <1>5, <3>1
  <2>2. CASE t = node
    <3>1. UNCHANGED <<options, cert>>
      BY <1>26, PlanCommitEffect
    <3>2. CASE Stopped(Checks) /\ ~ Publishing(node) /\ journal[node]["merge"].status = "none"
      <4>1. tracker[node] # "done"
        BY <1>4, <2>2, <3>2 DEF DoneWell, Recorded, Publishing, OpenStates, Status, Standing
      <4>2. tracker'[node] # "done"
        BY <1>2, <2>2, <3>2, <4>1 DEF Stopped, Marked
      <4>3. QED
        BY <1>6, <2>2, <4>2
    <3>3. CASE (Stopped(Notes) \/ Moved("verify", {}) \/ Moved("committing", {"commit"})) /\ qa' = qa
      <4>1. /\ UNCHANGED options /\ (\A k \in {"push", "review", "merge", "complete"} : journal'[t][k] = journal[t][k])
            /\ (tracker'[t] = "done" => tracker[t] = "done") /\ qa'[t] = qa[t] /\ cert'[t] = cert[t]
        BY <1>26, <1>2, <1>3, <2>2, <3>1, <3>3 DEF Stopped, Moved, Marked, Rows, Notes, Tracker
      <4>2. QED
        BY <1>5, <4>1
    <3>4. QED
      BY <1>26, PlanCommitEffect, <3>2, <3>3 DEF Drifted
  <2>3. QED
    BY <2>1, <2>2
<1>27. CASE CommitAll
  <2>1. /\ UNCHANGED options /\ (\A k \in {"push", "review", "merge", "complete"} : journal'[t][k] = journal[t][k])
        /\ (tracker'[t] = "done" => tracker[t] = "done") /\ qa'[t] = qa[t] /\ cert'[t] = cert[t]
    BY <1>27, CommitAllEffect, <1>2, <1>3 DEF Stopped, Moved, Marked, Rows, Notes, Tracker, git, books
  <2>2. QED
    BY <1>5, <2>1
<1>28. CASE ConfirmCommit
  <2>1. /\ UNCHANGED options /\ (\A k \in {"push", "review", "merge", "complete"} : journal'[t][k] = journal[t][k])
        /\ (tracker'[t] = "done" => tracker[t] = "done") /\ qa'[t] = qa[t] /\ cert'[t] = cert[t]
    BY <1>28, ConfirmCommitEffect, <1>2, <1>3 DEF Stopped, Moved, Marked, Rows, Notes, Tracker, git, books
  <2>2. QED
    BY <1>5, <2>1
<1>29. CASE VerifyPublication
  <2>1. CASE t # node
    <3>1. /\ UNCHANGED options /\ (\A k \in {"push", "review", "merge", "complete"} : journal'[t][k] = journal[t][k])
          /\ (tracker'[t] = "done" => tracker[t] = "done") /\ qa'[t] = qa[t] /\ cert'[t] = cert[t]
      BY <1>29, VerifyPublicationEffect, <1>2, <1>3, <2>1 DEF Stopped, Moved, Marked, Rows, Drifted, Tracker,
         git, books
    <3>2. QED
      BY <1>5, <3>1
  <2>2. CASE t = node
    <3>1. UNCHANGED <<options, cert>>
      BY <1>29, VerifyPublicationEffect
    <3>2. CASE Stopped(Checks) /\ ~ Publishing(node) /\ journal[node]["merge"].status = "none"
      <4>1. tracker[node] # "done"
        BY <1>4, <2>2, <3>2 DEF DoneWell, Recorded, Publishing, OpenStates, Status, Standing
      <4>2. tracker'[node] # "done"
        BY <1>2, <2>2, <3>2, <4>1 DEF Stopped, Marked
      <4>3. QED
        BY <1>6, <2>2, <4>2
    <3>3. CASE (Stopped(Notes) \/ Moved("complete", {}) \/ Moved("merge", {})) /\ qa' = qa
      <4>1. /\ UNCHANGED options /\ (\A k \in {"push", "review", "merge", "complete"} : journal'[t][k] = journal[t][k])
            /\ (tracker'[t] = "done" => tracker[t] = "done") /\ qa'[t] = qa[t] /\ cert'[t] = cert[t]
        BY <1>29, <1>2, <1>3, <2>2, <3>1, <3>3 DEF Stopped, Moved, Marked, Rows, Notes, Tracker
      <4>2. QED
        BY <1>5, <4>1
    <3>4. CASE /\ qa' = qa /\ (Bound => Matches(node, TRUE)) /\ Moved("pushing", {"push"})
               /\ head[node] # 0 /\ options.completion = "review"
               /\ journal'[node]["push"].status = "in_progress" /\ Status(node, "push") \in {"none", "in_progress"}
      <4>1. ASSUME tracker[node] = "done" PROVE FALSE
        <5>1. qa[node] = "finalizing" /\ node \in Ticket
          BY <1>29, VerifyPublicationEffect, <1>1, <4>1 DEF Closings, Idle, Completing
        <5>2. options.qa /\ Bound
          BY <1>1, <5>1 DEF Untouched, Beginning, Bound
        <5>3. Status(node, "push") = "none" /\ Status(node, "merge") = "none"
          BY <1>4, <2>2, <3>4, <4>1 DEF DoneWell, Delivered, MergeKnown, Standing
        <5>4. cert[node].tree = 0
          BY <1>4, <2>2, <3>4, <4>1, <5>1, <5>3 DEF DoneWell, Delivered
        <5>5. tree[node] = cert[node].tree
          BY <3>4, <5>2 DEF Matches, Digest
        <5>6. head[node] <= tree[node] /\ head[node] \in Nat /\ tree[node] \in Nat
          BY <1>1, <5>1 DEF Contents, Grown, TypeOK
        <5>7. QED
          BY <3>4, <5>4, <5>5, <5>6
      <4>2. tracker'[node] # "done"
        BY <3>4, <4>1 DEF Moved
      <4>3. QED
        BY <1>6, <2>2, <4>2
    <3>5. CASE /\ qa' = qa /\ Moved("pushing", {"push"}) /\ journal'[node]["push"] = journal[node]["push"]
      <4>1. /\ UNCHANGED options /\ (\A k \in {"push", "review", "merge", "complete"} : journal'[t][k] = journal[t][k])
            /\ (tracker'[t] = "done" => tracker[t] = "done") /\ qa'[t] = qa[t] /\ cert'[t] = cert[t]
        BY <1>3, <2>2, <3>1, <3>5 DEF Moved, Rows
      <4>2. QED
        BY <1>5, <4>1
    <3>6. QED
      BY <1>29, VerifyPublicationEffect, <3>2, <3>3, <3>4, <3>5 DEF Drifted
  <2>3. QED
    BY <2>1, <2>2
<1>30. CASE Push
  <2>1. CASE t # node
    <3>1. /\ UNCHANGED options /\ (\A k \in {"push", "review", "merge", "complete"} : journal'[t][k] = journal[t][k])
          /\ (tracker'[t] = "done" => tracker[t] = "done") /\ qa'[t] = qa[t] /\ cert'[t] = cert[t]
      BY <1>30, PushEffect, <1>2, <1>3, <2>1 DEF Stopped, Moved, Marked, Rows, Drifted, Tracker, git, books
    <3>2. QED
      BY <1>5, <3>1
  <2>2. CASE t = node
    <3>1. UNCHANGED <<options, cert, qa>>
      BY <1>30, PushEffect
    <3>2. CASE Moved("pushed", {}) \/ Stopped(Notes)
      <4>1. /\ UNCHANGED options /\ (\A k \in {"push", "review", "merge", "complete"} : journal'[t][k] = journal[t][k])
            /\ (tracker'[t] = "done" => tracker[t] = "done") /\ qa'[t] = qa[t] /\ cert'[t] = cert[t]
        BY <1>30, <1>2, <1>3, <2>2, <3>1, <3>2 DEF Stopped, Moved, Marked, Rows, Notes, Tracker
      <4>2. QED
        BY <1>5, <4>1
    <3>3. CASE /\ Stopped({"push", "remote-block", "runtime-block"})
               /\ Status(node, "remote-block") = "none" => tracker'[node] = "blocked"
      <4>1. tracker[node] = "done" => Status(node, "remote-block") = "none"
        BY <1>1, <1>4, <2>2, <1>30, PushEffect DEF DoneWell, Delivered, PushKnown, Receipts, Standing
      <4>2. tracker'[node] # "done"
        BY <1>2, <1>30, PushEffect, <3>3, <4>1 DEF Stopped, Marked
      <4>3. QED
        BY <1>6, <2>2, <4>2
    <3>4. QED
      BY <1>30, PushEffect, <3>2, <3>3
  <2>3. QED
    BY <2>1, <2>2
<1>31. CASE ConfirmPush
  <2>1. CASE t # node
    <3>1. /\ UNCHANGED options /\ (\A k \in {"push", "review", "merge", "complete"} : journal'[t][k] = journal[t][k])
          /\ (tracker'[t] = "done" => tracker[t] = "done") /\ qa'[t] = qa[t] /\ cert'[t] = cert[t]
      BY <1>31, ConfirmPushEffect, <1>2, <1>3, <2>1 DEF Stopped, Moved, Marked, Rows, Drifted, Tracker, git,
         books
    <3>2. QED
      BY <1>5, <3>1
  <2>2. CASE t = node
    <3>1. UNCHANGED <<options, cert, qa>>
      BY <1>31, ConfirmPushEffect
    <3>2. \A k \in {"merge", "complete"} : journal'[node][k] = journal[node][k]
      BY <1>31, ConfirmPushEffect, <1>2, <1>3 DEF Stopped, Moved, Rows
    <3>3. tracker'[node] = "done" => tracker[node] = "done"
      BY <1>31, ConfirmPushEffect DEF Stopped, Moved, Marked
    <3>4. Status(node, "push") \in Standing
      BY <1>31, ConfirmPushEffect, <1>1 DEF Receipts
    <3>5. tracker[node] = "done" => Status(node, "push") = "confirmed" /\ Status(node, "review") = "confirmed"
      BY <1>4, <2>2, <3>4 DEF DoneWell, Delivered, Standing
    <3>6. journal'[node]["push"].status = "confirmed"
      BY <1>31, ConfirmPushEffect
    <3>7. tracker[node] = "done" => journal'[node]["review"].status = "confirmed"
      <4>1. CASE Stopped({"push", "runtime-block"})
        BY <1>2, <1>3, <3>5, <4>1, <1>31, ConfirmPushEffect DEF Stopped, Rows, Status
      <4>2. CASE ~ Stopped({"push", "runtime-block"})
        BY <3>5, <4>2, <1>31, ConfirmPushEffect
      <4>3. QED
        BY <4>1, <4>2
    <3>8. QED
      BY <1>4, <2>2, <3>1, <3>2, <3>3, <3>5, <3>6, <3>7 DEF DoneWell, Delivered, Recorded, Status
  <2>3. QED
    BY <2>1, <2>2
<1>32. CASE RequestReview
  <2>1. CASE t # node
    <3>1. /\ UNCHANGED options /\ (\A k \in {"push", "review", "merge", "complete"} : journal'[t][k] = journal[t][k])
          /\ (tracker'[t] = "done" => tracker[t] = "done") /\ qa'[t] = qa[t] /\ cert'[t] = cert[t]
      BY <1>32, RequestReviewEffect, <1>2, <1>3, <2>1 DEF Stopped, Moved, Marked, Rows, Drifted, Tracker,
         git, books
    <3>2. QED
      BY <1>5, <3>1
  <2>2. CASE t = node
    <3>1. UNCHANGED <<options, cert, qa>>
      BY <1>32, RequestReviewEffect
    <3>2. CASE Moved("requested", {}) \/ Stopped(Notes)
      <4>1. /\ UNCHANGED options /\ (\A k \in {"push", "review", "merge", "complete"} : journal'[t][k] = journal[t][k])
            /\ (tracker'[t] = "done" => tracker[t] = "done") /\ qa'[t] = qa[t] /\ cert'[t] = cert[t]
        BY <1>32, <1>2, <1>3, <2>2, <3>1, <3>2 DEF Stopped, Moved, Marked, Rows, Notes, Tracker
      <4>2. QED
        BY <1>5, <4>1
    <3>3. CASE /\ Stopped({"review", "remote-block", "runtime-block"})
               /\ Status(node, "remote-block") = "none" => tracker'[node] = "blocked"
      <4>1. tracker[node] = "done" => Status(node, "remote-block") = "none"
        BY <1>1, <1>4, <2>2, <1>32, RequestReviewEffect DEF DoneWell, Delivered, PushKnown, Receipts, Standing
      <4>2. tracker'[node] # "done"
        BY <1>2, <1>32, RequestReviewEffect, <3>3, <4>1 DEF Stopped, Marked
      <4>3. QED
        BY <1>6, <2>2, <4>2
    <3>4. QED
      BY <1>32, RequestReviewEffect, <3>2, <3>3
  <2>3. QED
    BY <2>1, <2>2
<1>33. CASE ConfirmReview
  <2>1. CASE t # node
    <3>1. /\ UNCHANGED options /\ (\A k \in {"push", "review", "merge", "complete"} : journal'[t][k] = journal[t][k])
          /\ (tracker'[t] = "done" => tracker[t] = "done") /\ qa'[t] = qa[t] /\ cert'[t] = cert[t]
      BY <1>33, ConfirmReviewEffect, <1>2, <1>3, <2>1 DEF Stopped, Moved, Marked, Rows, Drifted, Tracker,
         git, books
    <3>2. QED
      BY <1>5, <3>1
  <2>2. CASE t = node
    <3>1. UNCHANGED <<options, cert, qa, tracker>>
      BY <1>33, ConfirmReviewEffect DEF Moved
    <3>2. \A k \in {"push", "merge", "complete"} : journal'[node][k] = journal[node][k]
      BY <1>33, ConfirmReviewEffect, <1>2, <1>3 DEF Moved, Rows
    <3>3. journal'[node]["review"].status = "confirmed" /\ Status(node, "push") = "confirmed"
      BY <1>33, ConfirmReviewEffect, <1>1 DEF Receipts
    <3>4. QED
      BY <1>4, <2>2, <3>1, <3>2, <3>3 DEF DoneWell, Delivered, Recorded, Status
  <2>3. QED
    BY <2>1, <2>2
<1>34. CASE PrepareMerge
  <2>1. CASE t # node
    <3>1. /\ UNCHANGED options /\ (\A k \in {"push", "review", "merge", "complete"} : journal'[t][k] = journal[t][k])
          /\ (tracker'[t] = "done" => tracker[t] = "done") /\ qa'[t] = qa[t] /\ cert'[t] = cert[t]
      BY <1>34, PrepareMergeEffect, <1>2, <1>3, <2>1 DEF Stopped, Moved, Marked, Rows, Drifted, Tracker, git,
         books
    <3>2. QED
      BY <1>5, <3>1
  <2>2. CASE t = node
    <3>1. UNCHANGED <<options, cert, qa>>
      BY <1>34, PrepareMergeEffect
    <3>2. CASE Stopped(Notes)
      <4>1. /\ UNCHANGED options /\ (\A k \in {"push", "review", "merge", "complete"} : journal'[t][k] = journal[t][k])
            /\ (tracker'[t] = "done" => tracker[t] = "done") /\ qa'[t] = qa[t] /\ cert'[t] = cert[t]
        BY <1>34, <1>2, <1>3, <2>2, <3>1, <3>2 DEF Stopped, Moved, Marked, Rows, Notes, Tracker
      <4>2. QED
        BY <1>5, <4>1
    <3>3. CASE Moved("merging", {"merge"})
      <4>1. \A k \in {"push", "review", "complete"} : journal'[node][k] = journal[node][k]
        BY <1>2, <1>3, <1>34, PrepareMergeEffect, <3>3 DEF Moved, Rows
      <4>2. tracker'[node] = tracker[node] /\ (tracker[node] = "done" => Status(node, "merge") = "confirmed")
        BY <1>34, PrepareMergeEffect, <1>1, <3>3 DEF Moved, Closings
      <4>3. CASE journal'[node]["merge"].status = Status(node, "merge")
        BY <1>4, <2>2, <3>1, <4>1, <4>2, <4>3 DEF DoneWell, Delivered, Recorded, Status
      <4>4. CASE Status(node, "merge") = "none"
        BY <1>6, <2>2, <4>2, <4>4
      <4>5. CASE Stopped(Notes)
        BY <3>2, <4>5
      <4>6. QED
        BY <1>34, PrepareMergeEffect, <4>3, <4>4, <4>5
    <3>4. QED
      BY <1>34, PrepareMergeEffect, <3>2, <3>3
  <2>3. QED
    BY <2>1, <2>2
<1>35. CASE ReconcileMerge \/ InspectIndex \/ CheckMerged
  <2>1. /\ UNCHANGED options /\ (\A k \in {"push", "review", "merge", "complete"} : journal'[t][k] = journal[t][k])
        /\ (tracker'[t] = "done" => tracker[t] = "done") /\ qa'[t] = qa[t] /\ cert'[t] = cert[t]
    BY <1>35, SurveyEffect, <1>2, <1>3 DEF Stopped, Moved, Marked, Rows, Notes, Tracker, git, books
  <2>2. QED
    BY <1>5, <2>1
<1>36. CASE CheckSource
  <2>1. CASE t # node
    <3>1. /\ UNCHANGED options /\ (\A k \in {"push", "review", "merge", "complete"} : journal'[t][k] = journal[t][k])
          /\ (tracker'[t] = "done" => tracker[t] = "done") /\ qa'[t] = qa[t] /\ cert'[t] = cert[t]
      BY <1>36, CheckSourceEffect, <1>2, <1>3, <2>1 DEF Stopped, Moved, Marked, Rows, Drifted, Tracker, git,
         books
    <3>2. QED
      BY <1>5, <3>1
  <2>2. CASE t = node
    <3>1. UNCHANGED <<options, cert>>
      BY <1>36, CheckSourceEffect
    <3>2. CASE (Stopped(Notes) \/ Moved("staging", {})) /\ qa' = qa
      <4>1. /\ UNCHANGED options /\ (\A k \in {"push", "review", "merge", "complete"} : journal'[t][k] = journal[t][k])
            /\ (tracker'[t] = "done" => tracker[t] = "done") /\ qa'[t] = qa[t] /\ cert'[t] = cert[t]
        BY <1>36, <1>2, <1>3, <2>2, <3>1, <3>2 DEF Stopped, Moved, Marked, Rows, Notes, Tracker
      <4>2. QED
        BY <1>5, <4>1
    <3>3. CASE Stopped(Checks) /\ Len(base) = Frozen(node) /\ Status(node, "complete") \notin Standing
      <4>0. Len(base) \in Nat
        BY <1>1, Lengths
      <4>1. tracker[node] # "done"
        BY <1>4, <2>2, <3>3, <4>0 DEF DoneWell, Recorded, MergeKnown
      <4>2. tracker'[node] # "done"
        BY <1>2, <2>2, <3>3, <4>1 DEF Stopped, Marked
      <4>3. QED
        BY <1>6, <2>2, <4>2
    <3>4. QED
      BY <1>36, CheckSourceEffect, <3>2, <3>3
  <2>3. QED
    BY <2>1, <2>2
<1>37. CASE SquashMerge
  <2>1. /\ UNCHANGED options /\ (\A k \in {"push", "review", "merge", "complete"} : journal'[t][k] = journal[t][k])
        /\ (tracker'[t] = "done" => tracker[t] = "done") /\ qa'[t] = qa[t] /\ cert'[t] = cert[t]
    BY <1>37, SquashMergeEffect, <1>2, <1>3 DEF Stopped, Moved, Marked, Rows, Notes, Tracker, git, books
  <2>2. QED
    BY <1>5, <2>1
<1>38. CASE CommitMerge
  <2>1. /\ UNCHANGED options /\ (\A k \in {"push", "review", "merge", "complete"} : journal'[t][k] = journal[t][k])
        /\ (tracker'[t] = "done" => tracker[t] = "done") /\ qa'[t] = qa[t] /\ cert'[t] = cert[t]
    BY <1>38, CommitMergeEffect, <1>2, <1>3 DEF Stopped, Moved, Marked, Rows, Notes, Tracker, git, books
  <2>2. QED
    BY <1>5, <2>1
<1>39. CASE ConfirmMerge
  <2>1. CASE t # node
    <3>1. /\ UNCHANGED options /\ (\A k \in {"push", "review", "merge", "complete"} : journal'[t][k] = journal[t][k])
          /\ (tracker'[t] = "done" => tracker[t] = "done") /\ qa'[t] = qa[t] /\ cert'[t] = cert[t]
      BY <1>39, ConfirmMergeEffect, <1>2, <1>3, <2>1 DEF Stopped, Moved, Marked, Rows, Drifted, Tracker, git,
         books
    <3>2. QED
      BY <1>5, <3>1
  <2>2. CASE t = node
    <3>1. UNCHANGED <<options, cert, qa>>
      BY <1>39, ConfirmMergeEffect
    <3>2. CASE Stopped(Notes)
      <4>1. /\ UNCHANGED options /\ (\A k \in {"push", "review", "merge", "complete"} : journal'[t][k] = journal[t][k])
            /\ (tracker'[t] = "done" => tracker[t] = "done") /\ qa'[t] = qa[t] /\ cert'[t] = cert[t]
        BY <1>39, <1>2, <1>3, <2>2, <3>1, <3>2 DEF Stopped, Moved, Marked, Rows, Notes, Tracker
      <4>2. QED
        BY <1>5, <4>1
    <3>3. CASE Moved("cleanup", {"merge"}) /\ journal'[node]["merge"].status = "confirmed"
      <4>1. \A k \in {"push", "review", "complete"} : journal'[node][k] = journal[node][k]
        BY <1>2, <1>3, <1>39, ConfirmMergeEffect, <3>3 DEF Moved, Rows
      <4>2. tracker'[node] = tracker[node] /\ Status(node, "merge") # "none"
        BY <1>39, ConfirmMergeEffect, <1>1, <3>3 DEF Moved, Closings, Standings, Standing
      <4>3. QED
        BY <1>4, <2>2, <3>1, <3>3, <4>1, <4>2 DEF DoneWell, Delivered, Recorded, Status
    <3>4. QED
      BY <1>39, ConfirmMergeEffect, <3>2, <3>3
  <2>3. QED
    BY <2>1, <2>2
<1>40. CASE RemoveMerged
  <2>1. /\ UNCHANGED options /\ (\A k \in {"push", "review", "merge", "complete"} : journal'[t][k] = journal[t][k])
        /\ (tracker'[t] = "done" => tracker[t] = "done") /\ qa'[t] = qa[t] /\ cert'[t] = cert[t]
    BY <1>40, RemoveMergedEffect, <1>2, <1>3 DEF Stopped, Moved, Marked, Rows, Notes, Tracker, git, books
  <2>2. QED
    BY <1>5, <2>1
<1>41. CASE DeleteBranch
  <2>1. /\ UNCHANGED options /\ (\A k \in {"push", "review", "merge", "complete"} : journal'[t][k] = journal[t][k])
        /\ (tracker'[t] = "done" => tracker[t] = "done") /\ qa'[t] = qa[t] /\ cert'[t] = cert[t]
    BY <1>41, DeleteBranchEffect, <1>2, <1>3 DEF Stopped, Moved, Marked, Rows, Notes, Tracker, git, books
  <2>2. QED
    BY <1>5, <2>1
<1>42. CASE PlanCompletion
  <2>1. CASE t # node
    <3>1. /\ UNCHANGED options /\ (\A k \in {"push", "review", "merge", "complete"} : journal'[t][k] = journal[t][k])
          /\ (tracker'[t] = "done" => tracker[t] = "done") /\ qa'[t] = qa[t] /\ cert'[t] = cert[t]
      BY <1>42, PlanCompletionEffect, <1>2, <1>3, <2>1 DEF Moved, Rows
    <3>2. QED
      BY <1>5, <3>1
  <2>2. CASE t = node
    <3>1. UNCHANGED <<options, cert, qa, tracker>>
      BY <1>42, PlanCompletionEffect DEF Moved
    <3>2. \A k \in {"push", "review", "merge"} : journal'[node][k] = journal[node][k]
      BY <1>42, PlanCompletionEffect, <1>3 DEF Moved, Rows
    <3>3. journal'[node]["complete"].status \in Standing
      BY <1>42, PlanCompletionEffect DEF Standing
    <3>4. QED
      BY <1>4, <2>2, <3>1, <3>2, <3>3 DEF DoneWell, Delivered, Recorded, Status
  <2>3. QED
    BY <2>1, <2>2
<1>43. CASE CompleteTicket
  <2>1. CASE t # node
    <3>1. /\ UNCHANGED options /\ (\A k \in {"push", "review", "merge", "complete"} : journal'[t][k] = journal[t][k])
          /\ (tracker'[t] = "done" => tracker[t] = "done") /\ qa'[t] = qa[t] /\ cert'[t] = cert[t]
      BY <1>43, CompleteTicketEffect, <1>2, <1>3, <2>1 DEF Stopped, Moved, Marked, Rows, Drifted, Tracker,
         git, books
    <3>2. QED
      BY <1>5, <3>1
  <2>2. CASE t = node
    <3>1. UNCHANGED <<options, cert, qa>>
      BY <1>43, CompleteTicketEffect
    <3>2. \A k \in {"push", "review", "merge"} : journal'[node][k] = journal[node][k]
      BY <1>43, CompleteTicketEffect, <1>2, <1>3 DEF Rows
    <3>3. Delivered(node) /\ (at = "complete" => Status(node, "merge") = "confirmed")
      BY <1>43, CompleteTicketEffect, <1>1 DEF Closings, Completing
    <3>4. at = "completing" => journal'[node]["complete"].status \in Standing
      BY <1>43, CompleteTicketEffect, <1>1, <1>3 DEF Closings, Status
    <3>6. at \in {"completing", "complete"}
      BY <1>43, CompleteTicketEffect
    <3>5. QED
      BY <2>2, <3>1, <3>2, <3>3, <3>4, <3>6 DEF DoneWell, Delivered, Recorded, Status
  <2>3. QED
    BY <2>1, <2>2
<1>44. CASE ConfirmCompletion
  <2>1. CASE t # node
    <3>1. /\ UNCHANGED options /\ (\A k \in {"push", "review", "merge", "complete"} : journal'[t][k] = journal[t][k])
          /\ (tracker'[t] = "done" => tracker[t] = "done") /\ qa'[t] = qa[t] /\ cert'[t] = cert[t]
      BY <1>44, ConfirmCompletionEffect, <1>2, <1>3, <2>1 DEF Moved, Rows
    <3>2. QED
      BY <1>5, <3>1
  <2>2. CASE t = node
    <3>1. UNCHANGED <<options, cert, qa, tracker>>
      BY <1>44, ConfirmCompletionEffect DEF Moved
    <3>2. \A k \in {"push", "review", "merge"} : journal'[node][k] = journal[node][k]
      BY <1>44, ConfirmCompletionEffect, <1>3 DEF Moved, Rows
    <3>3. journal'[node]["complete"].status \in Standing
      BY <1>44, ConfirmCompletionEffect DEF Standing
    <3>4. QED
      BY <1>4, <2>2, <3>1, <3>2, <3>3 DEF DoneWell, Delivered, Recorded, Status
  <2>3. QED
    BY <2>1, <2>2
<1>45. CASE CompleteQa
  <2>1. CASE t # node
    <3>1. /\ UNCHANGED options /\ (\A k \in {"push", "review", "merge", "complete"} : journal'[t][k] = journal[t][k])
          /\ (tracker'[t] = "done" => tracker[t] = "done") /\ qa'[t] = qa[t] /\ cert'[t] = cert[t]
      BY <1>45, CompleteQaEffect, <1>2, <1>3, <2>1 DEF Stopped, Moved, Marked, Rows, Drifted, Tracker, git,
         books
    <3>2. QED
      BY <1>5, <3>1
  <2>2. CASE t = node
    <3>1. UNCHANGED <<options, cert, tracker>> /\ qa'[node] \in {qa[node], "completed"}
      BY <1>45, CompleteQaEffect, <1>2 DEF Moved
    <3>2. journal' = journal
      BY <1>45, CompleteQaEffect
    <3>4. QED
      BY <1>4, <2>2, <3>1, <3>2 DEF DoneWell, Delivered, Recorded, Status, Standing
  <2>3. QED
    BY <2>1, <2>2
<1>46. CASE CloseSession
  <2>1. /\ UNCHANGED options /\ (\A k \in {"push", "review", "merge", "complete"} : journal'[t][k] = journal[t][k])
        /\ (tracker'[t] = "done" => tracker[t] = "done") /\ qa'[t] = qa[t] /\ cert'[t] = cert[t]
    BY <1>46, CloseSessionEffect, <1>2, <1>3 DEF Stopped, Moved, Marked, Rows, Notes, Tracker, git, books
  <2>2. QED
    BY <1>5, <2>1
<1>47. CASE RemoveWorktree
  <2>1. /\ UNCHANGED options /\ (\A k \in {"push", "review", "merge", "complete"} : journal'[t][k] = journal[t][k])
        /\ (tracker'[t] = "done" => tracker[t] = "done") /\ qa'[t] = qa[t] /\ cert'[t] = cert[t]
    BY <1>47, RemoveWorktreeEffect, <1>2, <1>3 DEF Stopped, Moved, Marked, Rows, Notes, Tracker, git, books
  <2>2. QED
    BY <1>5, <2>1
<1>48. QED
  BY <1>7, <1>8, <1>9, <1>10, <1>11, <1>12, <1>13, <1>14, <1>15, <1>16, <1>17, <1>18, <1>19, <1>20, <1>21,
     <1>22, <1>23, <1>24, <1>25, <1>26, <1>27, <1>28, <1>29, <1>30, <1>31, <1>32, <1>33, <1>34, <1>35,
     <1>36, <1>37, <1>38, <1>39, <1>40, <1>41, <1>42, <1>43, <1>44, <1>45, <1>46, <1>47, Zenon
     DEF Next, Loop, Build, Finalize, Deliver, Complete, Human

(* Content is counted and a worktree and a branch exist or not.                 *)
LEMMA GitTypedNext ==
  ASSUME IInv, [Next]_vars
  PROVE  /\ tree' \in [Ticket -> Nat] /\ head' \in [Ticket -> Nat] /\ remote' \in [Ticket -> Nat]
         /\ wt' \in [Ticket -> BOOLEAN] /\ br' \in [Ticket -> BOOLEAN]
<1>1. TypeOK
  BY DEF IInv
<1>2. /\ tree \in [Ticket -> Nat] /\ head \in [Ticket -> Nat] /\ remote \in [Ticket -> Nat]
      /\ wt \in [Ticket -> BOOLEAN] /\ br \in [Ticket -> BOOLEAN]
      /\ qa \in [Ticket -> Qas] /\ DOMAIN cert = Ticket /\ (\A t \in Ticket : cert[t].tree \in Nat)
      /\ journal \in Journal /\ tracker \in Tracker
      /\ session \in [Ticket -> {"none", "active", "completed"}]
      /\ interrupted \in Ticket \cup {None} /\ at \in Places /\ (at \notin Idle => node \in Ticket)
  BY <1>1 DEF TypeOK
<1>3. ASSUME NEW f \in [Ticket -> Nat], NEW t \in Ticket, NEW v \in Nat
      PROVE  [f EXCEPT ![t] = v] \in [Ticket -> Nat]
  OBVIOUS
<1>4. ASSUME NEW f \in [Ticket -> BOOLEAN], NEW t \in Ticket, NEW v \in BOOLEAN
      PROVE  [f EXCEPT ![t] = v] \in [Ticket -> BOOLEAN]
  OBVIOUS
<1>5. CASE UNCHANGED vars
  BY <1>5, <1>2 DEF vars, git, books, plan
<1>6. CASE Start \/ Resume
  BY <1>6, LaunchEffect, <1>2 DEF git, books
<1>7. CASE Finish \/ Crash
  BY <1>7, HaltEffect, <1>2 DEF Stopped, Moved, Left, Marked, Kept, Rows, Drifted, Notes, Checks, Kind, git,
     books
<1>8. ASSUME NEW u \in Ticket, PassOver(u)
      PROVE  /\ tree' \in [Ticket -> Nat] /\ head' \in [Ticket -> Nat] /\ remote' \in [Ticket -> Nat]
         /\ wt' \in [Ticket -> BOOLEAN] /\ br' \in [Ticket -> BOOLEAN]
  BY <1>8, <1>2 DEF PassOver, Pass, Taking, bounds, books, git
<1>9. ASSUME NEW u \in Ticket, RecoverMerge(u)
      PROVE  /\ tree' \in [Ticket -> Nat] /\ head' \in [Ticket -> Nat] /\ remote' \in [Ticket -> Nat]
         /\ wt' \in [Ticket -> BOOLEAN] /\ br' \in [Ticket -> BOOLEAN]
  BY <1>9, <1>2 DEF RecoverMerge, Take, Taking, MergeOp, bounds, books, git
<1>10. ASSUME NEW u \in Ticket, ContinueTicket(u)
      PROVE  /\ tree' \in [Ticket -> Nat] /\ head' \in [Ticket -> Nat] /\ remote' \in [Ticket -> Nat]
         /\ wt' \in [Ticket -> BOOLEAN] /\ br' \in [Ticket -> BOOLEAN]
  BY <1>10, <1>2 DEF ContinueTicket, Take, Taking, MergeOp, bounds, books, git
<1>11. ASSUME NEW u \in Ticket, CreateWorktree(u)
      PROVE  /\ tree' \in [Ticket -> Nat] /\ head' \in [Ticket -> Nat] /\ remote' \in [Ticket -> Nat]
         /\ wt' \in [Ticket -> BOOLEAN] /\ br' \in [Ticket -> BOOLEAN]
  <2>1. CASE br[u]
    BY <1>11, <1>2, <2>1 DEF CreateWorktree, git
  <2>2. CASE ~ br[u]
    <3>1. /\ wt' = [wt EXCEPT ![u] = TRUE] /\ br' = [br EXCEPT ![u] = TRUE]
          /\ tree' = [tree EXCEPT ![u] = 0] /\ head' = [head EXCEPT ![u] = 0] /\ remote' = remote
      BY <1>11, <2>2 DEF CreateWorktree
    <3>2. QED
      BY <1>2, <1>3, <1>4, <3>1
  <2>3. QED
    BY <2>1, <2>2
<1>12. ASSUME NEW u \in Ticket, HumanEdits(u)
      PROVE  /\ tree' \in [Ticket -> Nat] /\ head' \in [Ticket -> Nat] /\ remote' \in [Ticket -> Nat]
         /\ wt' \in [Ticket -> BOOLEAN] /\ br' \in [Ticket -> BOOLEAN]
  BY <1>12, <1>2 DEF HumanEdits, Touch, books, plan, git
<1>13. ASSUME NEW u \in Ticket, HumanCommits(u)
      PROVE  /\ tree' \in [Ticket -> Nat] /\ head' \in [Ticket -> Nat] /\ remote' \in [Ticket -> Nat]
         /\ wt' \in [Ticket -> BOOLEAN] /\ br' \in [Ticket -> BOOLEAN]
  BY <1>13, <1>2 DEF HumanCommits, Touch, Dirty, books, plan, git
<1>14. CASE OpenTicket
  BY <1>14, <1>2 DEF OpenTicket, Goto, plan, bounds, git
<1>15. CASE BuilderEdits
  <2>1. node \in Ticket /\ tree[node] + 1 \in Nat
    BY <1>15, <1>2 DEF BuilderEdits, Idle
  <2>2. tree' = [tree EXCEPT ![node] = tree[node] + 1] /\ UNCHANGED <<head, remote, wt, br>>
    BY <1>15 DEF BuilderEdits
  <2>3. QED
    BY <1>2, <1>3, <2>1, <2>2
<1>16. CASE PassQa
  BY <1>16, <1>2 DEF PassQa, Goto, plan, bounds, Digest, git
<1>17. CASE WaiveQa
  BY <1>17, <1>2 DEF WaiveQa, Goto, plan, bounds, git
<1>18. CASE HumanCommitsBase
  BY <1>18, <1>2 DEF HumanCommitsBase, Touch, books, plan, git
<1>19. ASSUME NEW how \in {"done", "blocked", "error"}, BuilderEnds(how)
      PROVE  /\ tree' \in [Ticket -> Nat] /\ head' \in [Ticket -> Nat] /\ remote' \in [Ticket -> Nat]
         /\ wt' \in [Ticket -> BOOLEAN] /\ br' \in [Ticket -> BOOLEAN]
  BY <1>19, BuilderEndsEffect, <1>2 DEF Stopped, Moved, Left, Marked, Kept, Rows, Drifted, Notes, Checks,
     Kind, git
<1>20. CASE BeginQa
  BY <1>20, BeginQaEffect, <1>2 DEF Stopped, Moved, Left, Marked, Kept, Rows, Drifted, Notes, Checks, Kind, git
<1>21. CASE QaBlocks
  BY <1>21, QaBlocksEffect, <1>2 DEF Stopped, Moved, Left, Marked, Kept, Rows, Drifted, Notes, Checks, Kind, git
<1>22. CASE BeginFinalization
  BY <1>22, BeginFinalizationEffect, <1>2 DEF Stopped, Moved, Left, Marked, Kept, Rows, Drifted, Notes,
     Checks, Kind, git
<1>23. CASE ResumeFinalization
  BY <1>23, ResumeFinalizationEffect, <1>2 DEF Stopped, Moved, Left, Marked, Kept, Rows, Drifted, Notes,
     Checks, Kind, git
<1>24. CASE PlanCommit
  BY <1>24, PlanCommitEffect, <1>2 DEF Stopped, Moved, Left, Marked, Kept, Rows, Drifted, Notes, Checks,
     Kind, git
<1>25. CASE CommitAll
  <2>1. node \in Ticket /\ tree[node] \in Nat
    BY <1>25, CommitAllEffect, <1>2
  <2>2. head' \in {head, [head EXCEPT ![node] = tree[node]]} /\ UNCHANGED <<tree, remote, wt, br>>
    BY <1>25, CommitAllEffect
  <2>3. QED
    BY <1>2, <1>3, <2>1, <2>2
<1>26. CASE ConfirmCommit
  BY <1>26, ConfirmCommitEffect, <1>2 DEF Stopped, Moved, Left, Marked, Kept, Rows, Drifted, Notes, Checks,
     Kind, git
<1>27. CASE VerifyPublication
  BY <1>27, VerifyPublicationEffect, <1>2 DEF Stopped, Moved, Left, Marked, Kept, Rows, Drifted, Notes,
     Checks, Kind, git
<1>28. CASE Push
  <2>1. node \in Ticket /\ head[node] \in Nat
    BY <1>28, PushEffect, <1>2
  <2>2. remote' \in {remote, [remote EXCEPT ![node] = head[node]]} /\ UNCHANGED <<tree, head, wt, br>>
    BY <1>28, PushEffect
  <2>3. QED
    BY <1>2, <1>3, <2>1, <2>2
<1>29. CASE ConfirmPush
  BY <1>29, ConfirmPushEffect, <1>2 DEF Stopped, Moved, Left, Marked, Kept, Rows, Drifted, Notes, Checks,
     Kind, git
<1>30. CASE RequestReview
  BY <1>30, RequestReviewEffect, <1>2 DEF Stopped, Moved, Left, Marked, Kept, Rows, Drifted, Notes, Checks,
     Kind, git
<1>31. CASE ConfirmReview
  BY <1>31, ConfirmReviewEffect, <1>2 DEF Stopped, Moved, Left, Marked, Kept, Rows, Drifted, Notes, Checks,
     Kind, git
<1>32. CASE PrepareMerge
  BY <1>32, PrepareMergeEffect, <1>2 DEF Stopped, Moved, Left, Marked, Kept, Rows, Drifted, Notes, Checks,
     Kind, git
<1>33. CASE ReconcileMerge \/ InspectIndex \/ CheckMerged
  BY <1>33, SurveyEffect, <1>2 DEF Stopped, Moved, Left, Marked, Kept, Rows, Drifted, Notes, Checks,
     Kind, git
<1>34. CASE CheckSource
  BY <1>34, CheckSourceEffect, <1>2 DEF Stopped, Moved, Left, Marked, Kept, Rows, Drifted, Notes, Checks,
     Kind, git
<1>35. CASE SquashMerge
  BY <1>35, SquashMergeEffect, <1>2 DEF Stopped, Moved, Left, Marked, Kept, Rows, Drifted, Notes, Checks,
     Kind, git
<1>36. CASE CommitMerge
  BY <1>36, CommitMergeEffect, <1>2 DEF Stopped, Moved, Left, Marked, Kept, Rows, Drifted, Notes, Checks,
     Kind, git
<1>37. CASE ConfirmMerge
  BY <1>37, ConfirmMergeEffect, <1>2 DEF Stopped, Moved, Left, Marked, Kept, Rows, Drifted, Notes, Checks,
     Kind, git
<1>38. CASE RemoveMerged
  BY <1>38, RemoveMergedEffect, <1>2 DEF Stopped, Moved, Left, Marked, Kept, Rows, Drifted, Notes, Checks,
     Kind, git
<1>39. CASE DeleteBranch
  BY <1>39, DeleteBranchEffect, <1>2, <1>4
<1>40. CASE PlanCompletion
  BY <1>40, PlanCompletionEffect, <1>2 DEF Stopped, Moved, Left, Marked, Kept, Rows, Drifted, Notes, Checks,
     Kind, git
<1>41. CASE CompleteTicket
  BY <1>41, CompleteTicketEffect, <1>2 DEF Stopped, Moved, Left, Marked, Kept, Rows, Drifted, Notes, Checks,
     Kind, git
<1>42. CASE ConfirmCompletion
  BY <1>42, ConfirmCompletionEffect, <1>2 DEF Stopped, Moved, Left, Marked, Kept, Rows, Drifted, Notes, Checks,
     Kind, git
<1>43. CASE CompleteQa
  BY <1>43, CompleteQaEffect, <1>2 DEF Stopped, Moved, Left, Marked, Kept, Rows, Drifted, Notes, Checks,
     Kind, git
<1>44. CASE CloseSession
  BY <1>44, CloseSessionEffect, <1>2 DEF Stopped, Moved, Left, Marked, Kept, Rows, Drifted, Notes, Checks,
     Kind, git
<1>45. CASE RemoveWorktree
  BY <1>45, RemoveWorktreeEffect, <1>2 DEF Stopped, Moved, Left, Marked, Kept, Rows, Drifted, Notes, Checks,
     Kind, git
<1>46. QED
  BY <1>5, <1>6, <1>7, <1>8, <1>9, <1>10, <1>11, <1>12, <1>13, <1>14, <1>15, <1>16, <1>17, <1>18, <1>19,
     <1>20, <1>21, <1>22, <1>23, <1>24, <1>25, <1>26, <1>27, <1>28, <1>29, <1>30, <1>31, <1>32, <1>33,
     <1>34, <1>35, <1>36, <1>37, <1>38, <1>39, <1>40, <1>41, <1>42, <1>43, <1>44, <1>45, Zenon
     DEF Next, Loop, Build, Finalize, Deliver, Complete, Human

(* The QA heads stay heads and the certificates certificates.                   *)
LEMMA HeadsTypedNext ==
  ASSUME IInv, [Next]_vars
  PROVE  /\ qa' \in [Ticket -> Qas] /\ DOMAIN cert' = Ticket /\ (\A t \in Ticket : cert'[t].tree \in Nat)
         /\ interrupted' \in Ticket \cup {None} /\ session' \in [Ticket -> {"none", "active", "completed"}]
<1>1. TypeOK
  BY DEF IInv
<1>2. /\ tree \in [Ticket -> Nat] /\ head \in [Ticket -> Nat] /\ remote \in [Ticket -> Nat]
      /\ wt \in [Ticket -> BOOLEAN] /\ br \in [Ticket -> BOOLEAN]
      /\ qa \in [Ticket -> Qas] /\ DOMAIN cert = Ticket /\ (\A t \in Ticket : cert[t].tree \in Nat)
      /\ journal \in Journal /\ tracker \in Tracker
      /\ session \in [Ticket -> {"none", "active", "completed"}]
      /\ interrupted \in Ticket \cup {None} /\ at \in Places /\ (at \notin Idle => node \in Ticket)
  BY <1>1 DEF TypeOK
<1>3. ASSUME NEW t \in Ticket, NEW v \in Qas
      PROVE  [qa EXCEPT ![t] = v] \in [Ticket -> Qas]
  BY <1>2
<1>4. {"open", "passed", "finalizing", "completed", "waived"} \subseteq Qas
  BY DEF Qas
<1>5. CASE UNCHANGED vars
  BY <1>5, <1>2 DEF Qas, vars, git, books, plan
<1>6. CASE Start \/ Resume
  BY <1>6, LaunchEffect, <1>2 DEF Qas, git, books
<1>7. CASE Finish \/ Crash
  BY <1>7, HaltEffect, <1>2 DEF Qas, Stopped, Moved, Left, Marked, Kept, Rows, Drifted, Notes, Checks, Kind,
     git, books
<1>8. ASSUME NEW u \in Ticket, PassOver(u)
      PROVE  /\ qa' \in [Ticket -> Qas] /\ DOMAIN cert' = Ticket /\ (\A t \in Ticket : cert'[t].tree \in Nat)
         /\ interrupted' \in Ticket \cup {None} /\ session' \in [Ticket -> {"none", "active", "completed"}]
  BY <1>8, <1>2 DEF Qas, PassOver, Pass, Taking, bounds, books, git
<1>9. ASSUME NEW u \in Ticket, RecoverMerge(u)
      PROVE  /\ qa' \in [Ticket -> Qas] /\ DOMAIN cert' = Ticket /\ (\A t \in Ticket : cert'[t].tree \in Nat)
         /\ interrupted' \in Ticket \cup {None} /\ session' \in [Ticket -> {"none", "active", "completed"}]
  BY <1>9, <1>2 DEF Qas, RecoverMerge, Take, Taking, MergeOp, bounds, books, git
<1>10. ASSUME NEW u \in Ticket, ContinueTicket(u)
      PROVE  /\ qa' \in [Ticket -> Qas] /\ DOMAIN cert' = Ticket /\ (\A t \in Ticket : cert'[t].tree \in Nat)
         /\ interrupted' \in Ticket \cup {None} /\ session' \in [Ticket -> {"none", "active", "completed"}]
  BY <1>10, <1>2 DEF Qas, ContinueTicket, Take, Taking, MergeOp, bounds, books, git
<1>11. ASSUME NEW u \in Ticket, CreateWorktree(u)
      PROVE  /\ qa' \in [Ticket -> Qas] /\ DOMAIN cert' = Ticket /\ (\A t \in Ticket : cert'[t].tree \in Nat)
         /\ interrupted' \in Ticket \cup {None} /\ session' \in [Ticket -> {"none", "active", "completed"}]
  BY <1>11, <1>2 DEF Qas, CreateWorktree, Take, Taking, Halt, Forgotten, bounds, books, git
<1>12. ASSUME NEW u \in Ticket, HumanEdits(u)
      PROVE  /\ qa' \in [Ticket -> Qas] /\ DOMAIN cert' = Ticket /\ (\A t \in Ticket : cert'[t].tree \in Nat)
         /\ interrupted' \in Ticket \cup {None} /\ session' \in [Ticket -> {"none", "active", "completed"}]
  BY <1>12, <1>2 DEF Qas, HumanEdits, Touch, books, plan, git
<1>13. ASSUME NEW u \in Ticket, HumanCommits(u)
      PROVE  /\ qa' \in [Ticket -> Qas] /\ DOMAIN cert' = Ticket /\ (\A t \in Ticket : cert'[t].tree \in Nat)
         /\ interrupted' \in Ticket \cup {None} /\ session' \in [Ticket -> {"none", "active", "completed"}]
  BY <1>13, <1>2 DEF Qas, HumanCommits, Touch, Dirty, books, plan, git
<1>14. CASE OpenTicket
  BY <1>14, <1>2 DEF Qas, OpenTicket, Goto, plan, bounds, git
<1>15. CASE BuilderEdits
  BY <1>15, <1>2 DEF Qas, BuilderEdits, bounds, books, plan, git
<1>16. CASE PassQa
  BY <1>16, <1>2 DEF Qas, PassQa, Goto, plan, bounds, Digest, git
<1>17. CASE WaiveQa
  BY <1>17, <1>2 DEF Qas, WaiveQa, Goto, plan, bounds, git
<1>18. CASE HumanCommitsBase
  BY <1>18, <1>2 DEF Qas, HumanCommitsBase, Touch, books, plan, git
<1>19. ASSUME NEW how \in {"done", "blocked", "error"}, BuilderEnds(how)
      PROVE  /\ qa' \in [Ticket -> Qas] /\ DOMAIN cert' = Ticket /\ (\A t \in Ticket : cert'[t].tree \in Nat)
         /\ interrupted' \in Ticket \cup {None} /\ session' \in [Ticket -> {"none", "active", "completed"}]
  BY <1>19, BuilderEndsEffect, <1>2 DEF Qas, Stopped, Moved, Left, Marked, Kept, Rows, Drifted, Notes,
     Checks, Kind, git
<1>20. CASE BeginQa
  <2>1. qa' = qa \/ \E v \in {"open", "finalizing", "completed"} : qa' = [qa EXCEPT ![node] = v]
    BY <1>20, BeginQaEffect DEF Drifted
  <2>2. node \in Ticket /\ UNCHANGED <<cert, session, interrupted>>
    BY <1>20, BeginQaEffect
  <2>3. QED
    BY <1>2, <1>3, <1>4, <2>1, <2>2
<1>21. CASE QaBlocks
  BY <1>21, QaBlocksEffect, <1>2 DEF Qas, Stopped, Moved, Left, Marked, Kept, Rows, Drifted, Notes, Checks,
     Kind, git
<1>22. CASE BeginFinalization
  <2>1. qa' = qa \/ \E v \in {"open", "finalizing", "completed"} : qa' = [qa EXCEPT ![node] = v]
    BY <1>22, BeginFinalizationEffect DEF Drifted
  <2>2. node \in Ticket /\ UNCHANGED <<cert, session, interrupted>>
    BY <1>22, BeginFinalizationEffect
  <2>3. QED
    BY <1>2, <1>3, <1>4, <2>1, <2>2
<1>23. CASE ResumeFinalization
  <2>1. qa' = qa \/ \E v \in {"open", "finalizing", "completed"} : qa' = [qa EXCEPT ![node] = v]
    BY <1>23, ResumeFinalizationEffect DEF Drifted
  <2>2. node \in Ticket /\ UNCHANGED <<cert, session, interrupted>>
    BY <1>23, ResumeFinalizationEffect
  <2>3. QED
    BY <1>2, <1>3, <1>4, <2>1, <2>2
<1>24. CASE PlanCommit
  <2>1. qa' = qa \/ \E v \in {"open", "finalizing", "completed"} : qa' = [qa EXCEPT ![node] = v]
    BY <1>24, PlanCommitEffect DEF Drifted
  <2>2. node \in Ticket /\ UNCHANGED <<cert, session, interrupted>>
    BY <1>24, PlanCommitEffect
  <2>3. QED
    BY <1>2, <1>3, <1>4, <2>1, <2>2
<1>25. CASE CommitAll
  BY <1>25, CommitAllEffect, <1>2 DEF Qas, Stopped, Moved, Left, Marked, Kept, Rows, Drifted, Notes, Checks,
     Kind, git
<1>26. CASE ConfirmCommit
  BY <1>26, ConfirmCommitEffect, <1>2 DEF Qas, Stopped, Moved, Left, Marked, Kept, Rows, Drifted, Notes,
     Checks, Kind, git
<1>27. CASE VerifyPublication
  <2>1. qa' = qa \/ \E v \in {"open", "finalizing", "completed"} : qa' = [qa EXCEPT ![node] = v]
    BY <1>27, VerifyPublicationEffect DEF Drifted
  <2>2. node \in Ticket /\ UNCHANGED <<cert, session, interrupted>>
    BY <1>27, VerifyPublicationEffect
  <2>3. QED
    BY <1>2, <1>3, <1>4, <2>1, <2>2
<1>28. CASE Push
  BY <1>28, PushEffect, <1>2 DEF Qas, Stopped, Moved, Left, Marked, Kept, Rows, Drifted, Notes, Checks, Kind,
     git
<1>29. CASE ConfirmPush
  BY <1>29, ConfirmPushEffect, <1>2 DEF Qas, Stopped, Moved, Left, Marked, Kept, Rows, Drifted, Notes,
     Checks, Kind, git
<1>30. CASE RequestReview
  BY <1>30, RequestReviewEffect, <1>2 DEF Qas, Stopped, Moved, Left, Marked, Kept, Rows, Drifted, Notes,
     Checks, Kind, git
<1>31. CASE ConfirmReview
  BY <1>31, ConfirmReviewEffect, <1>2 DEF Qas, Stopped, Moved, Left, Marked, Kept, Rows, Drifted, Notes,
     Checks, Kind, git
<1>32. CASE PrepareMerge
  BY <1>32, PrepareMergeEffect, <1>2 DEF Qas, Stopped, Moved, Left, Marked, Kept, Rows, Drifted, Notes,
     Checks, Kind, git
<1>33. CASE ReconcileMerge \/ InspectIndex \/ CheckMerged
  BY <1>33, SurveyEffect, <1>2 DEF Qas, Stopped, Moved, Left, Marked, Kept, Rows, Drifted, Notes,
     Checks, Kind, git
<1>34. CASE CheckSource
  <2>1. qa' = qa \/ \E v \in {"open", "finalizing", "completed"} : qa' = [qa EXCEPT ![node] = v]
    BY <1>34, CheckSourceEffect DEF Drifted
  <2>2. node \in Ticket /\ UNCHANGED <<cert, session, interrupted>>
    BY <1>34, CheckSourceEffect
  <2>3. QED
    BY <1>2, <1>3, <1>4, <2>1, <2>2
<1>35. CASE SquashMerge
  BY <1>35, SquashMergeEffect, <1>2 DEF Qas, Stopped, Moved, Left, Marked, Kept, Rows, Drifted, Notes,
     Checks, Kind, git
<1>36. CASE CommitMerge
  BY <1>36, CommitMergeEffect, <1>2 DEF Qas, Stopped, Moved, Left, Marked, Kept, Rows, Drifted, Notes,
     Checks, Kind, git
<1>37. CASE ConfirmMerge
  BY <1>37, ConfirmMergeEffect, <1>2 DEF Qas, Stopped, Moved, Left, Marked, Kept, Rows, Drifted, Notes,
     Checks, Kind, git
<1>38. CASE RemoveMerged
  BY <1>38, RemoveMergedEffect, <1>2 DEF Qas, Stopped, Moved, Left, Marked, Kept, Rows, Drifted, Notes,
     Checks, Kind, git
<1>39. CASE DeleteBranch
  BY <1>39, DeleteBranchEffect, <1>2 DEF Qas, Stopped, Moved, Left, Marked, Kept, Rows, Drifted, Notes,
     Checks, Kind, git
<1>40. CASE PlanCompletion
  BY <1>40, PlanCompletionEffect, <1>2 DEF Qas, Stopped, Moved, Left, Marked, Kept, Rows, Drifted, Notes,
     Checks, Kind, git
<1>41. CASE CompleteTicket
  BY <1>41, CompleteTicketEffect, <1>2 DEF Qas, Stopped, Moved, Left, Marked, Kept, Rows, Drifted, Notes,
     Checks, Kind, git
<1>42. CASE ConfirmCompletion
  BY <1>42, ConfirmCompletionEffect, <1>2 DEF Qas, Stopped, Moved, Left, Marked, Kept, Rows, Drifted, Notes,
     Checks, Kind, git
<1>43. CASE CompleteQa
  BY <1>43, CompleteQaEffect, <1>2 DEF Qas, Stopped, Moved, Left, Marked, Kept, Rows, Drifted, Notes, Checks,
     Kind, git
<1>44. CASE CloseSession
  BY <1>44, CloseSessionEffect, <1>2 DEF Qas, Stopped, Moved, Left, Marked, Kept, Rows, Drifted, Notes,
     Checks, Kind, git
<1>45. CASE RemoveWorktree
  BY <1>45, RemoveWorktreeEffect, <1>2 DEF Qas, Stopped, Moved, Left, Marked, Kept, Rows, Drifted, Notes,
     Checks, Kind, git
<1>46. QED
  BY <1>5, <1>6, <1>7, <1>8, <1>9, <1>10, <1>11, <1>12, <1>13, <1>14, <1>15, <1>16, <1>17, <1>18, <1>19,
     <1>20, <1>21, <1>22, <1>23, <1>24, <1>25, <1>26, <1>27, <1>28, <1>29, <1>30, <1>31, <1>32, <1>33,
     <1>34, <1>35, <1>36, <1>37, <1>38, <1>39, <1>40, <1>41, <1>42, <1>43, <1>44, <1>45, Zenon
     DEF Next, Loop, Build, Finalize, Deliver, Complete, Human

(* The host is at one of its places with a ticket of the run.                   *)
LEMMA PlaceTypedNext ==
  ASSUME IInv, [Next]_vars
  PROVE  at' \in Places /\ (at' \notin Idle => node' \in Ticket)
<1>1. TypeOK
  BY DEF IInv
<1>2. /\ tree \in [Ticket -> Nat] /\ head \in [Ticket -> Nat] /\ remote \in [Ticket -> Nat]
      /\ wt \in [Ticket -> BOOLEAN] /\ br \in [Ticket -> BOOLEAN]
      /\ qa \in [Ticket -> Qas] /\ DOMAIN cert = Ticket /\ (\A t \in Ticket : cert[t].tree \in Nat)
      /\ journal \in Journal /\ tracker \in Tracker
      /\ session \in [Ticket -> {"none", "active", "completed"}]
      /\ interrupted \in Ticket \cup {None} /\ at \in Places /\ (at \notin Idle => node \in Ticket)
  BY <1>1 DEF TypeOK
<1>3. CASE UNCHANGED vars
  BY <1>3, <1>2 DEF Left, Places, Idle, Building, Committing, Pushing, Merging, Closing, vars, git, books, plan
<1>4. CASE Start \/ Resume
  BY <1>4, LaunchEffect, <1>2 DEF Left, Places, Idle, Building, Committing, Pushing, Merging, Closing, git,
     books
<1>5. CASE Finish \/ Crash
  BY <1>5, HaltEffect, <1>2 DEF Left, Places, Idle, Building, Committing, Pushing, Merging, Closing, Stopped,
     Moved, Left, Marked, Kept, Rows, Drifted, Notes, Checks, Kind, git, books
<1>6. ASSUME NEW u \in Ticket, PassOver(u)
      PROVE  at' \in Places /\ (at' \notin Idle => node' \in Ticket)
  BY <1>6, <1>2 DEF Left, Places, Idle, Building, Committing, Pushing, Merging, Closing, PassOver, Pass,
     Taking, bounds, books, git
<1>7. ASSUME NEW u \in Ticket, RecoverMerge(u)
      PROVE  at' \in Places /\ (at' \notin Idle => node' \in Ticket)
  BY <1>7, <1>2 DEF Left, Places, Idle, Building, Committing, Pushing, Merging, Closing, RecoverMerge, Take,
     Taking, MergeOp, bounds, books, git
<1>8. ASSUME NEW u \in Ticket, ContinueTicket(u)
      PROVE  at' \in Places /\ (at' \notin Idle => node' \in Ticket)
  BY <1>8, <1>2 DEF Left, Places, Idle, Building, Committing, Pushing, Merging, Closing, ContinueTicket,
     Take, Taking, MergeOp, bounds, books, git
<1>9. ASSUME NEW u \in Ticket, CreateWorktree(u)
      PROVE  at' \in Places /\ (at' \notin Idle => node' \in Ticket)
  BY <1>9, <1>2 DEF Left, Places, Idle, Building, Committing, Pushing, Merging, Closing, CreateWorktree,
     Take, Taking, Halt, Forgotten, bounds, books, git
<1>10. ASSUME NEW u \in Ticket, HumanEdits(u)
      PROVE  at' \in Places /\ (at' \notin Idle => node' \in Ticket)
  BY <1>10, <1>2 DEF Left, Places, Idle, Building, Committing, Pushing, Merging, Closing, HumanEdits, Touch,
     books, plan, git
<1>11. ASSUME NEW u \in Ticket, HumanCommits(u)
      PROVE  at' \in Places /\ (at' \notin Idle => node' \in Ticket)
  BY <1>11, <1>2 DEF Left, Places, Idle, Building, Committing, Pushing, Merging, Closing, HumanCommits,
     Touch, Dirty, books, plan, git
<1>12. CASE OpenTicket
  BY <1>12, <1>2 DEF Left, Places, Idle, Building, Committing, Pushing, Merging, Closing, OpenTicket, Goto,
     plan, bounds, git
<1>13. CASE BuilderEdits
  BY <1>13, <1>2 DEF Left, Places, Idle, Building, Committing, Pushing, Merging, Closing, BuilderEdits,
     bounds, books, plan, git
<1>14. CASE PassQa
  BY <1>14, <1>2 DEF Left, Places, Idle, Building, Committing, Pushing, Merging, Closing, PassQa, Goto, plan,
     bounds, Digest, git
<1>15. CASE WaiveQa
  BY <1>15, <1>2 DEF Left, Places, Idle, Building, Committing, Pushing, Merging, Closing, WaiveQa, Goto,
     plan, bounds, git
<1>16. CASE HumanCommitsBase
  BY <1>16, <1>2 DEF Left, Places, Idle, Building, Committing, Pushing, Merging, Closing, HumanCommitsBase,
     Touch, books, plan, git
<1>17. ASSUME NEW how \in {"done", "blocked", "error"}, BuilderEnds(how)
      PROVE  at' \in Places /\ (at' \notin Idle => node' \in Ticket)
  BY <1>17, BuilderEndsEffect, <1>2 DEF Left, Places, Idle, Building, Committing, Pushing, Merging, Closing,
     Stopped, Moved, Left, Marked, Kept, Rows, Drifted, Notes, Checks, Kind, git
<1>18. CASE BeginQa
  BY <1>18, BeginQaEffect, <1>2 DEF Left, Places, Idle, Building, Committing, Pushing, Merging, Closing,
     Stopped, Moved, Left, Marked, Kept, Rows, Drifted, Notes, Checks, Kind, git
<1>19. CASE QaBlocks
  BY <1>19, QaBlocksEffect, <1>2 DEF Left, Places, Idle, Building, Committing, Pushing, Merging, Closing,
     Stopped, Moved, Left, Marked, Kept, Rows, Drifted, Notes, Checks, Kind, git
<1>20. CASE BeginFinalization
  BY <1>20, BeginFinalizationEffect, <1>2 DEF Left, Places, Idle, Building, Committing, Pushing, Merging,
     Closing, Stopped, Moved, Left, Marked, Kept, Rows, Drifted, Notes, Checks, Kind, git
<1>21. CASE ResumeFinalization
  BY <1>21, ResumeFinalizationEffect, <1>2 DEF Left, Places, Idle, Building, Committing, Pushing, Merging,
     Closing, Stopped, Moved, Left, Marked, Kept, Rows, Drifted, Notes, Checks, Kind, git
<1>22. CASE PlanCommit
  BY <1>22, PlanCommitEffect, <1>2 DEF Left, Places, Idle, Building, Committing, Pushing, Merging, Closing,
     Stopped, Moved, Left, Marked, Kept, Rows, Drifted, Notes, Checks, Kind, git
<1>23. CASE CommitAll
  BY <1>23, CommitAllEffect, <1>2 DEF Left, Places, Idle, Building, Committing, Pushing, Merging, Closing,
     Stopped, Moved, Left, Marked, Kept, Rows, Drifted, Notes, Checks, Kind, git
<1>24. CASE ConfirmCommit
  BY <1>24, ConfirmCommitEffect, <1>2 DEF Left, Places, Idle, Building, Committing, Pushing, Merging,
     Closing, Stopped, Moved, Left, Marked, Kept, Rows, Drifted, Notes, Checks, Kind, git
<1>25. CASE VerifyPublication
  BY <1>25, VerifyPublicationEffect, <1>2 DEF Left, Places, Idle, Building, Committing, Pushing, Merging,
     Closing, Stopped, Moved, Left, Marked, Kept, Rows, Drifted, Notes, Checks, Kind, git
<1>26. CASE Push
  BY <1>26, PushEffect, <1>2 DEF Left, Places, Idle, Building, Committing, Pushing, Merging, Closing,
     Stopped, Moved, Left, Marked, Kept, Rows, Drifted, Notes, Checks, Kind, git
<1>27. CASE ConfirmPush
  BY <1>27, ConfirmPushEffect, <1>2 DEF Left, Places, Idle, Building, Committing, Pushing, Merging, Closing,
     Stopped, Moved, Left, Marked, Kept, Rows, Drifted, Notes, Checks, Kind, git
<1>28. CASE RequestReview
  BY <1>28, RequestReviewEffect, <1>2 DEF Left, Places, Idle, Building, Committing, Pushing, Merging,
     Closing, Stopped, Moved, Left, Marked, Kept, Rows, Drifted, Notes, Checks, Kind, git
<1>29. CASE ConfirmReview
  BY <1>29, ConfirmReviewEffect, <1>2 DEF Left, Places, Idle, Building, Committing, Pushing, Merging,
     Closing, Stopped, Moved, Left, Marked, Kept, Rows, Drifted, Notes, Checks, Kind, git
<1>30. CASE PrepareMerge
  BY <1>30, PrepareMergeEffect, <1>2 DEF Left, Places, Idle, Building, Committing, Pushing, Merging, Closing,
     Stopped, Moved, Left, Marked, Kept, Rows, Drifted, Notes, Checks, Kind, git
<1>31. CASE ReconcileMerge \/ InspectIndex \/ CheckMerged
  BY <1>31, SurveyEffect, <1>2 DEF Left, Places, Idle, Building, Committing, Pushing, Merging,
     Closing, Stopped, Moved, Left, Marked, Kept, Rows, Drifted, Notes, Checks, Kind, git
<1>32. CASE CheckSource
  BY <1>32, CheckSourceEffect, <1>2 DEF Left, Places, Idle, Building, Committing, Pushing, Merging, Closing,
     Stopped, Moved, Left, Marked, Kept, Rows, Drifted, Notes, Checks, Kind, git
<1>33. CASE SquashMerge
  BY <1>33, SquashMergeEffect, <1>2 DEF Left, Places, Idle, Building, Committing, Pushing, Merging,
     Closing, Stopped, Moved, Left, Marked, Kept, Rows, Drifted, Notes, Checks, Kind, git
<1>34. CASE CommitMerge
  BY <1>34, CommitMergeEffect, <1>2 DEF Left, Places, Idle, Building, Committing, Pushing, Merging, Closing,
     Stopped, Moved, Left, Marked, Kept, Rows, Drifted, Notes, Checks, Kind, git
<1>35. CASE ConfirmMerge
  BY <1>35, ConfirmMergeEffect, <1>2 DEF Left, Places, Idle, Building, Committing, Pushing, Merging, Closing,
     Stopped, Moved, Left, Marked, Kept, Rows, Drifted, Notes, Checks, Kind, git
<1>36. CASE RemoveMerged
  BY <1>36, RemoveMergedEffect, <1>2 DEF Left, Places, Idle, Building, Committing, Pushing, Merging, Closing,
     Stopped, Moved, Left, Marked, Kept, Rows, Drifted, Notes, Checks, Kind, git
<1>37. CASE DeleteBranch
  BY <1>37, DeleteBranchEffect, <1>2 DEF Left, Places, Idle, Building, Committing, Pushing, Merging,
     Closing, Stopped, Moved, Left, Marked, Kept, Rows, Drifted, Notes, Checks, Kind, git
<1>38. CASE PlanCompletion
  BY <1>38, PlanCompletionEffect, <1>2 DEF Left, Places, Idle, Building, Committing, Pushing, Merging,
     Closing, Stopped, Moved, Left, Marked, Kept, Rows, Drifted, Notes, Checks, Kind, git
<1>39. CASE CompleteTicket
  BY <1>39, CompleteTicketEffect, <1>2 DEF Left, Places, Idle, Building, Committing, Pushing, Merging,
     Closing, Stopped, Moved, Left, Marked, Kept, Rows, Drifted, Notes, Checks, Kind, git
<1>40. CASE ConfirmCompletion
  BY <1>40, ConfirmCompletionEffect, <1>2 DEF Left, Places, Idle, Building, Committing, Pushing, Merging,
     Closing, Stopped, Moved, Left, Marked, Kept, Rows, Drifted, Notes, Checks, Kind, git
<1>41. CASE CompleteQa
  BY <1>41, CompleteQaEffect, <1>2 DEF Left, Places, Idle, Building, Committing, Pushing, Merging, Closing,
     Stopped, Moved, Left, Marked, Kept, Rows, Drifted, Notes, Checks, Kind, git
<1>42. CASE CloseSession
  BY <1>42, CloseSessionEffect, <1>2 DEF Left, Places, Idle, Building, Committing, Pushing, Merging, Closing,
     Stopped, Moved, Left, Marked, Kept, Rows, Drifted, Notes, Checks, Kind, git
<1>43. CASE RemoveWorktree
  BY <1>43, RemoveWorktreeEffect, <1>2 DEF Left, Places, Idle, Building, Committing, Pushing, Merging,
     Closing, Stopped, Moved, Left, Marked, Kept, Rows, Drifted, Notes, Checks, Kind, git
<1>44. QED
  BY <1>3, <1>4, <1>5, <1>6, <1>7, <1>8, <1>9, <1>10, <1>11, <1>12, <1>13, <1>14, <1>15, <1>16, <1>17,
     <1>18, <1>19, <1>20, <1>21, <1>22, <1>23, <1>24, <1>25, <1>26, <1>27, <1>28, <1>29, <1>30, <1>31,
     <1>32, <1>33, <1>34, <1>35, <1>36, <1>37, <1>38, <1>39, <1>40, <1>41, <1>42, <1>43, Zenon
     DEF Next, Loop, Build, Finalize, Deliver, Complete, Human

(* The journal and the tracker stay tables of their rows.                       *)
LEMMA RowsTypedNext ==
  ASSUME IInv, [Next]_vars
  PROVE  journal' \in Journal /\ tracker' \in Tracker
<1>1. TypeOK
  BY DEF IInv
<1>2. /\ tree \in [Ticket -> Nat] /\ head \in [Ticket -> Nat] /\ remote \in [Ticket -> Nat]
      /\ wt \in [Ticket -> BOOLEAN] /\ br \in [Ticket -> BOOLEAN]
      /\ qa \in [Ticket -> Qas] /\ DOMAIN cert = Ticket /\ (\A t \in Ticket : cert[t].tree \in Nat)
      /\ journal \in Journal /\ tracker \in Tracker
      /\ session \in [Ticket -> {"none", "active", "completed"}]
      /\ interrupted \in Ticket \cup {None} /\ at \in Places /\ (at \notin Idle => node \in Ticket)
  BY <1>1 DEF TypeOK
<1>3. CASE UNCHANGED vars
  BY <1>3, <1>2 DEF Tracker, vars, git, books, plan
<1>4. CASE Start \/ Resume
  BY <1>4, LaunchEffect, <1>2 DEF Tracker, git, books
<1>5. CASE Finish \/ Crash
  BY <1>5, HaltEffect, <1>2 DEF Tracker, Stopped, Moved, Left, Marked, Kept, Rows, Drifted, Notes, Checks,
     Kind, git, books
<1>6. ASSUME NEW u \in Ticket, PassOver(u)
      PROVE  journal' \in Journal /\ tracker' \in Tracker
  BY <1>6, <1>2 DEF Tracker, PassOver, Pass, Taking, bounds, books, git
<1>7. ASSUME NEW u \in Ticket, RecoverMerge(u)
      PROVE  journal' \in Journal /\ tracker' \in Tracker
  BY <1>7, <1>2 DEF Tracker, RecoverMerge, Take, Taking, MergeOp, bounds, books, git
<1>8. ASSUME NEW u \in Ticket, ContinueTicket(u)
      PROVE  journal' \in Journal /\ tracker' \in Tracker
  BY <1>8, <1>2 DEF Tracker, ContinueTicket, Take, Taking, MergeOp, bounds, books, git
<1>9. ASSUME NEW u \in Ticket, CreateWorktree(u)
      PROVE  journal' \in Journal /\ tracker' \in Tracker
  BY <1>9, <1>2 DEF Tracker, CreateWorktree, Take, Taking, Halt, Forgotten, bounds, books, git
<1>10. ASSUME NEW u \in Ticket, HumanEdits(u)
      PROVE  journal' \in Journal /\ tracker' \in Tracker
  BY <1>10, <1>2 DEF Tracker, HumanEdits, Touch, books, plan, git
<1>11. ASSUME NEW u \in Ticket, HumanCommits(u)
      PROVE  journal' \in Journal /\ tracker' \in Tracker
  BY <1>11, <1>2 DEF Tracker, HumanCommits, Touch, Dirty, books, plan, git
<1>12. CASE OpenTicket
  BY <1>12, <1>2 DEF Tracker, OpenTicket, Goto, plan, bounds, git
<1>13. CASE BuilderEdits
  BY <1>13, <1>2 DEF Tracker, BuilderEdits, bounds, books, plan, git
<1>14. CASE PassQa
  BY <1>14, <1>2 DEF Tracker, PassQa, Goto, plan, bounds, Digest, git
<1>15. CASE WaiveQa
  BY <1>15, <1>2 DEF Tracker, WaiveQa, Goto, plan, bounds, git
<1>16. CASE HumanCommitsBase
  BY <1>16, <1>2 DEF Tracker, HumanCommitsBase, Touch, books, plan, git
<1>17. ASSUME NEW how \in {"done", "blocked", "error"}, BuilderEnds(how)
      PROVE  journal' \in Journal /\ tracker' \in Tracker
  BY <1>17, BuilderEndsEffect, <1>2 DEF Tracker, Stopped, Moved, Left, Marked, Kept, Rows, Drifted, Notes,
     Checks, Kind, git
<1>18. CASE BeginQa
  BY <1>18, BeginQaEffect, <1>2 DEF Tracker, Stopped, Moved, Left, Marked, Kept, Rows, Drifted, Notes,
     Checks, Kind, git
<1>19. CASE QaBlocks
  BY <1>19, QaBlocksEffect, <1>2 DEF Tracker, Stopped, Moved, Left, Marked, Kept, Rows, Drifted, Notes,
     Checks, Kind, git
<1>20. CASE BeginFinalization
  BY <1>20, BeginFinalizationEffect, <1>2 DEF Tracker, Stopped, Moved, Left, Marked, Kept, Rows, Drifted,
     Notes, Checks, Kind, git
<1>21. CASE ResumeFinalization
  BY <1>21, ResumeFinalizationEffect, <1>2 DEF Tracker, Stopped, Moved, Left, Marked, Kept, Rows, Drifted,
     Notes, Checks, Kind, git
<1>22. CASE PlanCommit
  BY <1>22, PlanCommitEffect, <1>2 DEF Tracker, Stopped, Moved, Left, Marked, Kept, Rows, Drifted, Notes,
     Checks, Kind, git
<1>23. CASE CommitAll
  BY <1>23, CommitAllEffect, <1>2 DEF Tracker, Stopped, Moved, Left, Marked, Kept, Rows, Drifted, Notes,
     Checks, Kind, git
<1>24. CASE ConfirmCommit
  BY <1>24, ConfirmCommitEffect, <1>2 DEF Tracker, Stopped, Moved, Left, Marked, Kept, Rows, Drifted, Notes,
     Checks, Kind, git
<1>25. CASE VerifyPublication
  BY <1>25, VerifyPublicationEffect, <1>2 DEF Tracker, Stopped, Moved, Left, Marked, Kept, Rows, Drifted,
     Notes, Checks, Kind, git
<1>26. CASE Push
  BY <1>26, PushEffect, <1>2 DEF Tracker, Stopped, Moved, Left, Marked, Kept, Rows, Drifted, Notes, Checks,
     Kind, git
<1>27. CASE ConfirmPush
  BY <1>27, ConfirmPushEffect, <1>2 DEF Tracker, Stopped, Moved, Left, Marked, Kept, Rows, Drifted, Notes,
     Checks, Kind, git
<1>28. CASE RequestReview
  BY <1>28, RequestReviewEffect, <1>2 DEF Tracker, Stopped, Moved, Left, Marked, Kept, Rows, Drifted, Notes,
     Checks, Kind, git
<1>29. CASE ConfirmReview
  BY <1>29, ConfirmReviewEffect, <1>2 DEF Tracker, Stopped, Moved, Left, Marked, Kept, Rows, Drifted, Notes,
     Checks, Kind, git
<1>30. CASE PrepareMerge
  BY <1>30, PrepareMergeEffect, <1>2 DEF Tracker, Stopped, Moved, Left, Marked, Kept, Rows, Drifted, Notes,
     Checks, Kind, git
<1>31. CASE ReconcileMerge \/ InspectIndex \/ CheckMerged
  BY <1>31, SurveyEffect, <1>2 DEF Tracker, Stopped, Moved, Left, Marked, Kept, Rows, Drifted, Notes,
     Checks, Kind, git
<1>32. CASE CheckSource
  BY <1>32, CheckSourceEffect, <1>2 DEF Tracker, Stopped, Moved, Left, Marked, Kept, Rows, Drifted, Notes,
     Checks, Kind, git
<1>33. CASE SquashMerge
  BY <1>33, SquashMergeEffect, <1>2 DEF Tracker, Stopped, Moved, Left, Marked, Kept, Rows, Drifted, Notes,
     Checks, Kind, git
<1>34. CASE CommitMerge
  BY <1>34, CommitMergeEffect, <1>2 DEF Tracker, Stopped, Moved, Left, Marked, Kept, Rows, Drifted, Notes,
     Checks, Kind, git
<1>35. CASE ConfirmMerge
  BY <1>35, ConfirmMergeEffect, <1>2 DEF Tracker, Stopped, Moved, Left, Marked, Kept, Rows, Drifted, Notes,
     Checks, Kind, git
<1>36. CASE RemoveMerged
  BY <1>36, RemoveMergedEffect, <1>2 DEF Tracker, Stopped, Moved, Left, Marked, Kept, Rows, Drifted, Notes,
     Checks, Kind, git
<1>37. CASE DeleteBranch
  BY <1>37, DeleteBranchEffect, <1>2 DEF Tracker, Stopped, Moved, Left, Marked, Kept, Rows, Drifted, Notes,
     Checks, Kind, git
<1>38. CASE PlanCompletion
  BY <1>38, PlanCompletionEffect, <1>2 DEF Tracker, Stopped, Moved, Left, Marked, Kept, Rows, Drifted, Notes,
     Checks, Kind, git
<1>39. CASE CompleteTicket
  BY <1>39, CompleteTicketEffect, <1>2 DEF Tracker, Stopped, Moved, Left, Marked, Kept, Rows, Drifted, Notes,
     Checks, Kind, git
<1>40. CASE ConfirmCompletion
  BY <1>40, ConfirmCompletionEffect, <1>2 DEF Tracker, Stopped, Moved, Left, Marked, Kept, Rows, Drifted, Notes,
     Checks, Kind, git
<1>41. CASE CompleteQa
  BY <1>41, CompleteQaEffect, <1>2 DEF Tracker, Stopped, Moved, Left, Marked, Kept, Rows, Drifted, Notes,
     Checks, Kind, git
<1>42. CASE CloseSession
  BY <1>42, CloseSessionEffect, <1>2 DEF Tracker, Stopped, Moved, Left, Marked, Kept, Rows, Drifted, Notes,
     Checks, Kind, git
<1>43. CASE RemoveWorktree
  BY <1>43, RemoveWorktreeEffect, <1>2 DEF Tracker, Stopped, Moved, Left, Marked, Kept, Rows, Drifted, Notes,
     Checks, Kind, git
<1>44. QED
  BY <1>3, <1>4, <1>5, <1>6, <1>7, <1>8, <1>9, <1>10, <1>11, <1>12, <1>13, <1>14, <1>15, <1>16, <1>17,
     <1>18, <1>19, <1>20, <1>21, <1>22, <1>23, <1>24, <1>25, <1>26, <1>27, <1>28, <1>29, <1>30, <1>31,
     <1>32, <1>33, <1>34, <1>35, <1>36, <1>37, <1>38, <1>39, <1>40, <1>41, <1>42, <1>43, Zenon
     DEF Next, Loop, Build, Finalize, Deliver, Complete, Human

(* Few steps touch the base, the remote, a worktree or a branch.                *)
Framed ==
  /\ base' = base \/ CommitMerge \/ HumanCommitsBase
  /\ remote' = remote \/ Push
  /\ wt' = wt \/ RemoveMerged \/ RemoveWorktree \/ \E t \in Ticket : CreateWorktree(t)
  /\ br' = br \/ DeleteBranch \/ \E t \in Ticket : CreateWorktree(t)

(* Every other step leaves them as they were.                                   *)
LEMMA Frame ==
  ASSUME IInv, [Next]_vars
  PROVE  Framed
<1>1. CASE UNCHANGED vars
  BY <1>1 DEF Framed, vars, git, books, plan
<1>2. CASE Start \/ Resume
  BY <1>2, LaunchEffect DEF Framed, git, books
<1>3. CASE Finish \/ Crash
  BY <1>3, HaltEffect DEF Framed, git, git, books
<1>4. ASSUME NEW u \in Ticket, PassOver(u)
      PROVE  Framed
  BY <1>4 DEF PassOver, Pass, Taking, bounds, books, git, Framed
<1>5. ASSUME NEW u \in Ticket, RecoverMerge(u)
      PROVE  Framed
  BY <1>5 DEF RecoverMerge, Take, Taking, MergeOp, bounds, books, git, Framed
<1>6. ASSUME NEW u \in Ticket, ContinueTicket(u)
      PROVE  Framed
  BY <1>6 DEF ContinueTicket, Take, Taking, MergeOp, bounds, books, git, Framed
<1>7. ASSUME NEW u \in Ticket, CreateWorktree(u)
      PROVE  Framed
  BY <1>7 DEF CreateWorktree, git, Framed
<1>8. ASSUME NEW u \in Ticket, HumanEdits(u)
      PROVE  Framed
  BY <1>8 DEF HumanEdits, Touch, books, plan, git, Framed
<1>9. ASSUME NEW u \in Ticket, HumanCommits(u)
      PROVE  Framed
  BY <1>9 DEF HumanCommits, Touch, Dirty, books, plan, git, Framed
<1>10. CASE OpenTicket
  BY <1>10 DEF OpenTicket, Goto, plan, bounds, git, Framed
<1>11. CASE BuilderEdits
  BY <1>11 DEF BuilderEdits, bounds, books, plan, git, Framed
<1>12. CASE PassQa
  BY <1>12 DEF PassQa, Goto, plan, bounds, Digest, git, Framed
<1>13. CASE WaiveQa
  BY <1>13 DEF WaiveQa, Goto, plan, bounds, git, Framed
<1>14. CASE HumanCommitsBase
  BY <1>14 DEF HumanCommitsBase, Touch, books, plan, git, Framed
<1>15. ASSUME NEW how \in {"done", "blocked", "error"}, BuilderEnds(how)
      PROVE  Framed
  BY <1>15, BuilderEndsEffect DEF git, Framed
<1>16. CASE BeginQa
  BY <1>16, BeginQaEffect DEF git, Framed
<1>17. CASE QaBlocks
  BY <1>17, QaBlocksEffect DEF git, Framed
<1>18. CASE BeginFinalization
  BY <1>18, BeginFinalizationEffect DEF git, Framed
<1>19. CASE ResumeFinalization
  BY <1>19, ResumeFinalizationEffect DEF git, Framed
<1>20. CASE PlanCommit
  BY <1>20, PlanCommitEffect DEF git, Framed
<1>21. CASE CommitAll
  BY <1>21, CommitAllEffect DEF git, Framed
<1>22. CASE ConfirmCommit
  BY <1>22, ConfirmCommitEffect DEF git, Framed
<1>23. CASE VerifyPublication
  BY <1>23, VerifyPublicationEffect DEF git, Framed
<1>24. CASE Push
  BY <1>24, PushEffect DEF git, Framed
<1>25. CASE ConfirmPush
  BY <1>25, ConfirmPushEffect DEF git, Framed
<1>26. CASE RequestReview
  BY <1>26, RequestReviewEffect DEF git, Framed
<1>27. CASE ConfirmReview
  BY <1>27, ConfirmReviewEffect DEF git, Framed
<1>28. CASE PrepareMerge
  BY <1>28, PrepareMergeEffect DEF git, Framed
<1>29. CASE ReconcileMerge \/ InspectIndex \/ CheckMerged
  BY <1>29, SurveyEffect DEF git, Framed
<1>30. CASE CheckSource
  BY <1>30, CheckSourceEffect DEF git, Framed
<1>31. CASE SquashMerge
  BY <1>31, SquashMergeEffect DEF git, Framed
<1>32. CASE CommitMerge
  BY <1>32, CommitMergeEffect DEF git, Framed
<1>33. CASE ConfirmMerge
  BY <1>33, ConfirmMergeEffect DEF git, Framed
<1>34. CASE RemoveMerged
  BY <1>34, RemoveMergedEffect DEF git, Framed
<1>35. CASE DeleteBranch
  BY <1>35, DeleteBranchEffect DEF git, Framed
<1>36. CASE PlanCompletion
  BY <1>36, PlanCompletionEffect DEF git, Framed
<1>37. CASE CompleteTicket
  BY <1>37, CompleteTicketEffect DEF git, Framed
<1>38. CASE ConfirmCompletion
  BY <1>38, ConfirmCompletionEffect DEF git, Framed
<1>39. CASE CompleteQa
  BY <1>39, CompleteQaEffect DEF git, Framed
<1>40. CASE CloseSession
  BY <1>40, CloseSessionEffect DEF git, Framed
<1>41. CASE RemoveWorktree
  BY <1>41, RemoveWorktreeEffect DEF git, Framed
<1>42. QED
  BY <1>1, <1>2, <1>3, <1>4, <1>5, <1>6, <1>7, <1>8, <1>9, <1>10, <1>11, <1>12, <1>13, <1>14, <1>15, <1>16,
     <1>17, <1>18, <1>19, <1>20, <1>21, <1>22, <1>23, <1>24, <1>25, <1>26, <1>27, <1>28, <1>29, <1>30,
     <1>31, <1>32, <1>33, <1>34, <1>35, <1>36, <1>37, <1>38, <1>39, <1>40, <1>41, Zenon
     DEF Next, Loop, Build, Finalize, Deliver, Complete, Human

(* What is on the base was committed for a ticket or by hand.                   *)
LEMMA BaseTypedNext ==
  ASSUME IInv, [Next]_vars
  PROVE  base' \in Seq((Ticket \cup {None}) \X Nat)
<1>1. TypeOK /\ Merges
  BY DEF IInv
<1>2. base \in Seq((Ticket \cup {None}) \X Nat)
  BY <1>1, Zenon DEF TypeOK
<1>3. staged # <<>> => staged \in (Ticket \cup {None}) \X Nat
  BY <1>1 DEF Merges, Staging, MergeKnown, Standing
<1>4. <<None, 0>> \in (Ticket \cup {None}) \X Nat
  OBVIOUS
<1>5. CASE base' = base
  BY <1>2, <1>5
<1>6. CASE CommitMerge
  <2>1. CASE base' = base
    BY <1>2, <2>1
  <2>2. CASE staged # <<>> /\ base' = Append(base, staged)
    BY <1>1, <1>3, <2>2, Appending, Zenon
  <2>3. QED
    BY <1>6, CommitMergeEffect, <2>1, <2>2
<1>7. CASE HumanCommitsBase
  <2>1. PICK e : e = IF staged = <<>> THEN <<None, 0>> ELSE staged
    OBVIOUS
  <2>2. base' = Append(base, e)
    BY <1>7, <2>1 DEF HumanCommitsBase
  <2>3. e \in (Ticket \cup {None}) \X Nat
    BY <1>3, <1>4, <2>1
  <2>4. QED
    BY <1>1, <2>2, <2>3, Appending, Zenon
<1>8. QED
  BY Frame, <1>5, <1>6, <1>7 DEF Framed

(* Every variable keeps its type.                                               *)
LEMMA TypeNext ==
  ASSUME IInv, [Next]_vars
  PROVE  TypeOK'
BY GitTypedNext, HeadsTypedNext, PlaceTypedNext, RowsTypedNext, BaseTypedNext, Zenon DEF TypeOK

(* The QA head of the ticket goes with the place of the host.                   *)
LEMMA HeadsNext ==
  ASSUME IInv, [Next]_vars
  PROVE  Heads'
<1>1. TypeOK /\ Heads /\ Queued /\ Untouched
  BY DEF IInv
<1>2. qa \in [Ticket -> Qas] /\ (at \notin Idle => node \in Ticket)
  BY <1>1 DEF TypeOK
<1>3. ASSUME at' \in Idle
      PROVE  Heads'
  BY <1>3 DEF Heads, Idle, Building, Delivering, Pushing, Merging
<1>4. ASSUME UNCHANGED <<options, at, node, qa, recovering, qaOnly, session>>
      PROVE  Heads'
  BY <1>1, <1>4 DEF Heads
<1>5. CASE UNCHANGED vars
  <2>1. UNCHANGED <<options, at, node, qa, recovering, qaOnly, session>>
    BY <1>5 DEF vars, books, plan
  <2>2. QED
    BY <1>4, <2>1
<1>6. CASE Start \/ Resume
  <2>1. at' \in Idle
    BY <1>6, LaunchEffect DEF Idle
  <2>2. QED
    BY <1>3, <2>1
<1>7. CASE Finish \/ Crash
  <2>1. at' \in Idle
    BY <1>7, HaltEffect DEF Stopped, Left
  <2>2. QED
    BY <1>3, <2>1
<1>8. ASSUME NEW u \in Ticket, PassOver(u)
      PROVE  Heads'
  <2>1. at' \in Idle
    BY <1>8 DEF PassOver, Pass, Taking, Idle
  <2>2. QED
    BY <1>3, <2>1
<1>9. ASSUME NEW u \in Ticket, RecoverMerge(u)
      PROVE  Heads'
  BY <1>9, <1>1, <1>2 DEF RecoverMerge, Take, Taking, MergeOp, bounds, books, Queued, Untouched, Fresh,
     Heads, Idle, Building, Delivering, Pushing, Merging
<1>10. ASSUME NEW u \in Ticket, ContinueTicket(u)
      PROVE  Heads'
  BY <1>10, <1>1, <1>2 DEF ContinueTicket, Take, Taking, bounds, books, Queued, Heads, Idle, Building,
     Delivering, Pushing, Merging
<1>11. ASSUME NEW u \in Ticket, CreateWorktree(u)
      PROVE  Heads'
  <2>1. CASE at' \in Idle
    BY <1>3, <2>1
  <2>2. CASE Take(u, "open", FALSE, FALSE)
    <3>1. u \in queue /\ u \notin resumed /\ UNCHANGED <<options, qa, session>>
      BY <1>11 DEF CreateWorktree, Taking, bounds, books
    <3>2. qa[u] = "none" /\ qaOnly # u
      BY <1>1, <3>1 DEF Queued, Untouched, Fresh, Review
    <3>3. QED
      BY <1>1, <2>2, <3>1, <3>2 DEF Take, Heads, Idle, Building, Delivering, Pushing, Merging
  <2>3. QED
    BY <1>11, <2>1, <2>2 DEF CreateWorktree, Halt, Idle
<1>12. ASSUME NEW u \in Ticket, HumanEdits(u)
      PROVE  Heads'
  <2>1. UNCHANGED <<options, at, node, qa, recovering, qaOnly, session>>
    BY <1>12 DEF HumanEdits, Touch, books, bounds, plan
  <2>2. QED
    BY <1>4, <2>1
<1>13. ASSUME NEW u \in Ticket, HumanCommits(u)
      PROVE  Heads'
  <2>1. UNCHANGED <<options, at, node, qa, recovering, qaOnly, session>>
    BY <1>13 DEF HumanCommits, Touch, books, bounds, plan
  <2>2. QED
    BY <1>4, <2>1
<1>14. CASE OpenTicket
  BY <1>14, <1>1, <1>2 DEF OpenTicket, Goto, plan, bounds, Untouched, Fresh, Beginning, Review, Heads, Idle,
     Building, Delivering, Pushing, Merging
<1>15. CASE BuilderEdits
  <2>1. UNCHANGED <<options, at, node, qa, recovering, qaOnly, session>>
    BY <1>15 DEF BuilderEdits, Touch, books, bounds, plan
  <2>2. QED
    BY <1>4, <2>1
<1>16. CASE PassQa
  BY <1>16, <1>1, <1>2 DEF PassQa, Goto, plan, bounds, Heads, Idle, Building, Delivering, Pushing, Merging
<1>17. CASE WaiveQa
  BY <1>17, <1>1, <1>2 DEF WaiveQa, Goto, plan, bounds, Heads, Idle, Building, Delivering, Pushing, Merging
<1>18. CASE HumanCommitsBase
  <2>1. UNCHANGED <<options, at, node, qa, recovering, qaOnly, session>>
    BY <1>18 DEF HumanCommitsBase, Touch, books, bounds, plan
  <2>2. QED
    BY <1>4, <2>1
<1>19. ASSUME NEW how \in {"done", "blocked", "error"}, BuilderEnds(how)
      PROVE  Heads'
  <2>1. CASE at' \in Idle
    BY <1>3, <2>1
  <2>2. CASE Moved(IF options.qa THEN "qa" ELSE "commit", {})
    <3>1. /\ at = "build" /\ at' = IF options.qa THEN "qa" ELSE "commit"
          /\ UNCHANGED <<options, node, qa, recovering, qaOnly>> /\ session'[node] # "none"
      BY <1>19, BuilderEndsEffect, <1>1, <2>2 DEF Moved, Kept, TypeOK
    <3>2. ~ recovering /\ qa[node] # "finalizing"
      BY <1>1, <3>1 DEF Heads, Building
    <3>3. CASE options.qa
      BY <3>1, <3>2, <3>3 DEF Heads, Idle, Building, Delivering, Pushing, Merging
    <3>4. CASE ~ options.qa
      BY <3>1, <3>2, <3>4 DEF Heads, Idle, Building, Delivering, Pushing, Merging
    <3>5. QED
      BY <3>3, <3>4
  <2>3. QED
    BY <1>19, BuilderEndsEffect, <2>1, <2>2, Zenon DEF Stopped, Left
<1>20. CASE BeginQa
  <2>1. CASE at' \in Idle
    BY <1>3, <2>1
  <2>2. CASE Moved("review", {}) /\ qa' = [qa EXCEPT ![node] = "open"] /\ qa[node] \notin {"waived", "completed"}
    BY <1>20, BeginQaEffect, <1>1, <1>2, <2>2 DEF Moved, Kept, Heads, Idle, Building, Delivering, Pushing,
       Merging
  <2>3. QED
    BY <1>20, BeginQaEffect, <2>1, <2>2, Zenon DEF Stopped, Left, Drifted
<1>21. CASE QaBlocks
  <2>1. at' \in Idle
    BY <1>21, QaBlocksEffect DEF Stopped, Left
  <2>2. QED
    BY <1>3, <2>1
<1>22. CASE BeginFinalization
  <2>1. CASE at' \in Idle
    BY <1>3, <2>1
  <2>2. CASE Moved("commit", {}) /\ qa' = [qa EXCEPT ![node] = "finalizing"] /\ Digest(node) = cert[node]
    BY <1>22, BeginFinalizationEffect, <1>1, <1>2, <2>2 DEF Moved, Kept, Heads, Idle, Building, Delivering,
       Pushing, Merging
  <2>3. QED
    BY <1>22, BeginFinalizationEffect, <2>1, <2>2, Zenon DEF Stopped, Left, Drifted
<1>23. CASE ResumeFinalization
  <2>1. CASE at' \in Idle
    BY <1>3, <2>1
  <2>2. CASE Moved("commit", {}) /\ qa' = qa
    BY <1>23, ResumeFinalizationEffect, <1>1, <1>2, <2>2 DEF Moved, Kept, Heads, Idle, Building, Delivering,
       Pushing, Merging
  <2>3. QED
    BY <1>23, ResumeFinalizationEffect, <2>1, <2>2, Zenon DEF Stopped, Left, Drifted
<1>24. CASE PlanCommit
  <2>1. CASE at' \in Idle
    BY <1>3, <2>1
  <2>2. CASE (Moved("verify", {}) \/ Moved("committing", {"commit"})) /\ qa' = qa
    BY <1>24, PlanCommitEffect, <1>1, <1>2, <2>2 DEF Moved, Kept, Heads, Idle, Building, Delivering, Pushing,
       Merging
  <2>3. QED
    BY <1>24, PlanCommitEffect, <2>1, <2>2, Zenon DEF Stopped, Left, Drifted
<1>25. CASE CommitAll
  <2>1. CASE at' \in Idle
    BY <1>3, <2>1
  <2>2. CASE Moved("committed", {})
    BY <1>25, CommitAllEffect, <1>1, <1>2, <2>2 DEF Moved, Kept, Heads, Idle, Building, Delivering, Pushing,
       Merging
  <2>3. QED
    BY <1>25, CommitAllEffect, <2>1, <2>2, Zenon DEF Stopped, Left, Drifted
<1>26. CASE ConfirmCommit
  <2>1. CASE at' \in Idle
    BY <1>3, <2>1
  <2>2. CASE Moved("verify", {"commit"})
    BY <1>26, ConfirmCommitEffect, <1>1, <1>2, <2>2 DEF Moved, Kept, Heads, Idle, Building, Delivering,
       Pushing, Merging
  <2>3. QED
    BY <1>26, ConfirmCommitEffect, <2>1, <2>2, Zenon DEF Stopped, Left, Drifted
<1>27. CASE VerifyPublication
  <2>1. CASE at' \in Idle
    BY <1>3, <2>1
  <2>2. CASE (Moved("complete", {}) \/ Moved("merge", {}) \/ Moved("pushing", {"push"})) /\ qa' = qa
    BY <1>27, VerifyPublicationEffect, <1>1, <1>2, <2>2 DEF Moved, Kept, Heads, Idle, Building, Delivering,
       Pushing, Merging
  <2>3. QED
    BY <1>27, VerifyPublicationEffect, <2>1, <2>2, Zenon DEF Stopped, Left, Drifted
<1>28. CASE Push
  <2>1. CASE at' \in Idle
    BY <1>3, <2>1
  <2>2. CASE Moved("pushed", {})
    BY <1>28, PushEffect, <1>1, <1>2, <2>2 DEF Moved, Kept, Heads, Idle, Building, Delivering, Pushing, Merging
  <2>3. QED
    BY <1>28, PushEffect, <2>1, <2>2, Zenon DEF Stopped, Left, Drifted
<1>29. CASE ConfirmPush
  <2>1. CASE at' \in Idle
    BY <1>3, <2>1
  <2>2. CASE Moved("requesting", {"push", "review"})
    BY <1>29, ConfirmPushEffect, <1>1, <1>2, <2>2 DEF Moved, Kept, Heads, Idle, Building, Delivering,
       Pushing, Merging
  <2>3. QED
    BY <1>29, ConfirmPushEffect, <2>1, <2>2, Zenon DEF Stopped, Left, Drifted
<1>30. CASE RequestReview
  <2>1. CASE at' \in Idle
    BY <1>3, <2>1
  <2>2. CASE Moved("requested", {})
    BY <1>30, RequestReviewEffect, <1>1, <1>2, <2>2 DEF Moved, Kept, Heads, Idle, Building, Delivering,
       Pushing, Merging
  <2>3. QED
    BY <1>30, RequestReviewEffect, <2>1, <2>2, Zenon DEF Stopped, Left, Drifted
<1>31. CASE ConfirmReview
  <2>1. CASE at' \in Idle
    BY <1>3, <2>1
  <2>2. CASE Moved("complete", {"review"})
    BY <1>31, ConfirmReviewEffect, <1>1, <1>2, <2>2 DEF Moved, Kept, Heads, Idle, Building, Delivering,
       Pushing, Merging
  <2>3. QED
    BY <1>31, ConfirmReviewEffect, <2>1, <2>2, Zenon DEF Stopped, Left, Drifted
<1>32. CASE PrepareMerge
  <2>1. CASE at' \in Idle
    BY <1>3, <2>1
  <2>2. CASE Moved("merging", {"merge"})
    BY <1>32, PrepareMergeEffect, <1>1, <1>2, <2>2 DEF Moved, Kept, Heads, Idle, Building, Delivering,
       Pushing, Merging
  <2>3. QED
    BY <1>32, PrepareMergeEffect, <2>1, <2>2, Zenon DEF Stopped, Left, Drifted
<1>33. CASE ReconcileMerge \/ InspectIndex \/ CheckMerged
  <2>1. CASE at' \in Idle
    BY <1>3, <2>1
  <2>2. CASE \E label \in {"merged", "checking", "squashing", "staged", "removing"} : Moved(label, {})
    BY <1>33, SurveyEffect, <1>1, <1>2, <2>2 DEF Moved, Kept, Heads, Idle, Building, Delivering,
       Pushing, Merging
  <2>3. QED
    BY <1>33, SurveyEffect, <2>1, <2>2, Zenon DEF Stopped, Left, Drifted
<1>34. CASE CheckSource
  <2>1. CASE at' \in Idle
    BY <1>3, <2>1
  <2>2. CASE Moved("staging", {}) /\ qa' = qa
    BY <1>34, CheckSourceEffect, <1>1, <1>2, <2>2 DEF Moved, Kept, Heads, Idle, Building, Delivering,
       Pushing, Merging
  <2>3. QED
    BY <1>34, CheckSourceEffect, <2>1, <2>2, Zenon DEF Stopped, Left, Drifted
<1>35. CASE SquashMerge
  <2>1. CASE at' \in Idle
    BY <1>3, <2>1
  <2>2. CASE Moved("staged", {})
    BY <1>35, SquashMergeEffect, <1>1, <1>2, <2>2 DEF Moved, Kept, Heads, Idle, Building, Delivering,
       Pushing, Merging
  <2>3. QED
    BY <1>35, SquashMergeEffect, <2>1, <2>2, Zenon DEF Stopped, Left, Drifted
<1>36. CASE CommitMerge
  <2>1. CASE at' \in Idle
    BY <1>3, <2>1
  <2>2. CASE Moved("merged", {})
    BY <1>36, CommitMergeEffect, <1>1, <1>2, <2>2 DEF Moved, Kept, Heads, Idle, Building, Delivering,
       Pushing, Merging
  <2>3. QED
    BY <1>36, CommitMergeEffect, <2>1, <2>2, Zenon DEF Stopped, Left, Drifted
<1>37. CASE ConfirmMerge
  <2>1. CASE at' \in Idle
    BY <1>3, <2>1
  <2>2. CASE Moved("cleanup", {"merge"})
    BY <1>37, ConfirmMergeEffect, <1>1, <1>2, <2>2 DEF Moved, Kept, Heads, Idle, Building, Delivering,
       Pushing, Merging
  <2>3. QED
    BY <1>37, ConfirmMergeEffect, <2>1, <2>2, Zenon DEF Stopped, Left, Drifted
<1>38. CASE RemoveMerged
  <2>1. CASE at' \in Idle
    BY <1>3, <2>1
  <2>2. CASE Moved("deleting", {})
    BY <1>38, RemoveMergedEffect, <1>1, <1>2, <2>2 DEF Moved, Kept, Heads, Idle, Building, Delivering,
       Pushing, Merging
  <2>3. QED
    BY <1>38, RemoveMergedEffect, <2>1, <2>2, Zenon DEF Stopped, Left, Drifted
<1>39. CASE DeleteBranch
  <2>1. CASE at' \in Idle
    BY <1>3, <2>1
  <2>2. CASE Moved("complete", {})
    BY <1>39, DeleteBranchEffect, <1>1, <1>2, <2>2 DEF Moved, Kept, Heads, Idle, Building, Delivering,
       Pushing, Merging
  <2>3. QED
    BY <1>39, DeleteBranchEffect, <2>1, <2>2, Zenon DEF Stopped, Left, Drifted
<1>40. CASE PlanCompletion
  <2>1. CASE at' \in Idle
    BY <1>3, <2>1
  <2>2. CASE Moved("closing", {"complete"}) \/ Moved("completing", {"complete"})
    BY <1>40, PlanCompletionEffect, <1>1, <1>2, <2>2 DEF Moved, Kept, Heads, Idle, Building, Delivering,
       Pushing, Merging
  <2>3. QED
    BY <1>40, PlanCompletionEffect, <2>1, <2>2, Zenon DEF Stopped, Left, Drifted
<1>41. CASE CompleteTicket
  BY <1>41, CompleteTicketEffect, <1>1, <1>2 DEF Kept, Heads, Idle, Building, Delivering, Pushing, Merging
<1>42. CASE ConfirmCompletion
  <2>1. CASE at' \in Idle
    BY <1>3, <2>1
  <2>2. CASE Moved("closing", {"complete"})
    BY <1>42, ConfirmCompletionEffect, <1>1, <1>2, <2>2 DEF Moved, Kept, Heads, Idle, Building, Delivering,
       Pushing, Merging
  <2>3. QED
    BY <1>42, ConfirmCompletionEffect, <2>1, <2>2, Zenon DEF Stopped, Left, Drifted
<1>43. CASE CompleteQa
  <2>1. CASE at' \in Idle
    BY <1>3, <2>1
  <2>2. CASE Moved("close", {"complete"})
    BY <1>43, CompleteQaEffect, <1>1, <1>2, <2>2 DEF Moved, Kept, Heads, Idle, Building, Delivering, Pushing,
       Merging
  <2>3. QED
    BY <1>43, CompleteQaEffect, <2>1, <2>2, Zenon DEF Stopped, Left, Drifted
<1>44. CASE CloseSession
  <2>1. CASE at' \in Idle
    BY <1>3, <2>1
  <2>2. CASE Moved("tidy", {})
    BY <1>44, CloseSessionEffect, <1>1, <1>2, <2>2 DEF Moved, Kept, Heads, Idle, Building, Delivering,
       Pushing, Merging
  <2>3. QED
    BY <1>44, CloseSessionEffect, <2>1, <2>2, Zenon DEF Stopped, Left, Drifted
<1>45. CASE RemoveWorktree
  <2>1. at' \in Idle
    BY <1>45, RemoveWorktreeEffect DEF Stopped, Left
  <2>2. QED
    BY <1>3, <2>1
<1>46. QED
  BY <1>5, <1>6, <1>7, <1>8, <1>9, <1>10, <1>11, <1>12, <1>13, <1>14, <1>15, <1>16, <1>17, <1>18, <1>19,
     <1>20, <1>21, <1>22, <1>23, <1>24, <1>25, <1>26, <1>27, <1>28, <1>29, <1>30, <1>31, <1>32, <1>33,
     <1>34, <1>35, <1>36, <1>37, <1>38, <1>39, <1>40, <1>41, <1>42, <1>43, <1>44, <1>45, Zenon
     DEF Next, Loop, Build, Finalize, Deliver, Complete, Human

(* What is pushed or merged is what the last look at the source found.          *)
LEMMA ReceiptsNext ==
  ASSUME IInv, [Next]_vars
  PROVE  Receipts'
<1>1. TypeOK /\ Heads /\ Receipts /\ Contents
  BY DEF IInv
<1>2. at \notin Idle =>
        /\ node \in Ticket /\ Grown(node) /\ qa[node] \in Qas
        /\ tree[node] \in Nat /\ head[node] \in Nat /\ cert[node].tree \in Nat
  BY <1>1 DEF TypeOK, Contents
<1>3. journal \in Journal /\ head \in [Ticket -> Nat] /\ tree \in [Ticket -> Nat] /\ remote \in [Ticket -> Nat]
  BY <1>1 DEF TypeOK
<1>4. "push" \in Kind /\ "review" \in Kind
  BY DEF Kind
<1>5. ASSUME at' \notin {"committed", "verify", "merge"} \cup Pushing
      PROVE  Receipts'
  BY <1>5 DEF Receipts, Pushing
<1>6. ASSUME UNCHANGED <<options, at, node, qa, cert, head, journal, remote, request, late>>
      PROVE  Receipts'
  BY <1>1, <1>6 DEF Receipts, Status, Certified
<1>7. CASE UNCHANGED vars
  <2>1. UNCHANGED <<options, at, node, qa, cert, head, journal, remote, request, late>>
    BY <1>7 DEF vars, books, plan, git
  <2>2. QED
    BY <1>6, <2>1
<1>8. CASE Start \/ Resume
  <2>1. at' \notin {"committed", "verify", "merge"} \cup Pushing
    BY <1>8, LaunchEffect DEF Stopped, Left, Moved, Drifted, Pushing, Idle
  <2>2. QED
    BY <1>5, <2>1
<1>9. CASE Finish \/ Crash
  <2>1. at' \notin {"committed", "verify", "merge"} \cup Pushing
    BY <1>9, HaltEffect DEF Stopped, Left, Moved, Drifted, Pushing, Idle
  <2>2. QED
    BY <1>5, <2>1
<1>10. ASSUME NEW u \in Ticket, PassOver(u)
      PROVE  Receipts'
  <2>1. at' \notin {"committed", "verify", "merge"} \cup Pushing
    BY <1>10 DEF PassOver, Pass, Taking, Pushing
  <2>2. QED
    BY <1>5, <2>1
<1>11. ASSUME NEW u \in Ticket, RecoverMerge(u)
      PROVE  Receipts'
  <2>1. at' \notin {"committed", "verify", "merge"} \cup Pushing
    BY <1>11 DEF RecoverMerge, Take, Taking, MergeOp, Pushing
  <2>2. QED
    BY <1>5, <2>1
<1>12. ASSUME NEW u \in Ticket, ContinueTicket(u)
      PROVE  Receipts'
  <2>1. at' \notin {"committed", "verify", "merge"} \cup Pushing
    BY <1>12 DEF ContinueTicket, Take, Taking, MergeOp, Pushing
  <2>2. QED
    BY <1>5, <2>1
<1>13. ASSUME NEW u \in Ticket, CreateWorktree(u)
      PROVE  Receipts'
  <2>1. at' \notin {"committed", "verify", "merge"} \cup Pushing
    BY <1>13 DEF CreateWorktree, Take, Taking, Halt, Forgotten, Pushing
  <2>2. QED
    BY <1>5, <2>1
<1>14. ASSUME NEW u \in Ticket, HumanEdits(u)
      PROVE  Receipts'
  <2>1. UNCHANGED <<options, at, node, qa, cert, head, journal, remote, request, late>>
    BY <1>14 DEF HumanEdits, Touch, books, bounds, plan
  <2>2. QED
    BY <1>6, <2>1
<1>15. ASSUME NEW u \in Ticket, HumanCommits(u)
      PROVE  Receipts'
  <2>1. UNCHANGED <<options, at, node, qa, cert, journal, remote, request>>
    BY <1>15 DEF HumanCommits, books, plan
  <2>2. CASE at \in Idle
    BY <1>5, <2>1, <2>2 DEF Idle, Pushing
  <2>3. CASE at \notin Idle /\ u # node
    <3>1. head'[node] = head[node] /\ (node \in late => node \in late')
      BY <1>15, <1>2, <1>3, <2>3 DEF HumanCommits
    <3>2. QED
      BY <1>1, <2>1, <3>1 DEF Receipts, Status, Certified
  <2>4. CASE at \notin Idle /\ u = node
    <3>1. head'[node] = tree[node] /\ head[node] <= head'[node] /\ (node \in late => node \in late')
          /\ (at \in {"pushing", "merge"} => node \in late')
      BY <1>15, <1>2, <1>3, <2>4 DEF HumanCommits, Grown
    <3>2. at \in {"committed", "verify"} /\ options.qa /\ qa[node] = "finalizing" => cert[node].tree <= head'[node]
      BY <1>1, <1>2, <2>4, <3>1 DEF Receipts
    <3>3. at \in {"pushing", "merge"} => head'[node] # 0
      BY <1>1, <1>2, <2>4, <3>1 DEF Receipts
    <3>4. QED
      BY <1>1, <2>1, <3>1, <3>2, <3>3 DEF Receipts, Status, Certified
  <2>5. QED
    BY <2>2, <2>3, <2>4
<1>16. CASE OpenTicket
  <2>1. at' \notin {"committed", "verify", "merge"} \cup Pushing
    BY <1>16 DEF OpenTicket, Goto, Pushing
  <2>2. QED
    BY <1>5, <2>1
<1>17. CASE BuilderEdits
  <2>1. UNCHANGED <<options, at, node, qa, cert, head, journal, remote, request, late>>
    BY <1>17 DEF BuilderEdits, Touch, books, bounds, plan
  <2>2. QED
    BY <1>6, <2>1
<1>18. CASE PassQa
  <2>1. at' \notin {"committed", "verify", "merge"} \cup Pushing
    BY <1>18 DEF PassQa, Goto, Digest, Pushing
  <2>2. QED
    BY <1>5, <2>1
<1>19. CASE WaiveQa
  <2>1. at' \notin {"committed", "verify", "merge"} \cup Pushing
    BY <1>19 DEF WaiveQa, Goto, Pushing
  <2>2. QED
    BY <1>5, <2>1
<1>20. CASE HumanCommitsBase
  <2>1. UNCHANGED <<options, at, node, qa, cert, head, journal, remote, request, late>>
    BY <1>20 DEF HumanCommitsBase, Touch, books, bounds, plan
  <2>2. QED
    BY <1>6, <2>1
<1>21. ASSUME NEW how \in {"done", "blocked", "error"}, BuilderEnds(how)
      PROVE  Receipts'
  <2>1. at' \notin {"committed", "verify", "merge"} \cup Pushing
    BY <1>21, BuilderEndsEffect DEF Stopped, Left, Moved, Drifted, Pushing, Idle
  <2>2. QED
    BY <1>5, <2>1
<1>22. CASE BeginQa
  <2>1. at' \notin {"committed", "verify", "merge"} \cup Pushing
    BY <1>22, BeginQaEffect DEF Stopped, Left, Moved, Drifted, Pushing, Idle
  <2>2. QED
    BY <1>5, <2>1
<1>23. CASE QaBlocks
  <2>1. at' \notin {"committed", "verify", "merge"} \cup Pushing
    BY <1>23, QaBlocksEffect DEF Stopped, Left, Moved, Drifted, Pushing, Idle
  <2>2. QED
    BY <1>5, <2>1
<1>24. CASE BeginFinalization
  <2>1. at' \notin {"committed", "verify", "merge"} \cup Pushing
    BY <1>24, BeginFinalizationEffect DEF Stopped, Left, Moved, Drifted, Pushing, Idle
  <2>2. QED
    BY <1>5, <2>1
<1>25. CASE ResumeFinalization
  <2>1. at' \notin {"committed", "verify", "merge"} \cup Pushing
    BY <1>25, ResumeFinalizationEffect DEF Stopped, Left, Moved, Drifted, Pushing, Idle
  <2>2. QED
    BY <1>5, <2>1
<1>26. CASE PlanCommit
  <2>1. CASE at' \notin {"committed", "verify", "merge"} \cup Pushing
    BY <1>5, <2>1
  <2>2. CASE Moved("verify", {}) /\ qa' = qa /\ tree[node] = head[node]
    <3>1. at' = "verify" /\ UNCHANGED <<options, node, qa, cert, head>> /\ node \in Ticket /\ at = "commit"
      BY <1>26, PlanCommitEffect, <2>2 DEF Moved, Kept, git
    <3>2. QED
      BY <1>2, <2>2, <3>1 DEF Grown, Idle, Receipts, Pushing
  <2>9. QED
    BY <1>26, PlanCommitEffect, <2>1, <2>2 DEF Stopped, Left, Moved, Drifted, Pushing, Idle
<1>27. CASE CommitAll
  <2>1. CASE at' \notin {"committed", "verify", "merge"} \cup Pushing
    BY <1>5, <2>1
  <2>2. CASE Moved("committed", {}) /\ head' = [head EXCEPT ![node] = tree[node]]
    <3>1. at' = "committed" /\ UNCHANGED <<options, node, qa, cert>> /\ node \in Ticket /\ at = "committing"
      BY <1>27, CommitAllEffect, <2>2 DEF Moved, Kept
    <3>2. head'[node] = tree[node]
      BY <1>3, <2>2, <3>1
    <3>3. QED
      BY <1>2, <3>1, <3>2 DEF Grown, Idle, Receipts, Pushing
  <2>9. QED
    BY <1>27, CommitAllEffect, <2>1, <2>2 DEF Stopped, Left, Moved, Drifted, Pushing, Idle
<1>28. CASE ConfirmCommit
  <2>1. CASE at' \notin {"committed", "verify", "merge"} \cup Pushing
    BY <1>5, <2>1
  <2>2. CASE Moved("verify", {"commit"})
    <3>1. at' = "verify" /\ UNCHANGED <<options, node, qa, cert, head>> /\ at = "committed"
      BY <1>28, ConfirmCommitEffect, <2>2 DEF Moved, Kept, git
    <3>2. QED
      BY <1>1, <3>1 DEF Receipts, Pushing
  <2>9. QED
    BY <1>28, ConfirmCommitEffect, <2>1, <2>2 DEF Stopped, Left, Pushing, Idle
<1>29. CASE VerifyPublication
  <2>1. CASE at' \notin {"committed", "verify", "merge"} \cup Pushing
    BY <1>5, <2>1
  <2>2. CASE qa' = qa /\ (Bound => Matches(node, TRUE)) /\ head[node] # 0
    <3>1. UNCHANGED <<options, cert, head, late>> /\ node \in Ticket /\ at = "verify"
      BY <1>29, VerifyPublicationEffect DEF git
    <3>2. options.qa => Certified(node)
      <4>1. CASE qa[node] = "waived"
        BY <4>1 DEF Certified
      <4>2. CASE options.qa /\ qa[node] # "waived"
        <5>1. qa[node] = "finalizing"
          BY <1>1, <3>1, <4>2 DEF Heads, Delivering
        <5>2. tree[node] = cert[node].tree
          BY <2>2, <4>2 DEF Bound, Matches, Digest
        <5>3. cert[node].tree <= head[node] /\ head[node] <= tree[node]
          BY <1>1, <1>2, <3>1, <4>2, <5>1 DEF Receipts, Grown, Idle
        <5>4. head[node] = cert[node].tree
          BY <1>2, <3>1, <5>2, <5>3 DEF Idle
        <5>5. QED
          BY <5>1, <5>4 DEF Certified
      <4>3. QED
        BY <4>1, <4>2
    <3>3. CASE Moved("merge", {})
      <4>1. at' = "merge" /\ node' = node
        BY <3>3 DEF Moved, Kept
      <4>2. QED
        BY <2>2, <3>1, <3>2, <4>1 DEF Receipts, Pushing, Certified
    <3>4. CASE /\ Moved("pushing", {"push"}) /\ options.completion = "review" /\ journal'[node]["push"].intent[1] = head[node]
               /\ journal'[node]["push"].status \in Standing
      <4>1. at' = "pushing" /\ node' = node
        BY <3>4 DEF Moved, Kept
      <4>2. QED
        BY <2>2, <3>1, <3>2, <3>4, <4>1 DEF Receipts, Pushing, Certified, Status
    <3>5. CASE at' \notin {"merge", "pushing"}
      BY <1>29, VerifyPublicationEffect, <1>5, <3>5 DEF Stopped, Left, Moved, Drifted, Pushing, Idle
    <3>6. QED
      BY <1>29, VerifyPublicationEffect, <3>3, <3>4, <3>5 DEF Moved, Stopped, Left, Drifted, Status,
         Standing, Idle
  <2>9. QED
    BY <1>29, VerifyPublicationEffect, <2>1, <2>2 DEF Stopped, Left, Moved, Drifted, Pushing, Idle
<1>30. CASE Push
  <2>1. CASE at' \notin {"committed", "verify", "merge"} \cup Pushing
    BY <1>5, <2>1
  <2>2. CASE Moved("pushed", {}) /\ remote' = [remote EXCEPT ![node] = head[node]]
    <3>1. at' = "pushed" /\ UNCHANGED <<options, node, late>> /\ node \in Ticket /\ at = "pushing"
      BY <1>30, PushEffect, <2>2 DEF Moved, Kept
    <3>2. remote'[node] = head[node] /\ journal'[node]["push"] = journal[node]["push"]
      BY <1>3, <1>4, <2>2, <3>1 DEF Moved, Rows
    <3>3. QED
      BY <1>1, <3>1, <3>2 DEF Receipts, Pushing, Status
  <2>9. QED
    BY <1>30, PushEffect, <2>1, <2>2 DEF Stopped, Left, Moved, Drifted, Pushing, Idle
<1>31. CASE ConfirmPush
  <2>1. CASE at' \notin {"committed", "verify", "merge"} \cup Pushing
    BY <1>5, <2>1
  <2>2. CASE Moved("requesting", {"push", "review"})
    <3>1. at' = "requesting" /\ UNCHANGED <<options, node>> /\ at = "pushed"
      BY <1>31, ConfirmPushEffect, <2>2 DEF Moved, Kept
    <3>2. journal'[node]["push"].status = "confirmed" /\ journal'[node]["review"].status \in Standing
      BY <1>31, ConfirmPushEffect, <3>1 DEF Stopped, Left, Idle, Standing
    <3>3. QED
      BY <1>1, <3>1, <3>2 DEF Receipts, Pushing, Status
  <2>9. QED
    BY <1>31, ConfirmPushEffect, <2>1, <2>2 DEF Stopped, Left, Moved, Drifted, Pushing, Idle
<1>32. CASE RequestReview
  <2>1. CASE at' \notin {"committed", "verify", "merge"} \cup Pushing
    BY <1>5, <2>1
  <2>2. CASE Moved("requested", {}) /\ node \in request'
    <3>1. at' = "requested" /\ UNCHANGED <<options, node>> /\ at = "requesting" /\ node \in Ticket
      BY <1>32, RequestReviewEffect, <2>2 DEF Moved, Kept
    <3>2. journal'[node]["push"] = journal[node]["push"] /\ journal'[node]["review"] = journal[node]["review"]
      BY <1>4, <2>2, <3>1 DEF Moved, Rows
    <3>3. QED
      BY <1>1, <2>2, <3>1, <3>2 DEF Receipts, Pushing, Status
  <2>9. QED
    BY <1>32, RequestReviewEffect, <2>1, <2>2 DEF Stopped, Left, Moved, Drifted, Pushing, Idle
<1>33. CASE ConfirmReview
  <2>1. at' \notin {"committed", "verify", "merge"} \cup Pushing
    BY <1>33, ConfirmReviewEffect DEF Stopped, Left, Moved, Drifted, Pushing, Idle
  <2>2. QED
    BY <1>5, <2>1
<1>34. CASE PrepareMerge
  <2>1. at' \notin {"committed", "verify", "merge"} \cup Pushing
    BY <1>34, PrepareMergeEffect DEF Stopped, Left, Moved, Drifted, Pushing, Idle
  <2>2. QED
    BY <1>5, <2>1
<1>35. CASE ReconcileMerge \/ InspectIndex \/ CheckMerged
  <2>1. at' \notin {"committed", "verify", "merge"} \cup Pushing
    BY <1>35, SurveyEffect DEF Stopped, Left, Moved, Drifted, Pushing, Idle
  <2>2. QED
    BY <1>5, <2>1
<1>36. CASE CheckSource
  <2>1. at' \notin {"committed", "verify", "merge"} \cup Pushing
    BY <1>36, CheckSourceEffect DEF Stopped, Left, Moved, Drifted, Pushing, Idle
  <2>2. QED
    BY <1>5, <2>1
<1>37. CASE SquashMerge
  <2>1. at' \notin {"committed", "verify", "merge"} \cup Pushing
    BY <1>37, SquashMergeEffect DEF Stopped, Left, Moved, Drifted, Pushing, Idle
  <2>2. QED
    BY <1>5, <2>1
<1>38. CASE CommitMerge
  <2>1. at' \notin {"committed", "verify", "merge"} \cup Pushing
    BY <1>38, CommitMergeEffect DEF Stopped, Left, Moved, Drifted, Pushing, Idle
  <2>2. QED
    BY <1>5, <2>1
<1>39. CASE ConfirmMerge
  <2>1. at' \notin {"committed", "verify", "merge"} \cup Pushing
    BY <1>39, ConfirmMergeEffect DEF Stopped, Left, Moved, Drifted, Pushing, Idle
  <2>2. QED
    BY <1>5, <2>1
<1>40. CASE RemoveMerged
  <2>1. at' \notin {"committed", "verify", "merge"} \cup Pushing
    BY <1>40, RemoveMergedEffect DEF Stopped, Left, Moved, Drifted, Pushing, Idle
  <2>2. QED
    BY <1>5, <2>1
<1>41. CASE DeleteBranch
  <2>1. at' \notin {"committed", "verify", "merge"} \cup Pushing
    BY <1>41, DeleteBranchEffect DEF Stopped, Left, Moved, Drifted, Pushing, Idle
  <2>2. QED
    BY <1>5, <2>1
<1>42. CASE PlanCompletion
  <2>1. at' \notin {"committed", "verify", "merge"} \cup Pushing
    BY <1>42, PlanCompletionEffect DEF Stopped, Left, Moved, Drifted, Pushing, Idle
  <2>2. QED
    BY <1>5, <2>1
<1>43. CASE CompleteTicket
  <2>1. at' \notin {"committed", "verify", "merge"} \cup Pushing
    BY <1>43, CompleteTicketEffect DEF Stopped, Left, Moved, Drifted, Pushing, Idle
  <2>2. QED
    BY <1>5, <2>1
<1>44. CASE ConfirmCompletion
  <2>1. at' \notin {"committed", "verify", "merge"} \cup Pushing
    BY <1>44, ConfirmCompletionEffect DEF Stopped, Left, Moved, Drifted, Pushing, Idle
  <2>2. QED
    BY <1>5, <2>1
<1>45. CASE CompleteQa
  <2>1. at' \notin {"committed", "verify", "merge"} \cup Pushing
    BY <1>45, CompleteQaEffect DEF Stopped, Left, Moved, Drifted, Pushing, Idle
  <2>2. QED
    BY <1>5, <2>1
<1>46. CASE CloseSession
  <2>1. at' \notin {"committed", "verify", "merge"} \cup Pushing
    BY <1>46, CloseSessionEffect DEF Stopped, Left, Moved, Drifted, Pushing, Idle
  <2>2. QED
    BY <1>5, <2>1
<1>47. CASE RemoveWorktree
  <2>1. at' \notin {"committed", "verify", "merge"} \cup Pushing
    BY <1>47, RemoveWorktreeEffect DEF Stopped, Left, Moved, Drifted, Pushing, Idle
  <2>2. QED
    BY <1>5, <2>1
<1>48. QED
  BY <1>7, <1>8, <1>9, <1>10, <1>11, <1>12, <1>13, <1>14, <1>15, <1>16, <1>17, <1>18, <1>19, <1>20, <1>21,
     <1>22, <1>23, <1>24, <1>25, <1>26, <1>27, <1>28, <1>29, <1>30, <1>31, <1>32, <1>33, <1>34, <1>35,
     <1>36, <1>37, <1>38, <1>39, <1>40, <1>41, <1>42, <1>43, <1>44, <1>45, <1>46, <1>47, Zenon
     DEF Next, Loop, Build, Finalize, Deliver, Complete, Human

(* A merge and a completion find the journal as their place tells.              *)
LEMMA ClosingsNext ==
  ASSUME IInv, [Next]_vars
  PROVE  Closings'
<1>1. TypeOK /\ Heads /\ Receipts /\ Closings /\ Contents /\ Queued /\ Untouched /\ Merges /\ Pushes /\ Done
  BY DEF IInv
<1>2. at \notin Idle => /\ node \in Ticket /\ qa[node] \in Qas /\ tree[node] \in Nat /\ head[node] \in Nat
                        /\ Grown(node) /\ MergeKnown(node) /\ PushKnown(node) /\ DoneWell(node) /\ cert[node].tree \in Nat
  BY <1>1 DEF TypeOK, Contents, Merges, Pushes, Done
<1>3. qa \in [Ticket -> Qas] /\ tracker \in Tracker
  BY <1>1 DEF TypeOK
<1>4. {"push", "review", "merge", "complete"} \subseteq Kind
  BY DEF Kind
<1>5. ASSUME at' \in Idle, viaMerge' = FALSE
      PROVE  Closings'
  BY <1>5 DEF Closings, Idle, Merging, Standings, Removing, Completing
<1>6. ASSUME UNCHANGED <<options, at, node, qa, cert, journal, tracker, recovering, qaOnly, viaMerge>>
      PROVE  Closings'
  BY <1>1, <1>6 DEF Closings, Delivered, Status, Recorded
<1>7. ASSUME ~ viaMerge, UNCHANGED viaMerge, at' \notin Idle, at' \notin Later,
             tracker'[node'] = "done" => qa'[node'] = "finalizing"
      PROVE  Closings'
  BY <1>7 DEF Closings, Later, Merging, Standings, Removing, Completing
<1>8. at \notin Standings \cup Removing \cup {"complete", "closing", "close"} => ~ viaMerge
  BY <1>1 DEF Closings
<1>9. at \notin Idle \cup Completing \cup {"close", "tidy", "open"} /\ tracker[node] = "done" => qa[node] = "finalizing"
  BY <1>1 DEF Closings
<1>10. at \in {"build", "qa", "review"} => qa[node] # "finalizing" /\ tracker[node] # "done"
  BY <1>1 DEF Closings, Heads, Building, Completing, Idle
<1>11. CASE UNCHANGED vars
  <2>1. UNCHANGED <<options, at, node, qa, cert, journal, tracker, recovering, qaOnly, viaMerge>>
    BY <1>11 DEF vars, books, plan, git
  <2>2. QED
    BY <1>6, <2>1
<1>12. CASE Start \/ Resume
  <2>1. at' \in Idle /\ viaMerge' = FALSE
    BY <1>12, LaunchEffect, <1>1, <1>8 DEF Start, Resume, Launch, Idle, Closings, Standings, Removing
  <2>2. QED
    BY <1>5, <2>1
<1>13. CASE Finish \/ Crash
  <2>1. at' \in Idle /\ viaMerge' = FALSE
    BY <1>13, <1>8, HaltEffect DEF Stopped, Left
  <2>2. QED
    BY <1>5, <2>1
<1>14. ASSUME NEW u \in Ticket, PassOver(u)
      PROVE  Closings'
  <2>1. at' \in Idle /\ viaMerge' = FALSE
    BY <1>14, <1>8 DEF PassOver, Pass, Taking, Idle, Standings, Removing
  <2>2. QED
    BY <1>5, <2>1
<1>15. ASSUME NEW u \in Ticket, RecoverMerge(u)
      PROVE  Closings'
  <2>1. /\ node' = u /\ viaMerge' /\ qa[u] = "finalizing" /\ UNCHANGED <<options, qa, journal>>
        /\ (at' = "merging" /\ Status(u, "merge") = "in_progress") \/ (at' = "cleanup" /\ Status(u, "merge") = "confirmed")
    BY <1>15 DEF RecoverMerge, Take, MergeOp, Status, bounds, books
  <2>2. options.completion = "merge"
    BY <1>15, <1>1, <2>1 DEF Merges, MergeKnown, Standing
  <2>3. QED
    BY <2>1, <2>2 DEF Closings, Merging, Standings, Removing, Completing, Idle, Status, Standing
<1>16. ASSUME NEW u \in Ticket, ContinueTicket(u)
      PROVE  Closings'
  <2>1. /\ node' = u /\ viaMerge' = FALSE /\ at' = "open" /\ recovering' = (qa[u] = "finalizing") /\ u \in queue
        /\ UNCHANGED <<options, qa, journal, tracker, qaOnly>>
    BY <1>16 DEF ContinueTicket, Take, Taking, bounds, books
  <2>2. tracker[u] = "done" /\ qaOnly = u => qa[u] = "finalizing"
    BY <1>16, <1>1, <2>1 DEF Queued, Untouched, Beginning, Done, DoneWell, Delivered, Review
  <2>3. QED
    BY <2>1, <2>2 DEF Closings, Merging, Standings, Removing, Completing, Idle
<1>17. ASSUME NEW u \in Ticket, CreateWorktree(u)
      PROVE  Closings'
  <2>1. CASE at' \in Idle /\ viaMerge' = FALSE
    BY <1>5, <2>1
  <2>2. CASE Take(u, "open", FALSE, FALSE)
    <3>1. u \in queue /\ u \notin resumed /\ UNCHANGED <<options, qa, session>>
      BY <1>17 DEF CreateWorktree, Taking, bounds, books
    <3>2. qaOnly # u
      BY <1>1, <3>1 DEF Queued, Untouched, Fresh, Review
    <3>3. QED
      BY <2>2, <3>2 DEF Take, Closings, Merging, Standings, Removing, Completing, Idle
  <2>3. QED
    BY <1>17, <2>1, <2>2 DEF CreateWorktree, Halt, Forgotten, Idle
<1>18. ASSUME NEW u \in Ticket, HumanEdits(u)
      PROVE  Closings'
  <2>1. UNCHANGED <<options, at, node, qa, cert, journal, tracker, recovering, qaOnly, viaMerge>>
    BY <1>18 DEF HumanEdits, Touch, books, bounds, plan
  <2>2. QED
    BY <1>6, <2>1
<1>19. ASSUME NEW u \in Ticket, HumanCommits(u)
      PROVE  Closings'
  <2>1. UNCHANGED <<options, at, node, qa, cert, journal, tracker, recovering, qaOnly, viaMerge>>
    BY <1>19 DEF HumanCommits, Touch, books, bounds, plan
  <2>2. QED
    BY <1>6, <2>1
<1>20. CASE OpenTicket
  <2>1. /\ at = "open" /\ at' \in {"finalize", "qa", "build"} /\ UNCHANGED <<node, viaMerge, qa>> /\ ~ viaMerge
    BY <1>20, <1>8 DEF OpenTicket, Goto, plan, Standings, Removing
  <2>2. tracker'[node] = "done" => qa[node] = "finalizing"
    <3>1. CASE recovering
      BY <1>1, <2>1, <3>1 DEF Heads
    <3>2. CASE ~ recovering /\ qaOnly = node
      BY <1>20, <1>1, <2>1, <3>2 DEF OpenTicket, Closings
    <3>3. CASE ~ recovering /\ qaOnly # node
      BY <1>20, <1>2, <1>3, <2>1, <3>3 DEF OpenTicket, Tracker, Idle
    <3>4. QED
      BY <3>1, <3>2, <3>3
  <2>3. QED
    BY <1>7, <2>1, <2>2 DEF Idle, Later, Merging, Completing
<1>21. CASE BuilderEdits
  <2>1. UNCHANGED <<options, at, node, qa, cert, journal, tracker, recovering, qaOnly, viaMerge>>
    BY <1>21 DEF BuilderEdits, Touch, books, bounds, plan
  <2>2. QED
    BY <1>6, <2>1
<1>22. CASE PassQa
  <2>1. /\ at' \notin Idle /\ at' \notin Later
        /\ UNCHANGED <<node, viaMerge, tracker>> /\ ~ viaMerge /\ tracker[node] # "done"
    BY <1>22, <1>8, <1>10 DEF PassQa, Goto, plan, Idle, Standings, Removing, Later, Merging, Completing
  <2>2. QED
    BY <1>7, <2>1
<1>23. CASE WaiveQa
  <2>1. /\ at' \notin Idle /\ at' \notin Later
        /\ UNCHANGED <<node, viaMerge, tracker>> /\ ~ viaMerge /\ tracker[node] # "done"
    BY <1>23, <1>8, <1>10 DEF WaiveQa, Goto, plan, Idle, Standings, Removing, Later, Merging, Completing
  <2>2. QED
    BY <1>7, <2>1
<1>24. CASE HumanCommitsBase
  <2>1. UNCHANGED <<options, at, node, qa, cert, journal, tracker, recovering, qaOnly, viaMerge>>
    BY <1>24 DEF HumanCommitsBase, Touch, books, bounds, plan
  <2>2. QED
    BY <1>6, <2>1
<1>25. ASSUME NEW how \in {"done", "blocked", "error"}, BuilderEnds(how)
      PROVE  Closings'
  <2>1. CASE at' \in Idle /\ viaMerge' = FALSE
    BY <1>5, <2>1
  <2>2. CASE Moved(IF options.qa THEN "qa" ELSE "commit", {})
    <3>1. /\ at' \notin Idle /\ at' \notin Later
          /\ UNCHANGED <<node, viaMerge>> /\ ~ viaMerge
      BY <1>25, BuilderEndsEffect, <1>8, <2>2 DEF Moved, Kept, Idle, Later, Merging, Completing, Standings, Removing
    <3>2. tracker'[node] = "done" => qa'[node] = "finalizing"
      BY <1>25, BuilderEndsEffect, <1>2, <1>3, <1>9, <1>10, <2>2 DEF Moved, Idle, Completing
    <3>3. QED
      BY <1>7, <3>1, <3>2
  <2>9. QED
    BY <1>25, BuilderEndsEffect, <2>1, <2>2, Zenon DEF Stopped, Left, Drifted
<1>26. CASE BeginQa
  <2>1. CASE at' \in Idle /\ viaMerge' = FALSE
    BY <1>5, <2>1
  <2>2. CASE Moved("review", {}) /\ qa' = [qa EXCEPT ![node] = "open"] /\ qa[node] \notin {"waived", "completed"}
    <3>1. /\ at' \notin Idle /\ at' \notin Later
          /\ UNCHANGED <<node, viaMerge>> /\ ~ viaMerge
      BY <1>26, BeginQaEffect, <1>8, <2>2 DEF Moved, Kept, Idle, Later, Merging, Completing, Standings, Removing
    <3>2. tracker'[node] = "done" => qa'[node] = "finalizing"
      BY <1>26, BeginQaEffect, <1>2, <1>3, <1>9, <1>10, <2>2 DEF Moved, Idle, Completing
    <3>3. QED
      BY <1>7, <3>1, <3>2
  <2>9. QED
    BY <1>26, BeginQaEffect, <2>1, <2>2, Zenon DEF Stopped, Left, Drifted
<1>27. CASE QaBlocks
  <2>1. at' \in Idle /\ viaMerge' = FALSE
    BY <1>27, <1>8, QaBlocksEffect DEF Stopped, Left
  <2>2. QED
    BY <1>5, <2>1
<1>28. CASE BeginFinalization
  <2>1. CASE at' \in Idle /\ viaMerge' = FALSE
    BY <1>5, <2>1
  <2>2. CASE Moved("commit", {}) /\ qa' = [qa EXCEPT ![node] = "finalizing"] /\ Digest(node) = cert[node]
    <3>1. /\ at' \notin Idle /\ at' \notin Later
          /\ UNCHANGED <<node, viaMerge>> /\ ~ viaMerge
      BY <1>28, BeginFinalizationEffect, <1>8, <2>2 DEF Moved, Kept, Idle, Later, Merging, Completing, Standings, Removing
    <3>2. tracker'[node] = "done" => qa'[node] = "finalizing"
      BY <1>28, BeginFinalizationEffect, <1>2, <1>3, <1>9, <1>10, <2>2 DEF Moved, Idle, Completing
    <3>3. QED
      BY <1>7, <3>1, <3>2
  <2>9. QED
    BY <1>28, BeginFinalizationEffect, <2>1, <2>2, Zenon DEF Stopped, Left, Drifted
<1>29. CASE ResumeFinalization
  <2>1. CASE at' \in Idle /\ viaMerge' = FALSE
    BY <1>5, <2>1
  <2>2. CASE Moved("commit", {}) /\ qa' = qa
    <3>1. /\ at' \notin Idle /\ at' \notin Later
          /\ UNCHANGED <<node, viaMerge>> /\ ~ viaMerge
      BY <1>29, ResumeFinalizationEffect, <1>8, <2>2 DEF Moved, Kept, Idle, Later, Merging, Completing, Standings, Removing
    <3>2. tracker'[node] = "done" => qa'[node] = "finalizing"
      BY <1>29, ResumeFinalizationEffect, <1>2, <1>3, <1>9, <1>10, <2>2 DEF Moved, Idle, Completing
    <3>3. QED
      BY <1>7, <3>1, <3>2
  <2>9. QED
    BY <1>29, ResumeFinalizationEffect, <2>1, <2>2, Zenon DEF Stopped, Left, Drifted
<1>30. CASE PlanCommit
  <2>1. CASE at' \in Idle /\ viaMerge' = FALSE
    BY <1>5, <2>1
  <2>2. CASE (Moved("verify", {}) \/ Moved("committing", {"commit"})) /\ qa' = qa
    <3>1. /\ at' \notin Idle /\ at' \notin Later
          /\ UNCHANGED <<node, viaMerge>> /\ ~ viaMerge
      BY <1>30, PlanCommitEffect, <1>8, <2>2 DEF Moved, Kept, Idle, Later, Merging, Completing, Standings, Removing
    <3>2. tracker'[node] = "done" => qa'[node] = "finalizing"
      BY <1>30, PlanCommitEffect, <1>2, <1>3, <1>9, <1>10, <2>2 DEF Moved, Idle, Completing
    <3>3. QED
      BY <1>7, <3>1, <3>2
  <2>9. QED
    BY <1>30, PlanCommitEffect, <2>1, <2>2, Zenon DEF Stopped, Left, Drifted
<1>31. CASE CommitAll
  <2>1. CASE at' \in Idle /\ viaMerge' = FALSE
    BY <1>5, <2>1
  <2>2. CASE Moved("committed", {})
    <3>1. /\ at' \notin Idle /\ at' \notin Later
          /\ UNCHANGED <<node, viaMerge>> /\ ~ viaMerge
      BY <1>31, CommitAllEffect, <1>8, <2>2 DEF Moved, Kept, Idle, Later, Merging, Completing, Standings, Removing
    <3>2. tracker'[node] = "done" => qa'[node] = "finalizing"
      BY <1>31, CommitAllEffect, <1>2, <1>3, <1>9, <1>10, <2>2 DEF Moved, Idle, Completing
    <3>3. QED
      BY <1>7, <3>1, <3>2
  <2>9. QED
    BY <1>31, CommitAllEffect, <2>1, <2>2, Zenon DEF Stopped, Left, Drifted
<1>32. CASE ConfirmCommit
  <2>1. CASE at' \in Idle /\ viaMerge' = FALSE
    BY <1>5, <2>1
  <2>2. CASE Moved("verify", {"commit"})
    <3>1. /\ at' \notin Idle /\ at' \notin Later
          /\ UNCHANGED <<node, viaMerge>> /\ ~ viaMerge
      BY <1>32, ConfirmCommitEffect, <1>8, <2>2 DEF Moved, Kept, Idle, Later, Merging, Completing, Standings, Removing
    <3>2. tracker'[node] = "done" => qa'[node] = "finalizing"
      BY <1>32, ConfirmCommitEffect, <1>2, <1>3, <1>9, <1>10, <2>2 DEF Moved, Idle, Completing
    <3>3. QED
      BY <1>7, <3>1, <3>2
  <2>9. QED
    BY <1>32, ConfirmCommitEffect, <2>1, <2>2, Zenon DEF Stopped, Left, Drifted
<1>33. CASE VerifyPublication
  <2>1. CASE at' \in Idle /\ viaMerge' = FALSE
    BY <1>5, <2>1
  <2>2. CASE qa' = qa /\ (Bound => Matches(node, TRUE)) /\ ~ (at' \in Idle /\ viaMerge' = FALSE)
    <3>0. UNCHANGED <<options, cert>> /\ at = "verify" /\ node \in Ticket /\ ~ viaMerge
      BY <1>33, VerifyPublicationEffect, <1>8 DEF Standings, Removing, Idle
    <3>1. CASE Moved("complete", {}) /\ (head[node] = 0 \/ options.completion = "none")
      <4>1. /\ at' = "complete" /\ UNCHANGED <<node, viaMerge, tracker>>
            /\ journal'[node]["push"] = journal[node]["push"] /\ journal'[node]["review"] = journal[node]["review"]
            /\ journal'[node]["merge"] = journal[node]["merge"]
        BY <1>4, <3>0, <3>1 DEF Moved, Kept, Rows
      <4>2. Status(node, "push") = "none" /\ Status(node, "review") = "none" /\ Status(node, "merge") = "none"
        BY <1>2, <3>0, <3>1 DEF PushKnown, MergeKnown, Standing, Idle
      <4>3. options.qa => qa[node] \in {"finalizing", "waived"}
        BY <1>1, <3>0 DEF Heads, Delivering
      <4>4. qa[node] = "finalizing" /\ options.completion # "none" => cert[node].tree = 0
        BY <1>1, <1>2, <3>0, <3>1 DEF Receipts, Untouched, Beginning, Idle
      <4>5. Delivered(node)
        BY <4>2, <4>3, <4>4 DEF Delivered
      <4>6. Delivered(node)'
        BY <2>2, <3>0, <4>1, <4>5 DEF Delivered, Status
      <4>7. QED
        BY <3>0, <4>1, <4>6 DEF Closings, Merging, Standings, Removing, Completing, Idle
    <3>2. CASE Moved("merge", {}) /\ head[node] # 0 /\ options.completion = "merge"
      <4>1. at' = "merge" /\ UNCHANGED <<node, viaMerge, tracker>> /\ journal'[node]["merge"] = journal[node]["merge"]
        BY <1>4, <3>0, <3>2 DEF Moved, Kept, Rows
      <4>2. tracker[node] = "done" => Status(node, "merge") = "confirmed"
        <5>1. SUFFICES ASSUME tracker[node] = "done", Status(node, "merge") # "confirmed"
                       PROVE  FALSE
          OBVIOUS
        <5>2. Delivered(node) /\ qa[node] = "finalizing" /\ options.qa
          BY <1>1, <1>2, <1>9, <3>0, <5>1 DEF DoneWell, Idle, Untouched, Beginning, Completing
        <5>3. Status(node, "merge") = "none"
          BY <5>1, <5>2 DEF Delivered
        <5>6. Status(node, "push") = "none"
          BY <1>2, <3>0, <3>2 DEF PushKnown, Idle
        <5>7. cert[node].tree = 0
          BY <3>2, <5>2, <5>3, <5>6 DEF Delivered
        <5>4. tree[node] = cert[node].tree
          BY <2>2, <5>2 DEF Bound, Matches, Digest
        <5>5. QED
          BY <1>2, <3>0, <3>2, <5>4, <5>7 DEF Grown, Idle
      <4>3. QED
        BY <1>9, <2>2, <3>0, <3>2, <4>1, <4>2 DEF Closings, Merging, Standings, Removing, Completing, Idle, Status
    <3>3. CASE Moved("pushing", {"push"})
      <4>1. at' = "pushing" /\ UNCHANGED <<node, viaMerge, tracker>>
        BY <3>3 DEF Moved, Kept
      <4>2. QED
        BY <1>7, <1>9, <2>2, <3>0, <4>1 DEF Idle, Later, Merging, Completing
    <3>4. QED
      BY <1>33, VerifyPublicationEffect, <2>2, <3>1, <3>2, <3>3, Zenon DEF Stopped, Left, Drifted
  <2>9. QED
    BY <1>33, VerifyPublicationEffect, <2>1, <2>2, Zenon DEF Stopped, Left, Drifted
<1>34. CASE Push
  <2>1. CASE at' \in Idle /\ viaMerge' = FALSE
    BY <1>5, <2>1
  <2>2. CASE Moved("pushed", {})
    <3>1. /\ at' \notin Idle /\ at' \notin Later
          /\ UNCHANGED <<node, viaMerge>> /\ ~ viaMerge
      BY <1>34, PushEffect, <1>8, <2>2 DEF Moved, Kept, Idle, Later, Merging, Completing, Standings, Removing
    <3>2. tracker'[node] = "done" => qa'[node] = "finalizing"
      BY <1>34, PushEffect, <1>2, <1>3, <1>9, <1>10, <2>2 DEF Moved, Idle, Completing
    <3>3. QED
      BY <1>7, <3>1, <3>2
  <2>9. QED
    BY <1>34, PushEffect, <2>1, <2>2, Zenon DEF Stopped, Left, Drifted
<1>35. CASE ConfirmPush
  <2>1. CASE at' \in Idle /\ viaMerge' = FALSE
    BY <1>5, <2>1
  <2>2. CASE Moved("requesting", {"push", "review"})
    <3>1. /\ at' \notin Idle /\ at' \notin Later
          /\ UNCHANGED <<node, viaMerge>> /\ ~ viaMerge
      BY <1>35, ConfirmPushEffect, <1>8, <2>2 DEF Moved, Kept, Idle, Later, Merging, Completing, Standings, Removing
    <3>2. tracker'[node] = "done" => qa'[node] = "finalizing"
      BY <1>35, ConfirmPushEffect, <1>2, <1>3, <1>9, <1>10, <2>2 DEF Moved, Idle, Completing
    <3>3. QED
      BY <1>7, <3>1, <3>2
  <2>9. QED
    BY <1>35, ConfirmPushEffect, <2>1, <2>2, Zenon DEF Stopped, Left, Drifted
<1>36. CASE RequestReview
  <2>1. CASE at' \in Idle /\ viaMerge' = FALSE
    BY <1>5, <2>1
  <2>2. CASE Moved("requested", {})
    <3>1. /\ at' \notin Idle /\ at' \notin Later
          /\ UNCHANGED <<node, viaMerge>> /\ ~ viaMerge
      BY <1>36, RequestReviewEffect, <1>8, <2>2 DEF Moved, Kept, Idle, Later, Merging, Completing, Standings, Removing
    <3>2. tracker'[node] = "done" => qa'[node] = "finalizing"
      BY <1>36, RequestReviewEffect, <1>2, <1>3, <1>9, <1>10, <2>2 DEF Moved, Idle, Completing
    <3>3. QED
      BY <1>7, <3>1, <3>2
  <2>9. QED
    BY <1>36, RequestReviewEffect, <2>1, <2>2, Zenon DEF Stopped, Left, Drifted
<1>37. CASE ConfirmReview
  <2>1. /\ at = "requested" /\ at' = "complete" /\ UNCHANGED <<node, viaMerge, tracker, options, qa, cert>> /\ ~ viaMerge
        /\ node \in Ticket
    BY <1>37, ConfirmReviewEffect, <1>8 DEF Moved, Kept, Standings, Removing, Idle
  <2>6. /\ journal'[node]["push"] = journal[node]["push"] /\ journal'[node]["merge"] = journal[node]["merge"]
        /\ journal'[node]["review"].status = "confirmed"
    BY <1>37, ConfirmReviewEffect, <1>4 DEF Moved, Rows
  <2>7. Status(node, "push") = "confirmed" /\ options.completion = "review" /\ Status(node, "merge") = "none"
    BY <1>1, <1>2, <2>1 DEF Receipts, Pushing, MergeKnown, Standing, Idle
  <2>2. /\ journal'[node]["push"].status = "confirmed" /\ journal'[node]["merge"].status = "none"
        /\ journal'[node]["review"].status = "confirmed"
    BY <2>6, <2>7 DEF Status
  <2>3. options.qa => qa[node] \in {"finalizing", "waived"}
    BY <1>1, <2>1 DEF Heads, Delivering, Pushing, Merging
  <2>4. Delivered(node)'
    BY <2>1, <2>2, <2>3 DEF Delivered, Status
  <2>5. QED
    BY <1>1, <2>1, <2>2, <2>4 DEF Closings, Merging, Standings, Removing, Completing, Idle, Status
<1>38. CASE PrepareMerge
  <2>1. CASE at' \in Idle /\ viaMerge' = FALSE
    BY <1>5, <2>1
  <2>2. CASE Moved("merging", {"merge"})
    <3>1. /\ at = "merge" /\ at' \in {"merging"} /\ UNCHANGED <<node, viaMerge, tracker, options>> /\ qa'[node] = qa[node] /\ node \in Ticket
      BY <1>38, PrepareMergeEffect, <2>2 DEF Moved, Kept
    <3>2. options.completion = "merge" /\ journal'[node]["merge"].status \in Standing
      BY <1>38, PrepareMergeEffect, <1>1, <1>4, <2>2, <3>1 DEF Closings, Merging, Standings, Moved, Rows, Status,
         Standing, Stopped, Left, Idle
    <3>3. QED
      BY <1>8, <1>9, <3>1, <3>2 DEF Closings, Merging, Standings, Removing, Completing, Idle, Status
  <2>9. QED
    BY <1>38, PrepareMergeEffect, <2>1, <2>2, Zenon DEF Stopped, Left, Drifted
<1>39. CASE ReconcileMerge \/ InspectIndex \/ CheckMerged
  <2>1. CASE at' \in Idle /\ viaMerge' = FALSE
    BY <1>5, <2>1
  <2>2. CASE \E label \in {"merged", "checking", "squashing", "staged", "removing"} : Moved(label, {})
    <3>1. UNCHANGED <<node, viaMerge, tracker, options, qa>> /\ node \in Ticket
      BY <1>39, SurveyEffect, <2>2 DEF Moved, Kept
    <3>2. options.completion = "merge" /\ journal'[node]["merge"] = journal[node]["merge"]
      BY <1>39, SurveyEffect, <1>1, <1>4, <2>2, <3>1 DEF Closings, Merging, Moved, Rows
    <3>3. \/ at = "merging" /\ at' \in {"merged", "checking"}
          \/ at = "staging" /\ at' \in {"squashing", "staged"}
          \/ at = "cleanup" /\ at' = "removing"
      BY <1>39, SurveyEffect, <2>2 DEF Stopped, Moved, Left, Idle
    <3>4. CASE at = "merging" /\ at' = "checking"
      <4>1. Status(node, "merge") = "in_progress"
        <5>1. Len(base) = Frozen(node) /\ Status(node, "merge") \in Standing
          BY <1>39, SurveyEffect, <1>1, <3>4 DEF Closings, Standings, Stopped, Moved, Left, Idle
        <5>2. Len(base) \in Nat
          BY <1>1, Lengths
        <5>3. QED
          BY <1>2, <3>4, <5>1, <5>2 DEF MergeKnown, Standing, Idle
      <4>2. QED
        BY <1>9, <3>1, <3>2, <3>4, <4>1 DEF Closings, Merging, Standings, Removing, Completing, Idle, Status, Standing
    <3>5. CASE ~ (at = "merging" /\ at' = "checking")
      BY <1>1, <1>9, <3>1, <3>2, <3>3, <3>5 DEF Closings, Merging, Standings, Removing, Completing, Idle, Status, Standing
    <3>6. QED
      BY <3>4, <3>5
  <2>9. QED
    BY <1>39, SurveyEffect, <2>1, <2>2, Zenon DEF Stopped, Left
<1>40. CASE CheckSource
  <2>1. CASE at' \in Idle /\ viaMerge' = FALSE
    BY <1>5, <2>1
  <2>2. CASE Moved("staging", {}) /\ qa' = qa
    <3>1. /\ at \in {"checking"} /\ at' \in {"staging"} /\ UNCHANGED <<node, viaMerge, tracker, options>> /\ qa'[node] = qa[node] /\ node \in Ticket
      BY <1>40, CheckSourceEffect, <2>2 DEF Moved, Kept
    <3>2. options.completion = "merge" /\ journal'[node]["merge"].status = "in_progress"
      BY <1>40, CheckSourceEffect, <1>1, <1>4, <2>2, <3>1 DEF Closings, Merging, Standings, Removing, Moved, Rows, Status, Standing
    <3>3. QED
      BY <1>8, <1>9, <3>1, <3>2 DEF Closings, Merging, Standings, Removing, Completing, Idle, Status, Standing
  <2>9. QED
    BY <1>40, CheckSourceEffect, <2>1, <2>2, Zenon DEF Stopped, Left, Drifted
<1>41. CASE SquashMerge
  <2>1. CASE at' \in Idle /\ viaMerge' = FALSE
    BY <1>5, <2>1
  <2>2. CASE Moved("staged", {})
    <3>1. /\ at \in {"squashing"} /\ at' \in {"staged"} /\ UNCHANGED <<node, viaMerge, tracker, options>> /\ qa'[node] = qa[node] /\ node \in Ticket
      BY <1>41, SquashMergeEffect, <2>2 DEF Moved, Kept
    <3>2. options.completion = "merge" /\ journal'[node]["merge"].status = "in_progress"
      BY <1>41, SquashMergeEffect, <1>1, <1>4, <2>2, <3>1 DEF Closings, Merging, Standings, Removing, Moved, Rows, Status, Standing
    <3>3. QED
      BY <1>8, <1>9, <3>1, <3>2 DEF Closings, Merging, Standings, Removing, Completing, Idle, Status, Standing
  <2>9. QED
    BY <1>41, SquashMergeEffect, <2>1, <2>2, Zenon DEF Stopped, Left, Drifted
<1>42. CASE CommitMerge
  <2>1. CASE at' \in Idle /\ viaMerge' = FALSE
    BY <1>5, <2>1
  <2>2. CASE Moved("merged", {})
    <3>1. /\ at = "staged" /\ at' \in {"merged"} /\ UNCHANGED <<node, viaMerge, tracker, options>> /\ qa'[node] = qa[node] /\ node \in Ticket
      BY <1>42, CommitMergeEffect, <2>2 DEF Moved, Kept
    <3>2. options.completion = "merge" /\ journal'[node]["merge"].status \in Standing
      BY <1>42, CommitMergeEffect, <1>1, <1>4, <2>2, <3>1 DEF Closings, Merging, Standings, Moved, Rows, Status,
         Standing, Stopped, Left, Idle
    <3>3. QED
      BY <1>8, <1>9, <3>1, <3>2 DEF Closings, Merging, Standings, Removing, Completing, Idle, Status
  <2>9. QED
    BY <1>42, CommitMergeEffect, <2>1, <2>2, Zenon DEF Stopped, Left, Drifted
<1>43. CASE ConfirmMerge
  <2>1. CASE at' \in Idle /\ viaMerge' = FALSE
    BY <1>5, <2>1
  <2>2. CASE Moved("cleanup", {"merge"})
    <3>1. /\ at = "merged" /\ at' \in {"cleanup"} /\ UNCHANGED <<node, viaMerge, tracker, options>> /\ qa'[node] = qa[node] /\ node \in Ticket
      BY <1>43, ConfirmMergeEffect, <2>2 DEF Moved, Kept
    <3>2. options.completion = "merge" /\ journal'[node]["merge"].status = "confirmed"
      BY <1>43, ConfirmMergeEffect, <1>1, <1>4, <2>2, <3>1 DEF Closings, Merging, Standings, Moved, Rows, Status,
         Standing, Stopped, Left, Idle
    <3>3. QED
      BY <1>8, <1>9, <3>1, <3>2 DEF Closings, Merging, Standings, Removing, Completing, Idle, Status
  <2>9. QED
    BY <1>43, ConfirmMergeEffect, <2>1, <2>2, Zenon DEF Stopped, Left, Drifted
<1>44. CASE RemoveMerged
  <2>1. CASE at' \in Idle /\ viaMerge' = FALSE
    BY <1>5, <2>1
  <2>2. CASE Moved("deleting", {})
    <3>1. /\ at \in {"removing"} /\ at' \in {"deleting"} /\ UNCHANGED <<node, viaMerge, tracker, options>> /\ qa'[node] = qa[node] /\ node \in Ticket
      BY <1>44, RemoveMergedEffect, <2>2 DEF Moved, Kept
    <3>2. options.completion = "merge" /\ journal'[node]["merge"].status = "confirmed"
      BY <1>44, RemoveMergedEffect, <1>1, <1>4, <2>2, <3>1 DEF Closings, Merging, Standings, Removing, Moved, Rows, Status, Standing
    <3>3. QED
      BY <1>8, <1>9, <3>1, <3>2 DEF Closings, Merging, Standings, Removing, Completing, Idle, Status, Standing
  <2>9. QED
    BY <1>44, RemoveMergedEffect, <2>1, <2>2, Zenon DEF Stopped, Left, Drifted
<1>45. CASE DeleteBranch
  <2>1. CASE at' \in Idle /\ viaMerge' = FALSE
    BY <1>5, <2>1
  <2>2. CASE Moved("complete", {})
    <3>1. /\ at = "deleting" /\ at' = "complete" /\ UNCHANGED <<node, viaMerge, tracker, options, qa, cert>> /\ node \in Ticket
      BY <1>45, DeleteBranchEffect, <2>2 DEF Moved, Kept
    <3>6. /\ journal'[node]["push"] = journal[node]["push"] /\ journal'[node]["merge"] = journal[node]["merge"]
          /\ journal'[node]["review"] = journal[node]["review"]
      BY <1>4, <2>2, <3>1 DEF Moved, Rows
    <3>7. Status(node, "push") = "none" /\ Status(node, "merge") = "confirmed" /\ Status(node, "review") = "none"
      BY <1>1, <1>2, <3>1 DEF Closings, PushKnown, Merging, Removing, Idle
    <3>2. /\ journal'[node]["push"].status = "none" /\ journal'[node]["merge"].status = "confirmed"
          /\ journal'[node]["review"].status = "none"
      BY <3>6, <3>7 DEF Status
    <3>3. options.qa => qa[node] \in {"finalizing", "waived"}
      BY <1>1, <3>1 DEF Heads, Delivering, Merging
    <3>4. Delivered(node)'
      BY <3>1, <3>2, <3>3 DEF Delivered, Status
    <3>5. QED
      BY <1>1, <3>1, <3>2, <3>4 DEF Closings, Merging, Standings, Removing, Completing, Idle, Status
  <2>9. QED
    BY <1>45, DeleteBranchEffect, <2>1, <2>2, Zenon DEF Stopped, Left, Drifted
<1>46. CASE PlanCompletion
  <2>1. /\ at = "complete" /\ at' \in {"closing", "completing"} /\ UNCHANGED <<node, viaMerge, tracker, options, qa, cert>>
        /\ node \in Ticket /\ ~ viaMerge
    BY <1>46, PlanCompletionEffect DEF Moved, Kept
  <2>2. /\ journal'[node]["push"] = journal[node]["push"] /\ journal'[node]["review"] = journal[node]["review"]
        /\ journal'[node]["merge"] = journal[node]["merge"] /\ journal'[node]["complete"].status \in Standing
    BY <1>46, PlanCompletionEffect, <1>4, <2>1 DEF Moved, Rows
  <2>3. Delivered(node)
    BY <1>1, <2>1 DEF Closings, Completing
  <2>4. Delivered(node)' /\ Recorded(node)'
    BY <2>1, <2>2, <2>3 DEF Delivered, Recorded, Status
  <2>5. QED
    BY <2>1, <2>2, <2>4 DEF Closings, Merging, Standings, Removing, Completing, Idle, Status
<1>47. CASE CompleteTicket
  <2>1. /\ at \in {"complete", "completing"} /\ at' = (IF viaMerge THEN "closing" ELSE "completed")
        /\ UNCHANGED <<node, viaMerge, options, qa, cert, journal>> /\ node \in Ticket
        /\ at = "complete" => viaMerge
    BY <1>47, CompleteTicketEffect DEF Kept
  <2>2. Delivered(node) /\ (at = "completing" => Status(node, "complete") \in Standing /\ ~ viaMerge)
        /\ (viaMerge => Status(node, "merge") = "confirmed")
    BY <1>1, <2>1 DEF Closings, Completing, Standings, Removing
  <2>3. Delivered(node)' /\ (viaMerge => Recorded(node)') /\ UNCHANGED <<Status(node, "merge"), Status(node, "complete")>>
    BY <2>1, <2>2 DEF Delivered, Recorded, Status
  <2>4. QED
    BY <2>1, <2>2, <2>3 DEF Closings, Merging, Standings, Removing, Completing, Idle
<1>48. CASE ConfirmCompletion
  <2>1. at = "completed" /\ at' = "closing" /\ UNCHANGED <<node, viaMerge, tracker, options, qa, cert>> /\ node \in Ticket
    BY <1>48, ConfirmCompletionEffect DEF Moved, Kept
  <2>2. /\ journal'[node]["push"] = journal[node]["push"] /\ journal'[node]["review"] = journal[node]["review"]
        /\ journal'[node]["merge"] = journal[node]["merge"] /\ journal'[node]["complete"].status = "confirmed"
    BY <1>48, ConfirmCompletionEffect, <1>4, <2>1 DEF Moved, Rows
  <2>3. Delivered(node) /\ ~ viaMerge
    BY <1>1, <2>1 DEF Closings, Completing, Standings, Removing
  <2>4. Delivered(node)' /\ Recorded(node)'
    BY <2>1, <2>2, <2>3 DEF Delivered, Recorded, Status, Standing
  <2>5. QED
    BY <2>1, <2>3, <2>4 DEF Closings, Merging, Standings, Removing, Completing, Idle
<1>49. CASE CompleteQa
  <2>1. /\ at = "closing" /\ at' = "close" /\ UNCHANGED <<node, viaMerge, options>> /\ node \in Ticket
    BY <1>49, CompleteQaEffect DEF Moved, Kept
  <2>2. journal'[node]["merge"] = journal[node]["merge"]
    BY <1>49, CompleteQaEffect, <1>4, <2>1 DEF Moved, Rows, books
  <2>4. QED
    BY <1>1, <2>1, <2>2 DEF Closings, Merging, Standings, Removing, Completing, Idle, Status
<1>50. CASE CloseSession
  <2>1. CASE at' \in Idle /\ viaMerge' = FALSE
    BY <1>5, <2>1
  <2>2. CASE Moved("tidy", {}) /\ options.completion # "merge"
    <3>1. /\ at = "close" /\ at' = "tidy" /\ UNCHANGED <<node, viaMerge, options>> /\ node \in Ticket
      BY <1>50, CloseSessionEffect, <2>2 DEF Moved, Kept
    <3>2. ~ viaMerge
      BY <1>1, <1>2, <2>2, <3>1 DEF Closings, MergeKnown, Standing, Idle
    <3>3. QED
      BY <2>2, <3>1, <3>2 DEF Closings, Merging, Standings, Removing, Completing, Idle
  <2>9. QED
    BY <1>50, CloseSessionEffect, <2>1, <2>2, Zenon DEF Stopped, Left, Drifted
<1>51. CASE RemoveWorktree
  <2>1. at' \in Idle /\ viaMerge' = FALSE
    BY <1>51, <1>8, RemoveWorktreeEffect DEF Stopped, Left
  <2>2. QED
    BY <1>5, <2>1
<1>52. QED
  BY <1>11, <1>12, <1>13, <1>14, <1>15, <1>16, <1>17, <1>18, <1>19, <1>20, <1>21, <1>22, <1>23, <1>24,
     <1>25, <1>26, <1>27, <1>28, <1>29, <1>30, <1>31, <1>32, <1>33, <1>34, <1>35, <1>36, <1>37, <1>38,
     <1>39, <1>40, <1>41, <1>42, <1>43, <1>44, <1>45, <1>46, <1>47, <1>48, <1>49, <1>50, <1>51, Zenon
     DEF Next, Loop, Build, Finalize, Deliver, Complete, Human

(* A source that is removed holds what was merged, or what no check has seen.   *)
LEMMA RemovalNext ==
  ASSUME IInv, [Next]_vars
  PROVE  Removal'
<1>1. TypeOK /\ Merges /\ Closings /\ Removal
  BY DEF IInv
<1>2. (at \notin Idle => node \in Ticket) /\ head \in [Ticket -> Nat]
      /\ wt \in [Ticket -> BOOLEAN] /\ br \in [Ticket -> BOOLEAN]
  BY <1>1 DEF TypeOK
<1>3. ASSUME at' \notin {"removing", "deleting"}
      PROVE  Removal'
  BY <1>3 DEF Removal
<1>4. ASSUME UNCHANGED <<at, node, wt, br, head, journal, unseen>>
      PROVE  Removal'
  BY <1>1, <1>4 DEF Removal, MergeOp, Source
<1>5. CASE UNCHANGED vars
  <2>1. UNCHANGED <<at, node, wt, br, head, journal, unseen>>
    BY <1>5 DEF vars, git, books, plan
  <2>2. QED
    BY <1>4, <2>1
<1>6. CASE Start \/ Resume
  <2>1. at' \notin {"removing", "deleting"}
    BY <1>6, LaunchEffect
  <2>2. QED
    BY <1>3, <2>1
<1>7. CASE Finish \/ Crash
  <2>1. at' \notin {"removing", "deleting"}
    BY <1>7, HaltEffect DEF Stopped, Left, Idle
  <2>2. QED
    BY <1>3, <2>1
<1>8. ASSUME NEW u \in Ticket, PassOver(u)
      PROVE  Removal'
  <2>1. at' \notin {"removing", "deleting"}
    BY <1>8 DEF PassOver, Pass, Taking
  <2>2. QED
    BY <1>3, <2>1
<1>9. ASSUME NEW u \in Ticket, RecoverMerge(u)
      PROVE  Removal'
  <2>1. at' \notin {"removing", "deleting"}
    BY <1>9 DEF RecoverMerge, Take
  <2>2. QED
    BY <1>3, <2>1
<1>10. ASSUME NEW u \in Ticket, ContinueTicket(u)
      PROVE  Removal'
  <2>1. at' \notin {"removing", "deleting"}
    BY <1>10 DEF ContinueTicket, Take
  <2>2. QED
    BY <1>3, <2>1
<1>11. ASSUME NEW u \in Ticket, CreateWorktree(u)
      PROVE  Removal'
  <2>1. at' \notin {"removing", "deleting"}
    BY <1>11 DEF CreateWorktree, Take, Halt
  <2>2. QED
    BY <1>3, <2>1
<1>12. ASSUME NEW u \in Ticket, HumanEdits(u)
      PROVE  Removal'
  <2>1. UNCHANGED <<at, node, wt, br, head, journal, unseen>>
    BY <1>12 DEF HumanEdits, books, plan
  <2>2. QED
    BY <1>4, <2>1
<1>13. ASSUME NEW u \in Ticket, HumanCommits(u)
      PROVE  Removal'
  <2>1. UNCHANGED <<at, node, wt, br, journal>> /\ wt[u] /\ head' = [head EXCEPT ![u] = tree[u]]
        /\ unseen' = IF u = node /\ at = "removing" THEN unseen \cup {<<u, tree[u]>>} ELSE unseen
    BY <1>13 DEF HumanCommits, books, plan
  <2>2. CASE u = node
    <3>1. at # "deleting"
      BY <1>1, <2>1, <2>2 DEF Removal
    <3>2. at = "removing" => <<node, head'[node]>> \in unseen'
      BY <1>2, <2>1, <2>2 DEF Idle
    <3>3. QED
      BY <2>1, <3>1, <3>2 DEF Removal
  <2>3. CASE u # node
    <3>1. head'[node] = head[node] \/ at \in Idle
      BY <1>2, <2>1, <2>3
    <3>2. QED
      BY <1>1, <2>1, <2>3, <3>1 DEF Removal, MergeOp, Source, Idle
  <2>4. QED
    BY <2>2, <2>3
<1>14. CASE OpenTicket
  <2>1. at' \notin {"removing", "deleting"}
    BY <1>14 DEF OpenTicket, Goto
  <2>2. QED
    BY <1>3, <2>1
<1>15. CASE BuilderEdits
  <2>1. UNCHANGED <<at, node, wt, br, head, journal, unseen>>
    BY <1>15 DEF BuilderEdits, books, plan
  <2>2. QED
    BY <1>4, <2>1
<1>16. CASE PassQa
  <2>1. at' \notin {"removing", "deleting"}
    BY <1>16 DEF PassQa, Goto
  <2>2. QED
    BY <1>3, <2>1
<1>17. CASE WaiveQa
  <2>1. at' \notin {"removing", "deleting"}
    BY <1>17 DEF WaiveQa, Goto
  <2>2. QED
    BY <1>3, <2>1
<1>18. CASE HumanCommitsBase
  <2>1. UNCHANGED <<at, node, wt, br, head, journal, unseen>>
    BY <1>18 DEF HumanCommitsBase, books, plan
  <2>2. QED
    BY <1>4, <2>1
<1>19. ASSUME NEW how \in {"done", "blocked", "error"}, BuilderEnds(how)
      PROVE  Removal'
  <2>1. at' \notin {"removing", "deleting"}
    BY <1>19, BuilderEndsEffect DEF Stopped, Left, Moved, Idle
  <2>2. QED
    BY <1>3, <2>1
<1>20. CASE BeginQa
  <2>1. at' \notin {"removing", "deleting"}
    BY <1>20, BeginQaEffect DEF Stopped, Left, Moved, Drifted, Idle
  <2>2. QED
    BY <1>3, <2>1
<1>21. CASE QaBlocks
  <2>1. at' \notin {"removing", "deleting"}
    BY <1>21, QaBlocksEffect DEF Stopped, Left, Moved, Drifted, Idle
  <2>2. QED
    BY <1>3, <2>1
<1>22. CASE BeginFinalization
  <2>1. at' \notin {"removing", "deleting"}
    BY <1>22, BeginFinalizationEffect DEF Stopped, Left, Moved, Drifted, Idle
  <2>2. QED
    BY <1>3, <2>1
<1>23. CASE ResumeFinalization
  <2>1. at' \notin {"removing", "deleting"}
    BY <1>23, ResumeFinalizationEffect DEF Stopped, Left, Moved, Drifted, Idle
  <2>2. QED
    BY <1>3, <2>1
<1>24. CASE PlanCommit
  <2>1. at' \notin {"removing", "deleting"}
    BY <1>24, PlanCommitEffect DEF Stopped, Left, Moved, Drifted, Idle
  <2>2. QED
    BY <1>3, <2>1
<1>25. CASE CommitAll
  <2>1. at' \notin {"removing", "deleting"}
    BY <1>25, CommitAllEffect DEF Stopped, Left, Moved, Drifted, Idle
  <2>2. QED
    BY <1>3, <2>1
<1>26. CASE ConfirmCommit
  <2>1. at' \notin {"removing", "deleting"}
    BY <1>26, ConfirmCommitEffect DEF Stopped, Left, Moved, Drifted, Idle
  <2>2. QED
    BY <1>3, <2>1
<1>27. CASE VerifyPublication
  <2>1. at' \notin {"removing", "deleting"}
    BY <1>27, VerifyPublicationEffect DEF Stopped, Left, Moved, Drifted, Idle
  <2>2. QED
    BY <1>3, <2>1
<1>28. CASE Push
  <2>1. at' \notin {"removing", "deleting"}
    BY <1>28, PushEffect DEF Stopped, Left, Moved, Drifted, Idle
  <2>2. QED
    BY <1>3, <2>1
<1>29. CASE ConfirmPush
  <2>1. at' \notin {"removing", "deleting"}
    BY <1>29, ConfirmPushEffect DEF Stopped, Left, Moved, Drifted, Idle
  <2>2. QED
    BY <1>3, <2>1
<1>30. CASE RequestReview
  <2>1. at' \notin {"removing", "deleting"}
    BY <1>30, RequestReviewEffect DEF Stopped, Left, Moved, Drifted, Idle
  <2>2. QED
    BY <1>3, <2>1
<1>31. CASE ConfirmReview
  <2>1. at' \notin {"removing", "deleting"}
    BY <1>31, ConfirmReviewEffect DEF Stopped, Left, Moved, Drifted, Idle
  <2>2. QED
    BY <1>3, <2>1
<1>32. CASE PrepareMerge
  <2>1. at' \notin {"removing", "deleting"}
    BY <1>32, PrepareMergeEffect DEF Stopped, Left, Moved, Drifted, Idle
  <2>2. QED
    BY <1>3, <2>1
<1>33. CASE ReconcileMerge \/ InspectIndex
  <2>1. at' \notin {"removing", "deleting"}
    BY <1>33 DEF ReconcileMerge, InspectIndex, MergeBlock, RuntimeBlock, Settle, Halt, Goto
  <2>2. QED
    BY <1>3, <2>1
<1>34. CASE CheckMerged
  <2>1. node \in Ticket /\ UNCHANGED git
    BY <1>34, SurveyEffect
  <2>2. CASE at' \in Idle
    BY <1>3, <2>2 DEF Idle
  <2>3. CASE Moved("removing", {}) /\ SourceKept(node)
    <3>1. br[node] => head[node] = Source(node)
      BY <2>3 DEF SourceKept
    <3>2. node' = node /\ at' = "removing" /\ journal'[node]["merge"] = journal[node]["merge"]
      BY <2>1, <2>3 DEF Moved, Kept, Rows, Kind
    <3>3. Source(node)' = Source(node)
      BY <3>2 DEF Source, MergeOp
    <3>4. QED
      BY <2>1, <3>1, <3>2, <3>3 DEF Removal, git
  <2>4. QED
    BY <1>34, SurveyEffect, <2>2, <2>3 DEF Stopped, Left, Moved, CheckMerged
<1>35. CASE CheckSource
  <2>1. at' \notin {"removing", "deleting"}
    BY <1>35, CheckSourceEffect DEF Stopped, Left, Moved, Drifted, Idle
  <2>2. QED
    BY <1>3, <2>1
<1>36. CASE SquashMerge
  <2>1. at' \notin {"removing", "deleting"}
    BY <1>36, SquashMergeEffect DEF Stopped, Left, Moved, Drifted, Idle
  <2>2. QED
    BY <1>3, <2>1
<1>37. CASE CommitMerge
  <2>1. at' \notin {"removing", "deleting"}
    BY <1>37, CommitMergeEffect DEF Stopped, Left, Moved, Drifted, Idle
  <2>2. QED
    BY <1>3, <2>1
<1>38. CASE ConfirmMerge
  <2>1. at' \notin {"removing", "deleting"}
    BY <1>38, ConfirmMergeEffect DEF Stopped, Left, Moved, Drifted, Idle
  <2>2. QED
    BY <1>3, <2>1
<1>39. CASE RemoveMerged
  <2>1. at = "removing" /\ node \in Ticket /\ UNCHANGED <<head, br>>
    BY <1>39, RemoveMergedEffect
  <2>2. CASE Stopped(Notes)
    BY <1>3, <2>2 DEF Stopped, Left, Idle
  <2>3. CASE Moved("deleting", {}) /\ wt' = [wt EXCEPT ![node] = FALSE]
    <3>1. node' = node /\ at' = "deleting" /\ journal'[node]["merge"] = journal[node]["merge"]
      BY <2>1, <2>3 DEF Moved, Kept, Rows, Kind
    <3>2. Source(node)' = Source(node) /\ ~ wt'[node] /\ unseen' = unseen
      BY <1>2, <1>39, <2>1, <2>3, <3>1 DEF Source, MergeOp, RemoveMerged
    <3>3. QED
      BY <1>1, <2>1, <3>1, <3>2 DEF Removal
  <2>4. QED
    BY <1>39, RemoveMergedEffect, <2>2, <2>3
<1>40. CASE DeleteBranch
  <2>1. at' \notin {"removing", "deleting"}
    BY <1>40, DeleteBranchEffect DEF Stopped, Left, Moved, Idle
  <2>2. QED
    BY <1>3, <2>1
<1>41. CASE PlanCompletion
  <2>1. at' \notin {"removing", "deleting"}
    BY <1>41, PlanCompletionEffect DEF Stopped, Left, Moved, Idle
  <2>2. QED
    BY <1>3, <2>1
<1>42. CASE CompleteTicket
  <2>1. at' \notin {"removing", "deleting"}
    BY <1>42, CompleteTicketEffect DEF Stopped, Left, Moved, Idle
  <2>2. QED
    BY <1>3, <2>1
<1>43. CASE ConfirmCompletion
  <2>1. at' \notin {"removing", "deleting"}
    BY <1>43, ConfirmCompletionEffect DEF Stopped, Left, Moved, Idle
  <2>2. QED
    BY <1>3, <2>1
<1>44. CASE CompleteQa
  <2>1. at' \notin {"removing", "deleting"}
    BY <1>44, CompleteQaEffect DEF Stopped, Left, Moved, Idle
  <2>2. QED
    BY <1>3, <2>1
<1>45. CASE CloseSession
  <2>1. at' \notin {"removing", "deleting"}
    BY <1>45, CloseSessionEffect DEF Stopped, Left, Moved, Idle
  <2>2. QED
    BY <1>3, <2>1
<1>46. CASE RemoveWorktree
  <2>1. at' \notin {"removing", "deleting"}
    BY <1>46, RemoveWorktreeEffect DEF Stopped, Left, Moved, Idle
  <2>2. QED
    BY <1>3, <2>1
<1>47. QED
  BY <1>5, <1>6, <1>7, <1>8, <1>9, <1>10, <1>11, <1>12, <1>13, <1>14, <1>15, <1>16, <1>17, <1>18,
     <1>19, <1>20, <1>21, <1>22, <1>23, <1>24, <1>25, <1>26, <1>27, <1>28, <1>29, <1>30, <1>31,
     <1>32, <1>33, <1>34, <1>35, <1>36, <1>37, <1>38, <1>39, <1>40, <1>41, <1>42, <1>43, <1>44,
     <1>45, <1>46, Zenon
     DEF Next, Loop, Build, Finalize, Deliver, Complete, Human

(* Nothing has happened yet.                                                    *)
LEMMA Beginnings ==
  ASSUME Init
  PROVE  IInv
<1>1. "none" \in Qas /\ "planned" \in {"planned", "in_progress", "blocked", "done"} /\ None \notin Ticket
  BY TicketAssumption DEF Qas
<1>2. TypeOK
  <2>1. journal \in Journal
    <3>1. Unplanned \in Entry
      BY DEF Unplanned, Entry, Statuses, Intents
    <3>2. QED
      BY <3>1 DEF Init, Journal
  <2>2. base \in Seq((Ticket \cup {None}) \X Nat)
    BY DEF Init
  <2>3. DOMAIN cert = Ticket /\ \A t \in Ticket : cert[t].tree \in Nat
    BY DEF Init, NoCert
  <2>4. /\ tree \in [Ticket -> Nat] /\ head \in [Ticket -> Nat] /\ remote \in [Ticket -> Nat]
        /\ wt \in [Ticket -> BOOLEAN] /\ br \in [Ticket -> BOOLEAN]
    BY DEF Init
  <2>5. /\ qa \in [Ticket -> Qas] /\ tracker \in Tracker /\ session \in [Ticket -> {"none", "active", "completed"}]
        /\ interrupted \in Ticket \cup {None} /\ at \in Places /\ at \in Idle
    BY <1>1 DEF Init, Tracker, Places, Idle
  <2>6. QED
    BY <2>1, <2>2, <2>3, <2>4, <2>5 DEF TypeOK
<1>3. \A t \in Ticket : /\ \A k \in Kind : Status(t, k) = "none"
                        /\ qa[t] = "none" /\ tracker[t] = "planned" /\ session[t] = "none"
  BY DEF Init, Status, Unplanned
<1>4. {"push", "review", "merge", "complete", "remote-block"} \subseteq Kind
  BY DEF Kind
<1>5. Queued /\ Untouched
  BY <1>1, <1>3 DEF Init, Queued, Untouched, Beginning, Fresh, Idle
<1>6. Contents
  BY <1>3 DEF Init, Contents, Grown
<1>7. Merges
  BY <1>3, <1>4 DEF Init, Merges, MergeKnown, Staging, Standing
<1>8. Certificates /\ Pushes /\ Done
  BY <1>3, <1>4 DEF Certificates, MergeCertified, Pushes, PushKnown, Done, DoneWell, Standing
<1>9. Heads /\ Receipts /\ Closings /\ Removal
  BY DEF Init, Heads, Receipts, Closings, Removal, Idle, Building, Delivering, Pushing, Merging, Standings, Removing,
     Completing
<1>10. QED
  BY <1>2, <1>5, <1>6, <1>7, <1>8, <1>9 DEF IInv

(* No step of the host, no crash and nobody's hand breaks it.                   *)
LEMMA Preserved ==
  ASSUME IInv, [Next]_vars
  PROVE  IInv'
<1>1. TypeOK' /\ Queued' /\ Contents'
  BY TypeNext, QueuedNext, ContentsNext
<1>2. Untouched'
  BY FreshNext, BeginningNext DEF Untouched
<1>3. Merges'
  BY MergeKnownNext, IntendedNext, StagingNext DEF Merges
<1>4. Certificates' /\ Pushes' /\ Done'
  BY CertifiedNext, PushKnownNext, DoneNext DEF Certificates, Pushes, Done
<1>5. Heads' /\ Receipts' /\ Closings' /\ Removal'
  BY HeadsNext, ReceiptsNext, ClosingsNext, RemovalNext
<1>6. QED
  BY <1>1, <1>2, <1>3, <1>4, <1>5 DEF IInv

-----------------------------------------------------------------------------
(* What Git, the journal and the QA heads have in common, through every crash   *)
(* of the host and whatever people edit and commit meanwhile.                   *)
THEOREM DeliveryInvariant == Spec => []IInv
<1>1. Init => IInv
  BY Beginnings
<1>2. IInv /\ [Next]_vars => IInv'
  BY Preserved
<1>3. QED
  BY <1>1, <1>2, PTL DEF Spec

(* A ticket is on the base once at most, where its journal row says, and with   *)
(* the version QA certified: whatever died between the merge and its receipt,   *)
(* and whoever committed to the base.                                           *)
THEOREM MergesOnce == Spec => []MergedOnce
<1>1. IInv => MergedOnce
  <2> SUFFICES ASSUME IInv, NEW t \in Ticket
               PROVE  /\ Cardinality(Merged(t)) <= 1
                      /\ options.qa /\ t \notin late =>
                           \A i \in Merged(t) :
                              qa[t] = "waived" \/ (qa[t] \in {"finalizing", "completed"} /\ base[i][2] = cert[t].tree)
    BY DEF MergedOnce
  <2>1. None \notin Ticket /\ MergeCertified(t)
    BY TicketAssumption DEF IInv, Certificates
  <2>2. \A i \in Merged(t) : /\ Status(t, "merge") \in Standing /\ base[i][2] = Source(t)
                              /\ \A j \in Merged(t) : j = i
    BY <2>1 DEF IInv, Merges, Intended, Merged
  <2>3. Cardinality(Merged(t)) <= 1
    <3>1. PICK i : Merged(t) \subseteq {i}
      BY <2>2
    <3>2. IsFiniteSet({i}) /\ Cardinality({i}) = 1
      BY FS_Singleton
    <3>3. Cardinality(Merged(t)) <= Cardinality({i})
      BY <3>1, <3>2, FS_Subset
    <3>4. QED
      BY <3>2, <3>3
  <2>4. QED
    BY <2>1, <2>2, <2>3 DEF MergeCertified
<1>2. QED
  BY <1>1, DeliveryInvariant, PTL

(* Every receipt stands for what happened, and a ticket is done only when each  *)
(* of its delivery steps has one.                                               *)
THEOREM DoneMeansDelivered == Spec => []DoneIsDelivered
<1>1. IInv => DoneIsDelivered
  <2> SUFFICES ASSUME IInv, NEW t \in Ticket
               PROVE  /\ journal[t]["push"].status = "confirmed" =>
                            remote[t] = journal[t]["push"].intent[1] \/ t \in late
                      /\ journal[t]["review"].status = "confirmed" => t \in request
                      /\ MergeOp(t).status = "confirmed" => \E i \in DOMAIN base : base[i] = <<t, Source(t)>>
                      /\ tracker[t] = "done" =>
                           /\ \A k \in {"push", "review", "merge"} :
                                 journal[t][k].status \in {"none", "confirmed"}
                           /\ options.qa => qa[t] \in {"finalizing", "completed", "waived"}
    BY DEF DoneIsDelivered
  <2>1. MergeKnown(t) /\ PushKnown(t) /\ DoneWell(t)
    BY DEF IInv, Merges, Pushes, Done
  <2>2. ASSUME MergeOp(t).status = "confirmed"
        PROVE  \E i \in DOMAIN base : base[i] = <<t, Source(t)>>
    <3>1. Frozen(t) \in Nat /\ Frozen(t) < Len(base) /\ base[Frozen(t) + 1] = <<t, Source(t)>>
      BY <2>1, <2>2 DEF MergeKnown, MergeOp, Status, Standing
    <3>2. Len(base) \in Nat /\ DOMAIN base = 1 .. Len(base)
      BY Lengths DEF IInv
    <3>3. Frozen(t) + 1 \in DOMAIN base
      BY <3>1, <3>2
    <3>4. QED
      BY <3>1, <3>3
  <2>3. QED
    BY <2>1, <2>2 DEF PushKnown, DoneWell, Delivered, Status
<1>2. QED
  BY <1>1, DeliveryInvariant, PTL

(* What is pushed or put on the base is what its certificate in force covers.   *)
LEMMA PublishingNext ==
  ASSUME IInv, [Next]_vars, options.qa, NEW t \in Ticket \ late, NEW v \in Nat,
         \/ remote[t] # v /\ remote'[t] = v
         \/ Len(base') > Len(base) /\ base'[Len(base')] = <<t, v>>
  PROVE  qa[t] = "waived" \/ (qa[t] = "finalizing" /\ v = cert[t].tree)
<1>1. TypeOK /\ Receipts /\ Merges /\ Certificates
  BY DEF IInv
<1>2. remote \in [Ticket -> Nat] /\ (at \notin Idle => node \in Ticket)
  BY <1>1 DEF TypeOK
<1>3. t \in Ticket /\ t # None
  BY TicketAssumption
<1>4. Len(base) \in Nat
  BY <1>1, Lengths
<1>5. ASSUME UNCHANGED <<remote, base>>
      PROVE  qa[t] = "waived" \/ (qa[t] = "finalizing" /\ v = cert[t].tree)
  BY <1>4, <1>5
<1>6. ASSUME NEW e, base' = Append(base, e), e = <<t, v>>, staged # <<>>, e = staged
      PROVE  qa[t] = "waived" \/ (qa[t] = "finalizing" /\ v = cert[t].tree)
  <2>1. PICK u \in Ticket : Status(u, "merge") = "in_progress" /\ staged = <<u, Source(u)>>
    BY <1>1, <1>3, <1>6 DEF Merges, Staging
  <2>2. u = t /\ v = Source(t)
    BY <1>6, <2>1
  <2>3. QED
    BY <1>1, <1>3, <2>1, <2>2 DEF Certificates, MergeCertified, Standing
<1>7. CASE Push
  <2>1. at = "pushing" /\ node \in Ticket /\ base' = base /\ remote' \in {remote, [remote EXCEPT ![node] = head[node]]}
    BY <1>7, PushEffect
  <2>2. t = node /\ v = head[node]
    BY <1>2, <1>4, <2>1
  <2>3. Certified(node)
    BY <1>1, <2>1, <2>2 DEF Receipts
  <2>4. QED
    BY <2>2, <2>3 DEF Certified
<1>8. CASE CommitMerge
  <2>1. CASE UNCHANGED base
    BY <1>8, CommitMergeEffect, <1>5, <2>1
  <2>2. CASE staged # <<>> /\ base' = Append(base, staged)
    <3>1. remote' = remote /\ Longer /\ base'[Len(base) + 1] = staged
      BY <1>8, CommitMergeEffect, <1>1, <2>2, Appending
    <3>2. staged = <<t, v>>
      BY <1>4, <3>1 DEF Longer
    <3>3. QED
      BY <1>6, <2>2, <3>2
  <2>3. QED
    BY <1>8, CommitMergeEffect, <2>1, <2>2
<1>9. CASE HumanCommitsBase
  <2>1. PICK e : e = IF staged = <<>> THEN <<None, 0>> ELSE staged
    OBVIOUS
  <2>2. base' = Append(base, e) /\ remote' = remote
    BY <1>9, <2>1 DEF HumanCommitsBase
  <2>3. Longer /\ base'[Len(base) + 1] = e
    BY <1>1, <2>2, Appending
  <2>4. e = <<t, v>>
    BY <1>4, <2>2, <2>3 DEF Longer
  <2>5. staged # <<>> /\ e = staged
    BY <1>3, <2>1, <2>4
  <2>6. QED
    BY <1>6, <2>2, <2>4, <2>5
<1>10. QED
  BY Frame, <1>5, <1>7, <1>8, <1>9 DEF Framed

(* With a merge into the base, a worktree that goes holds nothing uncommitted.  *)
LEMMA WorktreeNext ==
  ASSUME IInv, [Next]_vars, NEW t \in Ticket, options.completion = "merge", wt[t], ~ wt'[t]
  PROVE  ~ Dirty(t)
<1>1. TypeOK /\ Closings
  BY DEF IInv
<1>2. wt \in [Ticket -> BOOLEAN]
  BY <1>1 DEF TypeOK
<1>3. CASE \E u \in Ticket : CreateWorktree(u)
  <2>1. wt' = wt \/ \E u \in Ticket : wt' = [wt EXCEPT ![u] = TRUE]
    BY <1>3 DEF CreateWorktree, git
  <2>2. QED
    BY <1>2, <2>1
<1>4. CASE RemoveWorktree
  BY <1>1, <1>4, RemoveWorktreeEffect DEF Closings
<1>5. CASE RemoveMerged
  <2>1. CASE wt' = wt
    BY <2>1
  <2>2. CASE node \in Ticket /\ (wt[node] => ~ Dirty(node)) /\ wt' = [wt EXCEPT ![node] = FALSE]
    BY <1>2, <2>2
  <2>3. QED
    BY <1>5, RemoveMergedEffect, <2>1, <2>2
<1>6. QED
  BY Frame, <1>3, <1>4, <1>5 DEF Framed

(* A branch that goes is that of a removed worktree, and what it holds is on    *)
(* the base or was committed since the last check.                              *)
LEMMA BranchNext ==
  ASSUME IInv, [Next]_vars, NEW t \in Ticket, br[t], ~ br'[t]
  PROVE  ~ wt[t] /\ <<t, head[t]>> \in {base[i] : i \in DOMAIN base} \cup unseen
<1>1. TypeOK /\ Closings /\ Merges /\ Removal
  BY DEF IInv
<1>2. br \in [Ticket -> BOOLEAN]
  BY <1>1 DEF TypeOK
<1>3. CASE \E u \in Ticket : CreateWorktree(u)
  <2>1. br' = br \/ \E u \in Ticket : br' = [br EXCEPT ![u] = TRUE]
    BY <1>3 DEF CreateWorktree, git
  <2>2. QED
    BY <1>2, <2>1
<1>4. CASE DeleteBranch
  <2>1. at = "deleting" /\ node \in Ticket /\ br' \in {br, [br EXCEPT ![node] = FALSE]}
    BY <1>4, DeleteBranchEffect
  <2>2. t = node
    BY <1>2, <2>1
  <2>3. ~ wt[t] /\ (head[t] = Source(t) \/ <<t, head[t]>> \in unseen)
    BY <1>1, <2>1, <2>2 DEF Removal
  <2>4. Frozen(t) \in Nat /\ Frozen(t) < Len(base) /\ base[Frozen(t) + 1] = <<t, Source(t)>>
    BY <1>1, <2>1, <2>2 DEF Closings, Removing, Merges, MergeKnown, Standing
  <2>5. Len(base) \in Nat /\ DOMAIN base = 1 .. Len(base)
    BY <1>1, Lengths
  <2>6. Frozen(t) + 1 \in DOMAIN base
    BY <2>4, <2>5
  <2>7. QED
    BY <2>3, <2>4, <2>6
<1>5. QED
  BY Frame, <1>3, <1>4 DEF Framed

(* Whichever step puts a version of a ticket on the remote or on the base, that *)
(* version is the one QA certified, and its certificate is in force.            *)
THEOREM PublishesOnlyCertified == Spec => PublishesCertified
<1> DEFINE Body == \A t \in Ticket \ late : \A v \in Version :
                     /\ options.qa
                     /\ \/ remote[t] # v /\ remote'[t] = v
                        \/ Len(base') > Len(base) /\ base'[Len(base')] = <<t, v>>
                     => qa[t] = "waived" \/ (qa[t] = "finalizing" /\ v = cert[t].tree)
<1>1. IInv /\ [Next]_vars => [Body]_vars
  <2>1. Version \subseteq Nat
    BY TicketAssumption DEF Version
  <2>2. IInv /\ [Next]_vars => Body
    BY <2>1, PublishingNext
  <2>3. QED
    BY <2>2
<1>2. QED
  BY <1>1, DeliveryInvariant, PTL DEF Spec, PublishesCertified

(* With a merge into the base, what is not committed stays in its worktree, and *)
(* a branch is deleted only after its worktree, when its content is on the base *)
(* or was committed by hand after the last check before the removal.            *)
THEOREM LosesNoWork == Spec => NoWorkLost
<1> DEFINE Body == \A t \in Ticket : options.completion = "merge" =>
                     /\ wt[t] /\ ~wt'[t] => ~Dirty(t)
                     /\ br[t] /\ ~br'[t] =>
                           ~wt[t] /\ <<t, head[t]>> \in {base[i] : i \in DOMAIN base} \cup unseen
<1>1. IInv /\ [Next]_vars => [Body]_vars
  BY WorktreeNext, BranchNext
<1>2. QED
  BY <1>1, DeliveryInvariant, PTL DEF Spec, NoWorkLost
=============================================================================
