---------------------------- MODULE QaReview_proofs ----------------------------
(***************************************************************************)
(* Theorems about QaReview for every number of reviews, every allowance and *)
(* every choice of options.                                                *)
(*                                                                         *)
(* The host is one program, so the argument follows its places: what the   *)
(* reducer, the latest review, the counts and the packet are at each of    *)
(* them.  Publishing a packet changes nothing but the packet, so a host in *)
(* "publish" counts as being where it goes on.                             *)
(***************************************************************************)
EXTENDS QaReview, FiniteSetTheorems, TLAPS

Place == IF at = "publish" THEN then ELSE at

Loading   == {"off", "load", "leave"}
Entering  == {"entry", "settle", "controls", "restore"}
Preparing == {"review", "sync"}
Turning   == {"identity", "bound", "ack", "acking", "turned"}
Ending    == {"unknown", "retry", "again", "reported", "passed"}
Fixing    == {"failed", "decide", "fix", "intend"}
Building  == {"send", "building", "fixed"}
Pausing   == {"pause", "pauseTree", "menu", "park", "parkTree"}
Closing   == {"guidance", "following", "waived", "deliver", "verify", "complete"}
Places == Loading \cup Entering \cup Preparing \cup Turning \cup Ending \cup Fixing \cup Building
          \cup Pausing \cup Closing

Statuses == {"started", "interrupted", "passed", "failed"}
Reports  == {"none", "open", "recheck", "fixed", "waived", "superseded"}
Fixes    == {"none", "started", "succeeded", "failed", "uncertain"}
Certs    == {"none", "issued", "invalid", "consumed"}
Row == [status: Statuses, src: Nat, report: Reports, fix: Fixes, paid: BOOLEAN, sent: Nat, cert: Certs]
Heads == {"idle", "review-ready", "turn-intended", "turn-uncertain", "review-failed",
          "remediation-intended", "remediation-uncertain", "recheck-required", "operator-menu"}
         \cup Terminal
PacketRow == [n: Nat, src: Nat, action: {"automatic", "review", "menu", "builder", "resolved"},
              first: Nat, intent: Nat]

HostOK ==
  /\ tree \in Nat /\ head \in Heads
  /\ stop \in {"none", "blocked", "input", "answered"}
  /\ followups \in Nat /\ auto \in Nat /\ violations \in Nat /\ snap \in Nat
  /\ auth \in Nat /\ granted \in Nat /\ asked \in Nat
  /\ at \in Places \cup {"publish"} /\ (at = "publish" => then \in Places)
PacketOK == packet \in PacketRow \cup {NoPacket} /\ plan \in PacketRow \cup {NoPacket}
TypeOK == HostOK /\ reviews \in Seq(Row) /\ PacketOK

(* Where the reducer is at each place of the host.                          *)
Reducer ==
  /\ N = 0 => head \in {"idle", "operator-menu"}
  /\ Place \in {"guidance", "passed", "deliver"} => head = "passed"
  /\ Place = "following" => head = "operator-menu"
  /\ Place \in Fixing \cup {"reported"} => head = "review-failed"
  /\ Place \in {"verify", "complete"} => head = "finalizing"
  /\ Place = "load" => head # "completed"
  /\ Place \in Entering \cup {"review"} => head \notin {"finalizing", "completed"}
  /\ Place = "sync" => head \notin {"waived", "finalizing", "completed"}
  /\ Place \in {"identity", "bound", "ack"} => head = "review-ready"
  /\ Place \in {"acking", "turned", "retry"} => head = "turn-intended"
  /\ Place \in {"send", "building"} => head = "remediation-intended"
  /\ Place = "fixed" => head = "recheck-required"
  /\ Place = "unknown" => head = "turn-uncertain"
  /\ Place \in {"pause", "pauseTree", "menu", "again"} => head \notin Terminal
  /\ resumed /\ Place \in Entering \cup {"review"} => head \notin Terminal

(* What the state of the reducer says of the latest review.                 *)
Latests ==
  /\ head = "review-failed" => /\ reviews[N].status = "failed" /\ reviews[N].fix = "none"
                               /\ reviews[N].report \in Unresolved
  /\ head = "passed" => reviews[N].status = "passed" /\ reviews[N].cert = "issued"
  /\ head \in {"finalizing", "completed"} => reviews[N].cert = "consumed"
  /\ Place \in Turning => /\ N > 0 /\ reviews[N].status = "started" /\ reviews[N].fix = "none"
                          /\ reviews[N].src = snap
  /\ Place = "reported" => reviews[N].src = snap
  /\ Place \in {"send", "building"} => reviews[N].status = "failed"

(* One report, one fix.                                                     *)
Sends ==
  /\ \A k \in 1 .. N : reviews[k].sent <= 1 /\ (reviews[k].sent = 1 => reviews[k].fix # "none")
  /\ Place = "send" => reviews[N].sent = 0
  /\ Place \in {"send", "building"} => reviews[N].fix # "none"

Issued == \A k \in 1 .. N : reviews[k].cert = "issued" => k = N /\ head = "passed"

Settled == head \in Terminal => Unsettled = {}

(* The host knows of every fix and guidance turn that counts.               *)
Counting == {"controls", "restore", "guidance", "identity", "bound", "ack", "acking", "turned",
             "retry", "again", "reported", "review", "sync"} \cup Fixing
Accounts ==
  /\ AutoCount <= MaxFixes
  /\ Place \in Counting => AutoCount <= auto
  /\ Place \in {"fix", "intend"} => auth # 0 \/ auto < MaxFixes
  /\ Place \in Building => AutoCount <= auto + 1

(* An authorization is for the latest review, and is spent on it.           *)
Authorized ==
  /\ auth # 0 => /\ auth = N /\ N \in given
                 /\ Place \in Fixing \cup {"restore", "guidance", "pauseTree", "parkTree", "leave"}
  /\ auth # 0 /\ Place = "restore" => head = "review-failed" \/ (head = "passed" /\ waiting)
  /\ granted # 0 => granted \in given
  /\ \A k \in 1 .. N : reviews[k].paid => k \in given

(* What the packet will say once its publication is finished.               *)
Told == IF plan # NoPacket THEN plan ELSE packet
Open == Told # NoPacket /\ Told.action # "resolved"
Packets ==
  /\ plan # NoPacket => at \in {"publish", "off", "load"}
  /\ at = "publish" => plan # NoPacket /\ then # "identity"
  /\ Open /\ Place \in Turning \cup {"reported"} => Told.src = snap
  /\ Open => \/ Told.n = N /\ (Told.action = "builder" => N > 0 /\ reviews[N].src = Told.src)
             \/ plan = NoPacket /\ Place \in {"identity", "off", "load"} /\ Lagging
  /\ Open /\ Place = "identity" => Lagging

(* A stop is passed only by a resumed host, and ended before its next turn. *)
Stops ==
  /\ stop # "none" => /\ N > 0 /\ ~ received
                      /\ \/ reviews[N].status \in {"started", "interrupted"}
                         \/ reviews[N].status = "failed" /\ reviews[N].fix # "none"
  /\ stop # "none" /\ Place \in {"settle", "controls", "restore", "review", "sync", "identity", "bound"}
       => resumed /\ stop # "input"
  /\ Place \in {"guidance", "following", "ack", "acking", "turned", "retry", "again", "reported", "fixed",
                "send", "building"} \cup Fixing => stop = "none"

Bounded == N <= MaxReviews

IInv == /\ TypeOK /\ Reducer /\ Latests /\ Sends /\ Issued /\ Settled /\ Accounts /\ Authorized
        /\ Packets /\ Stops /\ Bounded

-----------------------------------------------------------------------------
(* Rows.                                                                    *)

(* A sequence rewritten row by row.                                         *)
LEMMA Rewritten ==
  ASSUME NEW S, NEW s \in Seq(S), NEW f, f = [k \in DOMAIN s |-> f[k]], \A k \in 1 .. Len(s) : f[k] \in S
  PROVE  f \in Seq(S) /\ Len(f) = Len(s)
<1>1. f = [k \in 1 .. Len(s) |-> f[k]]
  OBVIOUS
<1>2. f \in [1 .. Len(s) -> S]
  BY <1>1
<1> QED
  BY <1>2

(* The reviews are rows.                                                    *)
LEMMA ReviewTyped == TypeOK => N \in Nat /\ \A k \in 1 .. N : reviews[k] \in Row
  BY DEF TypeOK, N

RowKept(r, q) == /\ q.src = r.src /\ q.sent = r.sent /\ q.paid = r.paid /\ q.cert = r.cert

(* interruptStartedQaAttempts changes the status of a started review and no *)
(* more.                                                                    *)
LEMMA InterruptedRows ==
  ASSUME NEW rows \in Seq(Row)
  PROVE  /\ Interrupted(rows) \in Seq(Row) /\ Len(Interrupted(rows)) = Len(rows)
         /\ \A k \in 1 .. Len(rows) :
              /\ RowKept(rows[k], Interrupted(rows)[k])
              /\ Interrupted(rows)[k].fix = rows[k].fix /\ Interrupted(rows)[k].report = rows[k].report
              /\ Interrupted(rows)[k].status = IF rows[k].status = "started" THEN "interrupted" ELSE rows[k].status
<1> DEFINE f == Interrupted(rows)
<1>1. f = [k \in DOMAIN rows |-> f[k]]
  BY DEF Interrupted
<1>2. ASSUME NEW k \in 1 .. Len(rows)
      PROVE  /\ f[k] \in Row /\ RowKept(rows[k], f[k]) /\ f[k].fix = rows[k].fix /\ f[k].report = rows[k].report
             /\ f[k].status = IF rows[k].status = "started" THEN "interrupted" ELSE rows[k].status
  <2>1. /\ rows[k] \in Row
        /\ f[k] = IF rows[k].status = "started" THEN [rows[k] EXCEPT !.status = "interrupted"] ELSE rows[k]
    BY DEF Interrupted
  <2> QED
    BY <2>1 DEF Row, Statuses, RowKept
<1>3. f \in Seq(Row) /\ Len(f) = Len(rows)
  <2> HIDE DEF f
  <2> QED
    BY <1>1, <1>2, Rewritten
<1> QED
  BY <1>2, <1>3

(* Revoking certificates changes issued certificates and no more.           *)
LEMMA UncertifiedRows ==
  ASSUME NEW rows \in Seq(Row)
  PROVE  /\ Uncertified(rows) \in Seq(Row) /\ Len(Uncertified(rows)) = Len(rows)
         /\ \A k \in 1 .. Len(rows) :
              /\ Uncertified(rows)[k].src = rows[k].src /\ Uncertified(rows)[k].sent = rows[k].sent
              /\ Uncertified(rows)[k].paid = rows[k].paid /\ Uncertified(rows)[k].status = rows[k].status
              /\ Uncertified(rows)[k].fix = rows[k].fix /\ Uncertified(rows)[k].report = rows[k].report
              /\ Uncertified(rows)[k].cert = IF rows[k].cert = "issued" THEN "invalid" ELSE rows[k].cert
<1> DEFINE f == Uncertified(rows)
<1>1. f = [k \in DOMAIN rows |-> f[k]]
  BY DEF Uncertified
<1>2. ASSUME NEW k \in 1 .. Len(rows)
      PROVE  /\ f[k] \in Row /\ f[k].src = rows[k].src /\ f[k].sent = rows[k].sent
             /\ f[k].paid = rows[k].paid /\ f[k].status = rows[k].status
             /\ f[k].fix = rows[k].fix /\ f[k].report = rows[k].report
             /\ f[k].cert = IF rows[k].cert = "issued" THEN "invalid" ELSE rows[k].cert
  <2>1. /\ rows[k] \in Row
        /\ f[k] = IF rows[k].cert = "issued" THEN [rows[k] EXCEPT !.cert = "invalid"] ELSE rows[k]
    BY DEF Uncertified
  <2>2. CASE rows[k].cert = "issued"
    <3>1. ASSUME NEW r \in Row, NEW q, q = [r EXCEPT !.cert = "invalid"]
          PROVE  /\ q \in Row /\ q.cert = "invalid" /\ q.src = r.src /\ q.sent = r.sent /\ q.paid = r.paid
                 /\ q.status = r.status /\ q.fix = r.fix /\ q.report = r.report
      BY <3>1 DEF Row, Certs
    <3> QED
      BY <2>1, <2>2, <3>1
  <2>3. CASE rows[k].cert # "issued"
    BY <2>1, <2>3
  <2> QED
    BY <2>2, <2>3
<1>3. f \in Seq(Row) /\ Len(f) = Len(rows)
  <2> HIDE DEF f
  <2> QED
    BY <1>1, <1>2, Rewritten
<1> QED
  BY <1>2, <1>3

(* Settling reports changes the reports it names and no more.               *)
LEMMA ReportedRows ==
  ASSUME NEW rows \in Seq(Row), NEW from, NEW to \in Reports
  PROVE  /\ WithReports(rows, from, to) \in Seq(Row) /\ Len(WithReports(rows, from, to)) = Len(rows)
         /\ \A k \in 1 .. Len(rows) :
              /\ RowKept(rows[k], WithReports(rows, from, to)[k])
              /\ WithReports(rows, from, to)[k].status = rows[k].status
              /\ WithReports(rows, from, to)[k].fix = rows[k].fix
              /\ WithReports(rows, from, to)[k].report = IF rows[k].report \in from THEN to ELSE rows[k].report
<1> DEFINE f == WithReports(rows, from, to)
<1>1. f = [k \in DOMAIN rows |-> f[k]]
  BY DEF WithReports
<1>2. ASSUME NEW k \in 1 .. Len(rows)
      PROVE  /\ f[k] \in Row /\ RowKept(rows[k], f[k]) /\ f[k].fix = rows[k].fix /\ f[k].status = rows[k].status
             /\ f[k].report = IF rows[k].report \in from THEN to ELSE rows[k].report
  <2>1. /\ rows[k] \in Row
        /\ f[k] = IF rows[k].report \in from THEN [rows[k] EXCEPT !.report = to] ELSE rows[k]
    BY DEF WithReports
  <2> QED
    BY <2>1 DEF Row, RowKept
<1>3. f \in Seq(Row) /\ Len(f) = Len(rows)
  <2> HIDE DEF f
  <2> QED
    BY <1>1, <1>2, Rewritten
<1> QED
  BY <1>2, <1>3

(* What each step that writes a review makes of the rows.                   *)
LEMMA RowPut ==
  ASSUME NEW rows \in Seq(Row), NEW j \in 1 .. Len(rows), NEW q \in Row,
         NEW put, put = [rows EXCEPT ![j] = q]
  PROVE  /\ put \in Seq(Row) /\ Len(put) = Len(rows) /\ put[j] = q
         /\ \A k \in 1 .. Len(rows) : k # j => put[k] = rows[k]
  OBVIOUS

(* A row with one of its columns written.                                   *)
LEMMA SetStatus ==
  ASSUME NEW r \in Row, NEW x \in Statuses, NEW q, q = [r EXCEPT !.status = x]
  PROVE  /\ q \in Row /\ q.status = x
         /\ q.src = r.src /\ q.sent = r.sent /\ q.paid = r.paid
         /\ q.cert = r.cert /\ q.fix = r.fix /\ q.report = r.report
  BY DEF Row, Statuses, Reports, Fixes, Certs

(* The same for the report.                                                 *)
LEMMA SetReport ==
  ASSUME NEW r \in Row, NEW x \in Reports, NEW q, q = [r EXCEPT !.report = x]
  PROVE  /\ q \in Row /\ q.report = x
         /\ q.src = r.src /\ q.sent = r.sent /\ q.paid = r.paid
         /\ q.cert = r.cert /\ q.status = r.status /\ q.fix = r.fix
  BY DEF Row, Statuses, Reports, Fixes, Certs

(* The same for the fix.                                                    *)
LEMMA SetFix ==
  ASSUME NEW r \in Row, NEW x \in Fixes, NEW q, q = [r EXCEPT !.fix = x]
  PROVE  /\ q \in Row /\ q.fix = x
         /\ q.src = r.src /\ q.sent = r.sent /\ q.paid = r.paid
         /\ q.cert = r.cert /\ q.status = r.status /\ q.report = r.report
  BY DEF Row, Statuses, Reports, Fixes, Certs

(* The same for the authorization of the fix.                               *)
LEMMA SetPaid ==
  ASSUME NEW r \in Row, NEW x \in BOOLEAN, NEW q, q = [r EXCEPT !.paid = x]
  PROVE  /\ q \in Row /\ q.paid = x
         /\ q.src = r.src /\ q.sent = r.sent /\ q.cert = r.cert
         /\ q.status = r.status /\ q.fix = r.fix /\ q.report = r.report
  BY DEF Row, Statuses, Reports, Fixes, Certs

(* The same for the count of sends.                                         *)
LEMMA SetSent ==
  ASSUME NEW r \in Row, NEW x \in Nat, NEW q, q = [r EXCEPT !.sent = x]
  PROVE  /\ q \in Row /\ q.sent = x
         /\ q.src = r.src /\ q.paid = r.paid /\ q.cert = r.cert
         /\ q.status = r.status /\ q.fix = r.fix /\ q.report = r.report
  BY DEF Row, Statuses, Reports, Fixes, Certs

(* The same for the certificate.                                            *)
LEMMA SetCert ==
  ASSUME NEW r \in Row, NEW x \in Certs, NEW q, q = [r EXCEPT !.cert = x]
  PROVE  /\ q \in Row /\ q.cert = x
         /\ q.src = r.src /\ q.sent = r.sent /\ q.paid = r.paid
         /\ q.status = r.status /\ q.fix = r.fix /\ q.report = r.report
  BY DEF Row, Statuses, Reports, Fixes, Certs

Others(k) == reviews'[k] = reviews[k]

(* The latest row is replaced.                                              *)
LEMMA LatestPut ==
  ASSUME TypeOK, N > 0, NEW q \in Row, reviews' = [reviews EXCEPT ![N] = q]
  PROVE  /\ reviews' \in Seq(Row) /\ N' = N /\ reviews'[N] = q
         /\ \A k \in 1 .. N : k # N => Others(k)
<1>1. N \in 1 .. Len(reviews) /\ reviews \in Seq(Row) /\ N = Len(reviews)
  BY DEF TypeOK, N
<1>2. /\ reviews' \in Seq(Row) /\ Len(reviews') = Len(reviews) /\ reviews'[N] = q
      /\ \A k \in 1 .. Len(reviews) : k # N => reviews'[k] = reviews[k]
  BY <1>1, RowPut
<1> QED
  BY <1>1, <1>2 DEF N, Others

(* commitQaFailureAttempt: the latest review failed and its report is open. *)
LEMMA FailedRows ==
  ASSUME TypeOK, Reducer, TurnFailed
  PROVE  /\ reviews' \in Seq(Row) /\ N' = N /\ N > 0 /\ \A k \in 1 .. N : k # N => Others(k)
         /\ RowKept(reviews[N], reviews'[N]) /\ reviews'[N].fix = reviews[N].fix
         /\ reviews'[N].status = "failed" /\ reviews'[N].report = "open"
<1>1. N > 0 /\ reviews[N] \in Row
  BY ReviewTyped DEF TurnFailed, Reducer, Place
<1>2. PICK u : u = [reviews[N] EXCEPT !.status = "failed"]
  OBVIOUS
<1>3. PICK q : q = [u EXCEPT !.report = "open"]
  OBVIOUS
<1>4. u \in Row /\ u.status = "failed" /\ RowKept(reviews[N], u) /\ u.fix = reviews[N].fix
  BY <1>1, <1>2, SetStatus DEF Statuses, RowKept
<1>5. q \in Row /\ q.status = "failed" /\ q.report = "open" /\ RowKept(reviews[N], q) /\ q.fix = reviews[N].fix
  BY <1>3, <1>4, SetReport DEF Reports, RowKept
<1>6. reviews' = [reviews EXCEPT ![N] = q]
  BY <1>1, <1>2, <1>3, ReviewTyped DEF TurnFailed, TypeOK, N
<1> QED
  BY <1>1, <1>5, <1>6, LatestPut

(* commitQaPassAttempt: the latest review passed with a certificate, and no *)
(* report is left.                                                          *)
LEMMA PassedRows ==
  ASSUME TypeOK, Reducer, TurnPassed
  PROVE  /\ reviews' \in Seq(Row) /\ N' = N /\ N > 0
         /\ \A k \in 1 .. N : /\ reviews'[k].src = reviews[k].src /\ reviews'[k].sent = reviews[k].sent
                              /\ reviews'[k].paid = reviews[k].paid /\ reviews'[k].fix = reviews[k].fix
                              /\ reviews'[k].report \notin Unresolved
                              /\ k # N => reviews'[k].cert = reviews[k].cert
         /\ reviews'[N].status = "passed" /\ reviews'[N].cert = "issued"
<1>1. N > 0 /\ reviews[N] \in Row /\ N \in 1 .. Len(reviews) /\ N = Len(reviews) /\ reviews \in Seq(Row)
  BY ReviewTyped DEF TurnPassed, Reducer, Place, TypeOK, N
<1>2. PICK u : u = [reviews[N] EXCEPT !.status = "passed"]
  OBVIOUS
<1>3. PICK q : q = [u EXCEPT !.cert = "issued"]
  OBVIOUS
<1>4. /\ u \in Row /\ u.status = "passed" /\ u.fix = reviews[N].fix /\ u.src = reviews[N].src
      /\ u.sent = reviews[N].sent /\ u.paid = reviews[N].paid
  BY <1>1, <1>2, SetStatus DEF Statuses
<1>5. /\ q \in Row /\ q.status = "passed" /\ q.cert = "issued" /\ q.fix = reviews[N].fix /\ q.src = reviews[N].src
      /\ q.sent = reviews[N].sent /\ q.paid = reviews[N].paid
  BY <1>3, <1>4, SetCert DEF Certs
<1>6. PICK mid : mid = [reviews EXCEPT ![N] = q]
  OBVIOUS
<1>7. /\ mid \in Seq(Row) /\ Len(mid) = N /\ mid[N] = q
      /\ \A k \in 1 .. N : k # N => mid[k] = reviews[k]
  BY <1>1, <1>5, <1>6, RowPut
<1>8. reviews' = WithReports(mid, Unresolved, "fixed")
  BY <1>1, <1>2, <1>3, <1>6 DEF TurnPassed, PassedReports
<1>9. /\ reviews' \in Seq(Row) /\ Len(reviews') = N
      /\ \A k \in 1 .. N : /\ RowKept(mid[k], reviews'[k]) /\ reviews'[k].status = mid[k].status
                           /\ reviews'[k].fix = mid[k].fix /\ reviews'[k].report \notin Unresolved
  BY <1>7, <1>8, ReportedRows DEF Reports, Unresolved
<1> QED
  BY <1>1, <1>5, <1>7, <1>9 DEF RowKept, N

(* A failed review whose source moved: its report is superseded.            *)
LEMMA DriftedRows ==
  ASSUME TypeOK, Reducer, FixDrifted
  PROVE  /\ reviews' \in Seq(Row) /\ N' = N /\ N > 0 /\ \A k \in 1 .. N : k # N => Others(k)
         /\ RowKept(reviews[N], reviews'[N]) /\ reviews'[N].fix = reviews[N].fix
         /\ reviews'[N].status = reviews[N].status /\ reviews'[N].report = "superseded"
<1>1. N > 0 /\ reviews[N] \in Row
  BY ReviewTyped DEF FixDrifted, Reducer, Place, Fixing
<1>2. PICK q : q = [reviews[N] EXCEPT !.report = "superseded"]
  OBVIOUS
<1>3. /\ q \in Row /\ q.report = "superseded" /\ RowKept(reviews[N], q) /\ q.fix = reviews[N].fix
      /\ q.status = reviews[N].status
  BY <1>1, <1>2, SetReport DEF Reports, RowKept
<1>4. reviews' = [reviews EXCEPT ![N] = q]
  BY <1>1, <1>2, ReviewTyped DEF FixDrifted, TypeOK, N
<1> QED
  BY <1>1, <1>3, <1>4, LatestPut

(* The intent of a fix: the latest review's, authorized if the host holds   *)
(* an authorization.                                                        *)
LEMMA IntendedRows ==
  ASSUME TypeOK, Reducer, FixIntended
  PROVE  /\ reviews' \in Seq(Row) /\ N' = N /\ N > 0 /\ \A k \in 1 .. N : k # N => Others(k)
         /\ reviews'[N].src = reviews[N].src /\ reviews'[N].sent = reviews[N].sent
         /\ reviews'[N].cert = reviews[N].cert /\ reviews'[N].report = reviews[N].report
         /\ reviews'[N].status = reviews[N].status
         /\ reviews'[N].fix = "started" /\ (reviews'[N].paid <=> auth # 0)
<1>1. N > 0 /\ reviews[N] \in Row
  BY ReviewTyped DEF FixIntended, Reducer, Place, Fixing
<1>2. PICK u : u = [reviews[N] EXCEPT !.fix = "started"]
  OBVIOUS
<1>3. PICK p \in BOOLEAN : p = (auth # 0)
  BY Zenon
<1>5. PICK q : q = [u EXCEPT !.paid = p]
  OBVIOUS
<1>4. /\ u \in Row /\ u.fix = "started" /\ u.src = reviews[N].src /\ u.sent = reviews[N].sent
      /\ u.cert = reviews[N].cert /\ u.report = reviews[N].report /\ u.status = reviews[N].status
  BY <1>1, <1>2, SetFix DEF Fixes
<1>6. /\ q \in Row /\ q.paid = p /\ q.fix = u.fix /\ q.src = u.src /\ q.sent = u.sent
      /\ q.cert = u.cert /\ q.report = u.report /\ q.status = u.status
  BY <1>4, <1>5, SetPaid
<1>7. reviews' = [reviews EXCEPT ![N] = q]
  BY <1>1, <1>2, <1>3, <1>5, ReviewTyped DEF FixIntended, TypeOK, N
<1>8. /\ reviews' \in Seq(Row) /\ N' = N /\ reviews'[N] = q
      /\ \A k \in 1 .. N : k # N => Others(k)
  BY <1>1, <1>6, <1>7, LatestPut, Zenon
<1>9. reviews'[N].paid <=> auth # 0
  BY <1>3, <1>6, <1>8, Zenon
<1>10. /\ q.fix = u.fix /\ q.src = u.src /\ q.sent = u.sent
       /\ q.cert = u.cert /\ q.report = u.report /\ q.status = u.status
  BY <1>6
<1> QED
  BY <1>1, <1>4, <1>8, <1>9, <1>10

(* A fix goes to the Builder.                                               *)
LEMMA SentRows ==
  ASSUME TypeOK, Reducer, FixSent
  PROVE  /\ reviews' \in Seq(Row) /\ N' = N /\ N > 0 /\ \A k \in 1 .. N : k # N => Others(k)
         /\ reviews'[N].src = reviews[N].src /\ reviews'[N].paid = reviews[N].paid
         /\ reviews'[N].cert = reviews[N].cert /\ reviews'[N].report = reviews[N].report
         /\ reviews'[N].status = reviews[N].status /\ reviews'[N].fix = reviews[N].fix
         /\ reviews'[N].sent = reviews[N].sent + 1
<1>1. N > 0 /\ reviews[N] \in Row
  BY ReviewTyped DEF FixSent, Reducer, Place
<1>2. PICK q : q = [reviews[N] EXCEPT !.sent = reviews[N].sent + 1]
  OBVIOUS
<1>3. reviews[N].sent + 1 \in Nat
  BY <1>1 DEF Row
<1>4. /\ q \in Row /\ q.sent = reviews[N].sent + 1
      /\ q.src = reviews[N].src /\ q.paid = reviews[N].paid
      /\ q.cert = reviews[N].cert /\ q.report = reviews[N].report
      /\ q.status = reviews[N].status /\ q.fix = reviews[N].fix
  BY <1>1, <1>2, <1>3, SetSent
<1>5. reviews' = [reviews EXCEPT ![N] = q]
  BY <1>1, <1>2, ReviewTyped DEF FixSent, TypeOK, N
<1> QED
  BY <1>1, <1>4, <1>5, LatestPut

(* The latest fix has an outcome, and every report is for a recheck.        *)
LEMMA OutcomeRows ==
  ASSUME TypeOK, N > 0, NEW fix \in Fixes,
         reviews' = WithReports([reviews EXCEPT ![N].fix = fix], Unresolved, "recheck")
  PROVE  /\ reviews' \in Seq(Row) /\ N' = N
         /\ \A k \in 1 .. N : /\ RowKept(reviews[k], reviews'[k]) /\ reviews'[k].status = reviews[k].status
                              /\ k # N => reviews'[k].fix = reviews[k].fix
         /\ reviews'[N].fix = fix
<1>1. reviews[N] \in Row /\ N \in 1 .. Len(reviews) /\ N = Len(reviews) /\ reviews \in Seq(Row)
  BY ReviewTyped DEF TypeOK, N
<1>2. PICK q : q = [reviews[N] EXCEPT !.fix = fix]
  OBVIOUS
<1>3. q \in Row /\ q.fix = fix /\ RowKept(reviews[N], q) /\ q.status = reviews[N].status
  BY <1>1, <1>2, SetFix DEF RowKept
<1>4. PICK mid : mid = [reviews EXCEPT ![N] = q]
  OBVIOUS
<1>5. /\ mid \in Seq(Row) /\ Len(mid) = N /\ mid[N] = q
      /\ \A k \in 1 .. N : k # N => mid[k] = reviews[k]
  BY <1>1, <1>3, <1>4, RowPut
<1>6. reviews' = WithReports(mid, Unresolved, "recheck")
  BY <1>1, <1>2, <1>4
<1>7. /\ reviews' \in Seq(Row) /\ Len(reviews') = N
      /\ \A k \in 1 .. N : /\ RowKept(mid[k], reviews'[k]) /\ reviews'[k].status = mid[k].status
                           /\ reviews'[k].fix = mid[k].fix
  <2>1. ASSUME NEW w, w = WithReports(mid, Unresolved, "recheck")
        PROVE  /\ w \in Seq(Row) /\ Len(w) = N
               /\ \A k \in 1 .. N : /\ RowKept(mid[k], w[k]) /\ w[k].status = mid[k].status
                                    /\ w[k].fix = mid[k].fix
    BY <1>5, <2>1, ReportedRows DEF Reports, Unresolved
  <2> QED
    BY <1>6, <2>1
<1>8. N' = N
  BY <1>7 DEF N
<1>9. reviews'[N].fix = fix
  BY <1>1, <1>3, <1>5, <1>7
<1>10. ASSUME NEW k \in 1 .. N
       PROVE  /\ RowKept(reviews[k], reviews'[k]) /\ reviews'[k].status = reviews[k].status
              /\ k # N => reviews'[k].fix = reviews[k].fix
  <2>1. CASE k = N
    BY <1>3, <1>5, <1>7, <2>1 DEF RowKept
  <2>2. CASE k # N
    BY <1>5, <1>7, <2>2 DEF RowKept
  <2> QED
    BY <2>1, <2>2
<1> QED
  BY <1>7, <1>8, <1>9, <1>10

(* The latest fix has an outcome.                                           *)
LEMMA FixRows ==
  ASSUME TypeOK, N > 0, NEW fix \in Fixes, reviews' = [reviews EXCEPT ![N].fix = fix]
  PROVE  /\ reviews' \in Seq(Row) /\ N' = N
         /\ \A k \in 1 .. N : /\ RowKept(reviews[k], reviews'[k]) /\ reviews'[k].status = reviews[k].status
                              /\ k # N => reviews'[k].fix = reviews[k].fix
         /\ reviews'[N].fix = fix
<1>1. reviews[N] \in Row
  BY ReviewTyped
<1>2. PICK q : q = [reviews[N] EXCEPT !.fix = fix]
  OBVIOUS
<1>3. q \in Row /\ q.fix = fix /\ RowKept(reviews[N], q) /\ q.status = reviews[N].status
  BY <1>1, <1>2, SetFix DEF RowKept
<1>4. reviews' = [reviews EXCEPT ![N] = q]
  BY <1>2, ReviewTyped DEF TypeOK, N
<1>5. /\ reviews' \in Seq(Row) /\ N' = N /\ reviews'[N] = q
      /\ \A k \in 1 .. N : k # N => Others(k)
  BY <1>3, <1>4, LatestPut
<1> QED
  BY <1>3, <1>5 DEF RowKept, Others

(* The entry settles what an earlier process began, review or fix.          *)
LEMMA SettledRows ==
  ASSUME TypeOK, EntrySettle
  PROVE  /\ reviews' \in Seq(Row) /\ N' = N
         /\ \A k \in 1 .. N :
              /\ RowKept(reviews[k], reviews'[k]) /\ reviews'[k].report = reviews[k].report
              /\ reviews'[k].status = IF reviews[k].status = "started" THEN "interrupted" ELSE reviews[k].status
              /\ reviews'[k].fix = IF reviews[k].fix = "started" THEN "uncertain" ELSE reviews[k].fix
<1>1. PICK mid : mid = Interrupted(reviews)
  OBVIOUS
<1>2. /\ mid \in Seq(Row) /\ Len(mid) = N
      /\ \A k \in 1 .. N :
           /\ RowKept(reviews[k], mid[k]) /\ mid[k].fix = reviews[k].fix /\ mid[k].report = reviews[k].report
           /\ mid[k].status = IF reviews[k].status = "started" THEN "interrupted" ELSE reviews[k].status
  BY <1>1, InterruptedRows DEF TypeOK, N
<1>3. reviews' = [k \in 1 .. N |-> IF reviews[k].fix = "started" THEN [mid[k] EXCEPT !.fix = "uncertain"] ELSE mid[k]]
  BY <1>1 DEF EntrySettle
<1>4. ASSUME NEW k \in 1 .. N
      PROVE  /\ reviews'[k] \in Row /\ RowKept(mid[k], reviews'[k])
             /\ reviews'[k].report = mid[k].report /\ reviews'[k].status = mid[k].status
             /\ reviews'[k].fix = IF reviews[k].fix = "started" THEN "uncertain" ELSE mid[k].fix
  <2>1. mid[k] \in Row
    BY <1>2
  <2>2. CASE reviews[k].fix = "started"
    <3>1. PICK q : q = [mid[k] EXCEPT !.fix = "uncertain"]
      OBVIOUS
    <3>2. reviews'[k] = q
      BY <1>3, <2>2, <3>1
    <3>3. q \in Row /\ RowKept(mid[k], q) /\ q.report = mid[k].report /\ q.status = mid[k].status /\ q.fix = "uncertain"
      BY <2>1, <3>1, SetFix DEF Fixes, RowKept
    <3> QED
      BY <2>2, <3>2, <3>3
  <2>3. CASE reviews[k].fix # "started"
    BY <1>3, <2>1, <2>3 DEF RowKept
  <2> QED
    BY <2>2, <2>3
<1>5. reviews' \in Seq(Row) /\ Len(reviews') = N
  <2>1. DOMAIN mid = 1 .. N
    BY <1>2
  <2>2. reviews' = [k \in DOMAIN mid |-> reviews'[k]]
    BY <1>3, <2>1
  <2> QED
    BY <1>2, <1>4, <2>2, Rewritten
<1>6. ASSUME NEW k \in 1 .. N
      PROVE  /\ RowKept(reviews[k], reviews'[k]) /\ reviews'[k].report = reviews[k].report
             /\ reviews'[k].status = IF reviews[k].status = "started" THEN "interrupted" ELSE reviews[k].status
             /\ reviews'[k].fix = IF reviews[k].fix = "started" THEN "uncertain" ELSE reviews[k].fix
  BY <1>2, <1>4 DEF RowKept
<1> QED
  BY <1>5, <1>6 DEF N

(* commitQaReviewReady: a new review, and no certificate of the others      *)
(* stands.                                                                  *)
LEMMA AllocatedRows ==
  ASSUME TypeOK, ReviewAllocated
  PROVE  /\ reviews' \in Seq(Row) /\ N' = N + 1
         /\ reviews'[N + 1] = Attempt(snap)
         /\ \A k \in 1 .. N :
              /\ reviews'[k].src = reviews[k].src /\ reviews'[k].sent = reviews[k].sent
              /\ reviews'[k].paid = reviews[k].paid /\ reviews'[k].report = reviews[k].report
              /\ reviews'[k].fix = reviews[k].fix
              /\ reviews'[k].cert = IF reviews[k].cert = "issued" THEN "invalid" ELSE reviews[k].cert
<1>1. PICK mid : mid = Interrupted(reviews)
  OBVIOUS
<1>2. /\ mid \in Seq(Row) /\ Len(mid) = N
      /\ \A k \in 1 .. N :
           RowKept(reviews[k], mid[k]) /\ mid[k].fix = reviews[k].fix /\ mid[k].report = reviews[k].report
  BY <1>1, InterruptedRows DEF TypeOK, N
<1>3. PICK old : old = Uncertified(mid)
  OBVIOUS
<1>4. /\ old \in Seq(Row) /\ Len(old) = N
      /\ \A k \in 1 .. N :
           /\ old[k].src = mid[k].src /\ old[k].sent = mid[k].sent /\ old[k].paid = mid[k].paid
           /\ old[k].fix = mid[k].fix /\ old[k].report = mid[k].report
           /\ old[k].cert = IF mid[k].cert = "issued" THEN "invalid" ELSE mid[k].cert
  BY <1>2, <1>3, UncertifiedRows
<1>5. Attempt(snap) \in Row
  BY DEF Attempt, Row, TypeOK, HostOK, Statuses, Reports, Fixes, Certs
<1>6. reviews' = Append(old, Attempt(snap))
  BY <1>1, <1>3 DEF ReviewAllocated
<1>7. /\ reviews' \in Seq(Row) /\ Len(reviews') = N + 1 /\ reviews'[N + 1] = Attempt(snap)
      /\ \A k \in 1 .. N : reviews'[k] = old[k]
  <2> HIDE DEF N
  <2> QED
    BY <1>4, <1>5, <1>6
<1> QED
  BY <1>2, <1>4, <1>7 DEF N, RowKept

(* The steps that write rows of reviews; all others leave them alone.       *)
Writing ==
  \/ Leave \/ EntrySettle \/ GuidanceIntended \/ ReviewAllocated \/ TurnDrifted \/ Again
  \/ TurnPassed \/ TurnFailed \/ FixDrifted \/ FixIntended \/ FixSent \/ FixReported \/ FixStopped
  \/ Decided \/ FinalizationBegun \/ Repair
Reading ==
  \/ Start \/ Publish \/ Load \/ Pause \/ Park \/ FinalizationVerified \/ FinalizationCompleted
  \/ Edit \/ Answer \/ Ask \/ Guide \/ Crash
  \/ EntryStopped \/ EntryUncertain \/ EntryMenu \/ EntryUnsent \/ EntryRecheck
  \/ EntryControls \/ EntryRestore \/ GuidanceRefused \/ GuidanceFollowed
  \/ ReviewUnprepared \/ ReviewPrepared \/ ReviewSync \/ ReviewIdentified \/ ReviewRejected \/ ReviewAccepted
  \/ TurnIntended \/ Acknowledged \/ TurnUnknown \/ TurnUnresolved \/ TurnModified \/ TurnInvalid
  \/ TurnRefused \/ Reported \/ Passed \/ Retry
  \/ Failed \/ FixAllowed \/ Decide \/ Waived \/ FixUndelivered \/ FixBound \/ FixRecorded

(* A step writes rows or leaves them alone.                                 *)
LEMMA Kinds == Next => Writing \/ (Reading /\ reviews' = reviews)
<1>1. Next => Writing \/ Reading
  BY Zenon DEF Next, Writing, Reading, Load, Entry, Review, Turn, Fix, Finish, Around
<1>2. Start \/ Publish \/ Load \/ Pause \/ Park \/ FinalizationVerified \/ FinalizationCompleted
      \/ Edit \/ Answer \/ Ask \/ Guide \/ Crash => reviews' = reviews
  BY DEF Start, Publish, Load, LoadPublication, LoadIdentity, LoadTerminal, Loaded, Pause, Park,
     FinalizationVerified, FinalizationCompleted, Edit, Answer, Ask, Guide, Crash, database
<1>3. EntryStopped \/ EntryUncertain \/ EntryMenu \/ EntryUnsent \/ EntryRecheck
      \/ EntryControls \/ EntryRestore \/ GuidanceRefused \/ GuidanceFollowed => reviews' = reviews
  BY DEF EntryStopped, EntryUncertain, EntryMenu, EntryUnsent, EntryRecheck, EntryControls, EntryRestore,
     GuidanceRefused, GuidanceFollowed, database
<1>4. ReviewUnprepared \/ ReviewPrepared \/ ReviewSync \/ ReviewIdentified \/ ReviewRejected \/ ReviewAccepted
      => reviews' = reviews
  BY DEF ReviewUnprepared, ReviewPrepared, ReviewSync, ReviewIdentified, ReviewRejected, ReviewAccepted,
     database
<1>5. TurnIntended \/ Acknowledged \/ TurnUnknown \/ TurnUnresolved \/ TurnModified \/ TurnInvalid
      \/ TurnRefused \/ Reported \/ Passed \/ Retry => reviews' = reviews
  BY DEF TurnIntended, Acknowledged, TurnUnknown, TurnUnresolved, TurnModified, TurnInvalid, TurnRefused,
     Reported, Passed, Retry, database
<1>6. Failed \/ FixAllowed \/ Decide \/ Waived \/ FixUndelivered \/ FixBound \/ FixRecorded => reviews' = reviews
  BY DEF Failed, FixAllowed, Decide, Waived, FixUndelivered, FixBound, FixRecorded, database
<1> QED
  BY <1>1, <1>2, <1>3, <1>4, <1>5, <1>6, Zenon DEF Reading

(* beginQaFinalization: the certificate is consumed, or every one is        *)
(* revoked.                                                                 *)
LEMMA BegunRows ==
  ASSUME TypeOK, Reducer, FinalizationBegun
  PROVE  /\ reviews' \in Seq(Row) /\ N' = N /\ N > 0
         /\ \A k \in 1 .. N : /\ reviews'[k].src = reviews[k].src /\ reviews'[k].sent = reviews[k].sent
                              /\ reviews'[k].paid = reviews[k].paid /\ reviews'[k].status = reviews[k].status
                              /\ reviews'[k].fix = reviews[k].fix /\ reviews'[k].report = reviews[k].report
         /\ \/ /\ tree = reviews[N].src /\ head' = "finalizing" /\ reviews'[N].cert = "consumed"
               /\ \A k \in 1 .. N : k # N => reviews'[k].cert = reviews[k].cert
            \/ /\ head' = "operator-menu"
               /\ \A k \in 1 .. N : reviews'[k].cert = IF reviews[k].cert = "issued" THEN "invalid" ELSE reviews[k].cert
<1>1. N > 0 /\ reviews[N] \in Row /\ reviews \in Seq(Row) /\ N = Len(reviews)
  BY ReviewTyped DEF FinalizationBegun, Reducer, Place, TypeOK, N
<1>2. CASE /\ tree = reviews[N].src /\ head' = "finalizing"
           /\ reviews' = [reviews EXCEPT ![N].cert = "consumed"]
  <2>1. PICK q : q = [reviews[N] EXCEPT !.cert = "consumed"]
    OBVIOUS
  <2>2. /\ q \in Row /\ q.cert = "consumed" /\ q.src = reviews[N].src /\ q.sent = reviews[N].sent
        /\ q.paid = reviews[N].paid /\ q.status = reviews[N].status /\ q.fix = reviews[N].fix
        /\ q.report = reviews[N].report
    BY <1>1, <2>1, SetCert DEF Certs
  <2>3. reviews' = [reviews EXCEPT ![N] = q]
    BY <1>2, <2>1, ReviewTyped DEF TypeOK, N
  <2>4. /\ reviews' \in Seq(Row) /\ N' = N /\ reviews'[N] = q
        /\ \A k \in 1 .. N : k # N => Others(k)
    BY <1>1, <2>2, <2>3, LatestPut
  <2> QED
    BY <1>1, <1>2, <2>2, <2>4 DEF Others
<1>3. CASE head' = "operator-menu" /\ reviews' = Uncertified(reviews)
  BY <1>1, <1>3, UncertifiedRows DEF N
<1> QED
  BY <1>2, <1>3 DEF FinalizationBegun

(* No step but an allocation makes a review.                                *)
LEMMA RowsTyped ==
  ASSUME TypeOK, Reducer, Next
  PROVE  reviews' \in Seq(Row) /\ (N' = N \/ (ReviewAllocated /\ N' = N + 1))
<1> USE DEF N
<1>1. ASSUME NEW f, f \in {Interrupted(reviews), Uncertified(reviews), WithReports(reviews, Unresolved, "waived")}
      PROVE  f \in Seq(Row) /\ Len(f) = Len(reviews)
  BY <1>1, InterruptedRows, UncertifiedRows, ReportedRows DEF TypeOK, Reports
<1>2. CASE Leave \/ TurnDrifted \/ Again
  BY <1>1, <1>2 DEF Leave, TurnDrifted, Again
<1>3. CASE GuidanceIntended \/ Repair
  BY <1>1, <1>3 DEF GuidanceIntended, Repair
<1>4. CASE Decided
  BY <1>1, <1>4 DEF Decided, TypeOK
<1>5. CASE FixReported
  <2>1. N > 0 /\ "succeeded" \in Fixes
    BY <1>5, ReviewTyped DEF FixReported, Reducer, Place, Fixes
  <2> QED
    BY <1>5, <2>1, OutcomeRows DEF FixReported
<1>6. CASE FixStopped
  <2>1. N > 0
    BY <1>6, ReviewTyped DEF FixStopped, Reducer, Place
  <2>2. PICK fix \in Fixes : \/ reviews' = [reviews EXCEPT ![N].fix = fix]
                             \/ reviews' = WithReports([reviews EXCEPT ![N].fix = fix], Unresolved, "recheck")
    <3>1. PICK end \in {[fix |-> "failed", stop |-> "input", head |-> "operator-menu"],
                         [fix |-> "failed", stop |-> "blocked", head |-> "operator-menu"],
                         [fix |-> "uncertain", stop |-> "blocked", head |-> "remediation-uncertain"]} :
               \/ reviews' = [reviews EXCEPT ![N].fix = end.fix]
               \/ reviews' = WithReports([reviews EXCEPT ![N].fix = end.fix], Unresolved, "recheck")
      BY <1>6, Zenon DEF FixStopped
    <3>2. end.fix \in Fixes
      BY DEF Fixes
    <3> QED
      BY <3>1, <3>2, Zenon
  <2> QED
    BY <2>1, <2>2, OutcomeRows, FixRows
<1>7. CASE EntrySettle \/ ReviewAllocated
  BY <1>7, SettledRows, AllocatedRows
<1>8. CASE TurnPassed \/ TurnFailed \/ FixDrifted \/ FixIntended \/ FixSent \/ FinalizationBegun
  BY <1>8, PassedRows, FailedRows, DriftedRows, IntendedRows, SentRows, BegunRows
<1>9. CASE reviews' = reviews
  BY <1>9 DEF TypeOK
<1> QED
  BY <1>2, <1>3, <1>4, <1>5, <1>6, <1>7, <1>8, <1>9, Kinds, Zenon DEF Writing

(* The reducer is kept where the host's place says, one step per group of   *)
(* actions.                                                                 *)
LEMMA ReducerKept ==
  ASSUME TypeOK, Reducer, Stops, Next
  PROVE  Reducer'
<1> USE DEF Reducer, Place, Fixing, Entering, Terminal, Go, Mark, Revise, memory, database
<1>31. Loaded /\ resumed' => Pending /\ head \notin Terminal
  BY Zenon DEF Loaded
<1>0. N \in Nat /\ (N' = N \/ (ReviewAllocated /\ N' = N + 1)) /\ (ReviewAllocated => N' = N + 1)
  BY RowsTyped, ReviewTyped, AllocatedRows
<1>1. CASE Edit \/ Answer \/ Ask \/ Guide
  BY <1>1, <1>0 DEF Edit, Answer, Ask, Guide
<1>2. CASE Crash \/ Leave
  BY <1>2, <1>0 DEF Crash, Leave, Halt
<1>3. CASE Start \/ Publish
  BY <1>3, <1>0 DEF Start, Publish
<1>4. CASE LoadPublication \/ LoadIdentity \/ LoadTerminal \/ Loaded
  BY <1>4, <1>0, <1>31 DEF LoadPublication, LoadIdentity, LoadTerminal, Loaded, Halt
<1>5. CASE EntryStopped \/ EntryUncertain \/ EntryMenu \/ EntryUnsent
  BY <1>5, <1>0 DEF EntryStopped, EntryUncertain, EntryMenu, EntryUnsent, Stopped
<1>6. CASE EntryRecheck \/ EntrySettle
  BY <1>6, <1>0 DEF EntryRecheck, EntrySettle, Stopped, Confirmed
<1>7. CASE EntryControls \/ Failed
  BY <1>7, <1>0 DEF EntryControls, Failed, ConsumeControls, Eligible, Askable
<1>8. CASE EntryRestore
  BY <1>8, <1>0 DEF EntryRestore, Restorable
<1>9. CASE GuidanceRefused \/ GuidanceIntended \/ GuidanceFollowed
  BY <1>9, <1>0 DEF GuidanceRefused, GuidanceIntended, GuidanceFollowed, Allowed
<1>10. CASE ReviewUnprepared \/ ReviewPrepared
  BY <1>10, <1>0 DEF ReviewUnprepared, ReviewPrepared
<1>11. CASE ReviewSync \/ ReviewIdentified \/ ReviewRejected \/ ReviewAccepted
  BY <1>11, <1>0 DEF ReviewSync, ReviewIdentified, ReviewRejected, ReviewAccepted, InStep
<1>12. CASE ReviewAllocated
  BY <1>12, <1>0 DEF ReviewAllocated, InStep
<1>13. CASE TurnIntended \/ Acknowledged \/ TurnUnknown \/ TurnUnresolved \/ TurnModified
  BY <1>13, <1>0 DEF TurnIntended, Acknowledged, TurnUnknown, TurnUnresolved, TurnModified
<1>14. CASE TurnInvalid \/ TurnRefused \/ Reported \/ Passed \/ Retry
  BY <1>14, <1>0 DEF TurnInvalid, TurnRefused, Reported, Passed, Retry, Create
<1>15. CASE TurnDrifted \/ Again
  BY <1>15, <1>0 DEF TurnDrifted, Again, Drifted
<1>16. CASE TurnPassed \/ TurnFailed
  BY <1>16, <1>0 DEF TurnPassed, TurnFailed, Drifted
<1>17. CASE Pause \/ Park
  BY <1>17, <1>0 DEF Pause, Park, Create, EnsurePacket
<1>18. CASE FixAllowed \/ Decide \/ Decided \/ Waived
  BY <1>18, <1>0 DEF FixAllowed, Decide, Decided, Waived, Allowed
<1>19. CASE FixDrifted \/ FixUndelivered \/ FixBound
  BY <1>19, <1>0 DEF FixDrifted, FixUndelivered, FixBound
<1>20. CASE FixIntended \/ FixSent
  BY <1>20, <1>0 DEF FixIntended, FixSent
<1>21. CASE FixReported \/ FixRecorded
  BY <1>21, <1>0 DEF FixReported, FixRecorded
<1>22. CASE FixStopped
  BY <1>22, <1>0 DEF FixStopped
<1>23. CASE FinalizationBegun \/ FinalizationVerified \/ FinalizationCompleted
  BY <1>23, <1>0 DEF FinalizationBegun, FinalizationVerified, FinalizationCompleted
<1>24. CASE Repair
  BY <1>24, <1>0 DEF Repair
<1> QED
  BY <1>1, <1>2, <1>3, <1>4, <1>5, <1>6, <1>7, <1>8, <1>9, <1>10, <1>11, <1>12, <1>13, <1>14, <1>15,
     <1>16, <1>17, <1>18, <1>19, <1>20, <1>21, <1>22, <1>23, <1>24, Zenon DEF Next, Load, Entry, Review,
     Turn, Fix, Finish, Around

(* The count of automatic fixes is a number.                                *)
LEMMA CountTyped == TypeOK => AutoCount \in Nat
<1> SUFFICES ASSUME TypeOK PROVE AutoCount \in Nat
  OBVIOUS
<1>1. N \in Nat /\ followups \in Nat
  BY ReviewTyped DEF TypeOK, HostOK
<1>2. IsFiniteSet(1 .. N)
  BY <1>1, FS_Interval
<1>3. ASSUME NEW S, S = {k \in 1 .. N : reviews[k].fix # "none" /\ ~reviews[k].paid} PROVE Cardinality(S) \in Nat
  <2>1. S \subseteq 1 .. N
    BY <1>3
  <2> QED
    BY <1>2, <2>1, FS_Subset, FS_CardinalityType
<1> QED
  BY <1>1, <1>3 DEF AutoCount

(* The host and its database keep their types.                              *)
LEMMA HostTyped ==
  ASSUME TypeOK, Reducer, Next
  PROVE  HostOK'
<1> USE DEF HostOK, Places, Loading, Entering, Preparing, Turning, Ending, Fixing, Building,
            Pausing, Closing, Heads, Terminal, Go, Mark, Revise, memory, database, people, files
<1>0. HostOK /\ N \in Nat /\ AutoCount \in Nat
  BY ReviewTyped, CountTyped DEF TypeOK
<1>1. CASE Edit \/ Answer \/ Ask \/ Guide
  BY <1>1, <1>0 DEF Edit, Answer, Ask, Guide
<1>2. CASE Crash \/ Leave
  BY <1>2, <1>0 DEF Crash, Leave, Halt
<1>3. CASE Start \/ Publish
  BY <1>3, <1>0 DEF Start, Publish
<1>4. CASE LoadPublication \/ LoadIdentity \/ LoadTerminal \/ Loaded
  BY <1>4, <1>0 DEF LoadPublication, LoadIdentity, LoadTerminal, Loaded, Halt
<1>5. CASE EntryStopped \/ EntryUncertain \/ EntryMenu \/ EntryUnsent
  BY <1>5, <1>0 DEF EntryStopped, EntryUncertain, EntryMenu, EntryUnsent, Stopped
<1>6. CASE EntryRecheck \/ EntrySettle
  BY <1>6, <1>0 DEF EntryRecheck, EntrySettle, Stopped, Confirmed
<1>7. CASE EntryControls \/ Failed
  BY <1>7, <1>0 DEF EntryControls, Failed, ConsumeControls, Eligible, Askable
<1>8. CASE EntryRestore
  BY <1>8, <1>0 DEF EntryRestore, Restorable
<1>9. CASE GuidanceRefused \/ GuidanceIntended \/ GuidanceFollowed
  BY <1>9, <1>0 DEF GuidanceRefused, GuidanceIntended, GuidanceFollowed, Allowed
<1>10. CASE ReviewUnprepared \/ ReviewPrepared
  BY <1>10, <1>0 DEF ReviewUnprepared, ReviewPrepared
<1>11. CASE ReviewSync \/ ReviewIdentified \/ ReviewRejected \/ ReviewAccepted
  BY <1>11, <1>0 DEF ReviewSync, ReviewIdentified, ReviewRejected, ReviewAccepted, InStep
<1>12. CASE ReviewAllocated
  BY <1>12, <1>0 DEF ReviewAllocated, InStep
<1>13. CASE TurnIntended \/ Acknowledged \/ TurnUnknown \/ TurnUnresolved \/ TurnModified
  BY <1>13, <1>0 DEF TurnIntended, Acknowledged, TurnUnknown, TurnUnresolved, TurnModified
<1>14. CASE TurnInvalid \/ TurnRefused \/ Reported \/ Passed \/ Retry
  BY <1>14, <1>0 DEF TurnInvalid, TurnRefused, Reported, Passed, Retry, Create
<1>15. CASE TurnDrifted \/ Again
  BY <1>15, <1>0 DEF TurnDrifted, Again, Drifted, Larger
<1>16. CASE TurnPassed \/ TurnFailed
  BY <1>16, <1>0 DEF TurnPassed, TurnFailed, Drifted
<1>17. CASE Pause \/ Park
  BY <1>17, <1>0 DEF Pause, Park, Create, EnsurePacket
<1>18. CASE FixAllowed \/ Decide \/ Decided \/ Waived
  BY <1>18, <1>0 DEF FixAllowed, Decide, Decided, Waived, Allowed
<1>19. CASE FixDrifted \/ FixUndelivered \/ FixBound
  BY <1>19, <1>0 DEF FixDrifted, FixUndelivered, FixBound
<1>20. CASE FixIntended \/ FixSent
  BY <1>20, <1>0 DEF FixIntended, FixSent
<1>21. CASE FixReported \/ FixRecorded
  BY <1>21, <1>0 DEF FixReported, FixRecorded
<1>22. CASE FixStopped
  BY <1>22, <1>0 DEF FixStopped
<1>23. CASE FinalizationBegun \/ FinalizationVerified \/ FinalizationCompleted
  BY <1>23, <1>0 DEF FinalizationBegun, FinalizationVerified, FinalizationCompleted
<1>24. CASE Repair
  BY <1>24, <1>0 DEF Repair
<1> QED
  BY <1>1, <1>2, <1>3, <1>4, <1>5, <1>6, <1>7, <1>8, <1>9, <1>10, <1>11, <1>12, <1>13, <1>14, <1>15,
     <1>16, <1>17, <1>18, <1>19, <1>20, <1>21, <1>22, <1>23, <1>24, Zenon DEF Next, Load, Entry, Review,
     Turn, Fix, Finish, Around

(* What is written down when a packet is marked, revised or created.        *)
Actions == {"automatic", "review", "menu", "builder", "resolved"}

(* A packet is not the absence of one.                                      *)
LEMMA PacketReal == ASSUME NEW r \in PacketRow PROVE r # NoPacket
<1>1. NoPacket.action = "none" /\ r.action # "none"
  BY DEF PacketRow, NoPacket
<1> QED
  BY <1>1

(* A packet with one of its fields revised.                                 *)
LEMMA PacketAction ==
  ASSUME NEW r \in PacketRow, NEW x \in Actions, NEW q, q = [r EXCEPT !.action = x]
  PROVE  q \in PacketRow /\ q.n = r.n /\ q.src = r.src /\ q.action = x /\ q.intent = r.intent
  BY DEF PacketRow, Actions

(* The same for the review.                                                 *)
LEMMA PacketNumber ==
  ASSUME NEW r \in PacketRow, NEW x \in Nat, NEW q, q = [r EXCEPT !.n = x]
  PROVE  q \in PacketRow /\ q.n = x /\ q.src = r.src /\ q.action = r.action /\ q.intent = r.intent
  BY DEF PacketRow

(* The same for the source.                                                 *)
LEMMA PacketSource ==
  ASSUME NEW r \in PacketRow, NEW x \in Nat, NEW q, q = [r EXCEPT !.src = x]
  PROVE  q \in PacketRow /\ q.n = r.n /\ q.src = x /\ q.action = r.action /\ q.intent = r.intent
  BY DEF PacketRow

(* The same for the review that comes next.                                 *)
LEMMA PacketIntent ==
  ASSUME NEW r \in PacketRow, NEW x \in Nat, NEW q, q = [r EXCEPT !.intent = x]
  PROVE  q \in PacketRow /\ q.n = r.n /\ q.src = r.src /\ q.action = r.action /\ q.intent = x
  BY DEF PacketRow

(* The three ways a step leaves the packet for another place of the host.   *)
Plain == packet' = packet /\ plan' = plan
Written(n, src, action, l) ==
  /\ packet' = packet /\ at' = "publish" /\ then' = l /\ plan' \in PacketRow
  /\ plan'.n = n /\ plan'.src = src /\ plan'.action = action
Marked(action, l) == \/ Pending /\ Written(packet.n, packet.src, action, l)
                     \/ ~ Pending /\ Plain /\ at' = l
Created(src, action, l) == Written(N, src, action, l) \/ (Plain /\ at' = "leave")

(* A pending packet is a packet.                                            *)
LEMMA PendingTyped == TypeOK /\ Pending => packet \in PacketRow
  BY DEF TypeOK, PacketOK, Pending

(* Marking a packet revises its action, or does nothing when none is        *)
(* pending.                                                                 *)
LEMMA Marking ==
  ASSUME TypeOK, NEW a \in Actions, NEW l, Mark(a, l)
  PROVE  Marked(a, l)
<1>1. CASE Pending
  <2>1. packet \in PacketRow
    BY <1>1, PendingTyped
  <2>2. PICK q : q = [packet EXCEPT !.action = a]
    OBVIOUS
  <2>3. at' = "publish" /\ then' = l /\ packet' = packet /\ plan' = q
    BY <1>1, <2>2 DEF Mark, Revise
  <2>4. q \in PacketRow /\ q.n = packet.n /\ q.src = packet.src /\ q.action = a
    BY <2>1, <2>2, PacketAction
  <2> QED
    BY <1>1, <2>3, <2>4 DEF Marked, Written
<1>2. CASE ~ Pending
  BY <1>2 DEF Mark, Marked, Plain, Go, files
<1> QED
  BY <1>1, <1>2

(* Creating a packet binds it to the latest review, or ends the run when    *)
(* its folder exists.                                                       *)
LEMMA Creating ==
  ASSUME TypeOK, NEW s \in Nat, NEW a \in {"automatic", "menu"}, NEW l, Create(s, a, l)
  PROVE  Created(s, a, l)
<1>1. CASE N \in folders
  BY <1>1 DEF Create, Created, Plain, Go, files
<1>2. CASE N \notin folders
  <2>1. N \in Nat
    BY ReviewTyped
  <2>2. PICK q : q = [n |-> N, src |-> s, action |-> a, first |-> N, intent |-> 0]
    OBVIOUS
  <2>3. q \in PacketRow /\ q.n = N /\ q.src = s /\ q.action = a
    BY <2>1, <2>2 DEF PacketRow
  <2>4. plan' = q /\ at' = "publish" /\ then' = l /\ packet' = packet
    BY <1>2, <2>2 DEF Create
  <2> QED
    BY <2>3, <2>4 DEF Created, Written
<1> QED
  BY <1>1, <1>2

(* The revisions that bring a packet up to the next review.                 *)
LEMMA Revising ==
  ASSUME TypeOK, Pending
  PROVE  /\ LoadIdentity => Written(N, packet.src, packet.action, "load")
         /\ ReviewSync => \/ Written(packet.n, packet.src, "review", "sync")
                          \/ packet.action = "review" /\ Written(packet.n, snap, "review", "sync")
         /\ ReviewIdentified => Written(N, packet.src, packet.action, "bound")
<1>0. packet \in PacketRow /\ N \in Nat /\ snap \in Nat
  BY PendingTyped, ReviewTyped DEF TypeOK, HostOK
<1>1. PICK q : q = [packet EXCEPT !.n = N]
  OBVIOUS
<1>2. q \in PacketRow /\ q.n = N /\ q.src = packet.src /\ q.action = packet.action
  BY <1>0, <1>1, PacketNumber
<1>3. ASSUME LoadIdentity PROVE Written(N, packet.src, packet.action, "load")
  <2>1. plan' = q /\ at' = "publish" /\ then' = "load" /\ packet' = packet
    BY <1>1, <1>3 DEF LoadIdentity, Revise
  <2> QED
    BY <1>2, <2>1 DEF Written
<1>4. ASSUME ReviewIdentified PROVE Written(N, packet.src, packet.action, "bound")
  <2>1. plan' = q /\ at' = "publish" /\ then' = "bound" /\ packet' = packet
    BY <1>1, <1>4 DEF ReviewIdentified, Revise
  <2> QED
    BY <1>2, <2>1 DEF Written
<1>5. ASSUME ReviewSync
      PROVE  \/ Written(packet.n, packet.src, "review", "sync")
             \/ packet.action = "review" /\ Written(packet.n, snap, "review", "sync")
  <2>1. PICK q1 : q1 = [packet EXCEPT !.action = "review"]
    OBVIOUS
  <2>2. PICK q2 : q2 = [packet EXCEPT !.src = snap]
    OBVIOUS
  <2>3. PICK q3 : q3 = [packet EXCEPT !.intent = N + 1]
    OBVIOUS
  <2>4. q1 \in PacketRow /\ q1.n = packet.n /\ q1.src = packet.src /\ q1.action = "review"
    BY <1>0, <2>1, PacketAction DEF Actions
  <2>5. q2 \in PacketRow /\ q2.n = packet.n /\ q2.src = snap /\ q2.action = packet.action
    BY <1>0, <2>2, PacketSource
  <2>6. q3 \in PacketRow /\ q3.n = packet.n /\ q3.src = packet.src /\ q3.action = packet.action
    <3>1. N + 1 \in Nat
      BY <1>0
    <3> QED
      BY <1>0, <2>3, <3>1, PacketIntent
  <2>7. /\ at' = "publish" /\ then' = "sync" /\ packet' = packet
        /\ plan' = IF packet.action # "review" THEN q1 ELSE IF packet.src # snap THEN q2 ELSE q3
    BY <1>5, <2>1, <2>2, <2>3 DEF ReviewSync, Revise
  <2> QED
    BY <2>4, <2>5, <2>6, <2>7 DEF Written
<1> QED
  BY <1>3, <1>4, <1>5

(* What each step does to the packet; every other step leaves it alone.     *)
LEMMA Filed ==
  ASSUME TypeOK, Reducer, Next
  PROVE  /\ LoadTerminal => Marked("resolved", "load")
         /\ EntryRecheck => Marked("review", "settle")
         /\ ReviewUnprepared => Marked("menu", "menu") \/ (Plain /\ at' = "leave")
         /\ TurnInvalid => Marked("automatic", "retry") \/ (~ Pending /\ Created(snap, "automatic", "retry"))
         /\ Reported => Marked("builder", "failed")
         /\ Passed => Marked("resolved", "deliver")
         /\ Waived => Marked("resolved", "leave")
         /\ FixRecorded => Marked("review", "review")
         /\ LoadIdentity => Written(N, packet.src, packet.action, "load")
         /\ ReviewSync => \/ Written(packet.n, packet.src, "review", "sync")
                          \/ packet.action = "review" /\ Written(packet.n, snap, "review", "sync")
         /\ ReviewIdentified => \/ Pending /\ Written(N, packet.src, packet.action, "bound")
                                \/ ~ Pending /\ Plain /\ at' = "bound"
<1> USE DEF Actions
<1>1. (LoadTerminal => Mark("resolved", "load")) /\ (EntryRecheck => Mark("review", "settle"))
  BY Zenon DEF LoadTerminal, EntryRecheck
<1>2. (Reported => Mark("builder", "failed")) /\ (Passed => Mark("resolved", "deliver"))
  BY Zenon DEF Reported, Passed
<1>3. (Waived => Mark("resolved", "leave")) /\ (FixRecorded => Mark("review", "review"))
  BY Zenon DEF Waived, FixRecorded
<1>4. ReviewUnprepared => Mark("menu", "menu") \/ (Plain /\ at' = "leave")
  BY Zenon DEF ReviewUnprepared, Go, files, Plain
<1>5. TurnInvalid => Mark("automatic", "retry") \/ (~ Pending /\ Create(snap, "automatic", "retry"))
  BY Zenon DEF TurnInvalid
<1>6. (LoadIdentity => Pending) /\ (ReviewSync => Pending)
      /\ (ReviewIdentified => Pending \/ (~ Pending /\ Plain /\ at' = "bound"))
  BY DEF LoadIdentity, Lagging, ReviewSync, ReviewIdentified, Go, files, Plain
<1>7. snap \in Nat
  BY DEF TypeOK, HostOK
<1>8. \A a \in Actions : \A l : Mark(a, l) => Marked(a, l)
  BY Marking
<1>9. \A a \in {"automatic", "menu"} : \A l : Create(snap, a, l) => Created(snap, a, l)
  BY <1>7, Creating
<1> QED
  BY <1>1, <1>2, <1>3, <1>4, <1>5, <1>6, <1>8, <1>9, Revising

(* A pause marks the pending packet, creates one, or leaves what there is.  *)
LEMMA Parking ==
  ASSUME TypeOK, Reducer, Park
  PROVE  Marked("menu", "leave") \/ (~ Pending /\ \E src \in Nat : Created(src, "menu", "leave"))
         \/ (Plain /\ at' = "leave")
<1>1. \A l : Mark("menu", l) => Marked("menu", l)
  BY Marking DEF Actions
<1>2. \A s \in Nat : \A l : Create(s, "menu", l) => Created(s, "menu", l)
  BY Creating
<1>3. snap \in Nat /\ tree \in Nat
  BY DEF TypeOK, HostOK
<1>4. CASE at = "unknown" /\ packet # NoPacket
  BY <1>4 DEF Park, Plain, Go, files
<1>5. CASE at = "unknown" /\ packet = NoPacket
  <2>1. CASE N > 0
    <3>1. reviews[N].src \in Nat
      BY <2>1, ReviewTyped DEF Row
    <3>2. Create(reviews[N].src, "menu", "leave")
      BY <1>5, Zenon DEF Park
    <3> QED
      BY <1>5, <3>1, <3>2, <1>2 DEF Pending
  <2>2. CASE ~ (N > 0)
    BY <1>5, <2>2, ReviewTyped DEF Park, Reducer, Place
  <2> QED
    BY <2>1, <2>2
<1>6. CASE at \in {"park", "parkTree"}
  <2>1. EnsurePacket(snap) \/ EnsurePacket(tree)
    BY <1>6 DEF Park
  <2> QED
    BY <1>1, <1>2, <1>3, <2>1 DEF EnsurePacket
<1> QED
  BY <1>4, <1>5, <1>6 DEF Park

(* The steps that touch the packet; all others leave it alone.              *)
LEMMA FilesKept ==
  ASSUME Next
  PROVE  \/ Publish \/ LoadPublication \/ LoadIdentity \/ LoadTerminal \/ EntryRecheck
         \/ ReviewUnprepared \/ ReviewSync \/ ReviewIdentified \/ TurnInvalid \/ Reported \/ Passed
         \/ Waived \/ FixRecorded \/ Park \/ Repair
         \/ Plain
<1> USE DEF Plain, Go, files
<1>1. Edit \/ Answer \/ Ask \/ Guide => Plain
  BY DEF Edit, Answer, Ask, Guide
<1>2. Crash \/ Leave => Plain
  BY DEF Crash, Leave
<1>3. Start => Plain
  BY DEF Start
<1>4. Loaded => Plain
  BY DEF Loaded
<1>5. EntryStopped \/ EntryUncertain \/ EntryMenu \/ EntryUnsent => Plain
  BY DEF EntryStopped, EntryUncertain, EntryMenu, EntryUnsent
<1>6. EntrySettle => Plain
  BY DEF EntrySettle
<1>7. EntryControls \/ Failed => Plain
  BY DEF EntryControls, Failed, ConsumeControls
<1>8. EntryRestore => Plain
  BY DEF EntryRestore
<1>9. GuidanceRefused \/ GuidanceIntended \/ GuidanceFollowed => Plain
  BY DEF GuidanceRefused, GuidanceIntended, GuidanceFollowed
<1>10. ReviewPrepared => Plain
  BY DEF ReviewPrepared
<1>11. ReviewRejected \/ ReviewAccepted \/ ReviewAllocated => Plain
  BY DEF ReviewRejected, ReviewAccepted, ReviewAllocated
<1>12. TurnIntended \/ Acknowledged \/ TurnUnknown \/ TurnUnresolved \/ TurnModified => Plain
  BY DEF TurnIntended, Acknowledged, TurnUnknown, TurnUnresolved, TurnModified
<1>13. TurnRefused \/ Retry => Plain
  BY DEF TurnRefused, Retry
<1>14. TurnDrifted \/ Again => Plain
  BY DEF TurnDrifted, Again
<1>15. TurnPassed \/ TurnFailed => Plain
  BY DEF TurnPassed, TurnFailed
<1>16. Pause => Plain
  BY DEF Pause
<1>17. FixAllowed \/ Decide \/ Decided => Plain
  BY DEF FixAllowed, Decide, Decided
<1>18. FixDrifted \/ FixUndelivered \/ FixBound => Plain
  BY DEF FixDrifted, FixUndelivered, FixBound
<1>19. FixIntended \/ FixSent => Plain
  BY DEF FixIntended, FixSent
<1>20. FixReported => Plain
  BY DEF FixReported
<1>21. FixStopped => Plain
  BY DEF FixStopped
<1>22. FinalizationBegun \/ FinalizationVerified \/ FinalizationCompleted => Plain
  BY DEF FinalizationBegun, FinalizationVerified, FinalizationCompleted
<1> QED
  BY <1>1, <1>2, <1>3, <1>4, <1>5, <1>6, <1>7, <1>8, <1>9, <1>10, <1>11, <1>12, <1>13, <1>14, <1>15,
     <1>16, <1>17, <1>18, <1>19, <1>20, <1>21, <1>22, Zenon DEF Next, Load, Entry, Review, Turn, Fix,
     Finish, Around

(* The packet and its pending publication keep their types.                 *)
LEMMA PacketsTyped ==
  ASSUME TypeOK, Reducer, Next, at = "publish" => plan # NoPacket
  PROVE  PacketOK'
<1> USE DEF PacketOK
<1>1. PacketOK
  BY DEF TypeOK
<1>2. CASE LoadIdentity \/ LoadTerminal \/ EntryRecheck \/ ReviewSync \/ ReviewIdentified \/ Reported \/ Passed \/ Waived \/ FixRecorded
  BY <1>1, <1>2, Filed DEF Marked, Written, Plain
<1>3. CASE ReviewUnprepared \/ TurnInvalid \/ Park
  BY <1>1, <1>3, Filed, Parking DEF Marked, Created, Written, Plain
<1>4. CASE Publish \/ LoadPublication
  BY <1>1, <1>4 DEF Publish, LoadPublication, files
<1>5. CASE Repair
  <2>1. CASE Pending
    <3>1. packet \in PacketRow
      BY <2>1, PendingTyped
    <3>2. PICK q : q = [packet EXCEPT !.action = "resolved"]
      OBVIOUS
    <3>3. packet' = q /\ plan' = plan
      BY <1>5, <2>1, <3>2 DEF Repair
    <3>4. q \in PacketRow
      BY <3>1, <3>2, PacketAction DEF Actions
    <3> QED
      BY <1>1, <3>3, <3>4
  <2>2. CASE ~ Pending
    BY <1>1, <1>5, <2>2 DEF Repair
  <2> QED
    BY <2>1, <2>2
<1>6. CASE Plain
  BY <1>1, <1>6 DEF Plain
<1> QED
  BY <1>2, <1>3, <1>4, <1>5, <1>6, FilesKept, Zenon

(* A step keeps what earlier steps wrote about a review, with the exceptions named. *)
Lasting(k) ==
  /\ reviews'[k].src = reviews[k].src
  /\ reviews'[k].sent = reviews[k].sent \/ (FixSent /\ k = N /\ reviews'[k].sent = reviews[k].sent + 1)
  /\ (reviews'[k].paid <=> reviews[k].paid) \/ (FixIntended /\ k = N)
  /\ (reviews'[k].fix # "none" <=> reviews[k].fix # "none") \/ (FixIntended /\ k = N)
  /\ reviews'[k].cert = "issued" => reviews[k].cert = "issued" \/ (TurnPassed /\ k = N)

(* The Builder's answer gives the latest fix an outcome and keeps the rest. *)
LEMMA OutcomeLasting ==
  ASSUME TypeOK, Reducer, Sends, FixReported \/ FixStopped
  PROVE  N > 0 /\ N' = N /\ \A k \in 1 .. N : Lasting(k) /\ reviews'[k].status = reviews[k].status
         /\ reviews'[N].fix \in {"succeeded", "failed", "uncertain"}
<1>1. N > 0
  BY ReviewTyped DEF FixReported, FixStopped, Reducer, Place
<1>2. at = "building" /\ reviews[N].fix # "none"
  BY DEF FixReported, FixStopped, Sends, Place
<1>3. PICK fix \in {"succeeded", "failed", "uncertain"} :
              \/ reviews' = [reviews EXCEPT ![N].fix = fix]
              \/ reviews' = WithReports([reviews EXCEPT ![N].fix = fix], Unresolved, "recheck")
  <2>1. CASE FixReported
    BY <2>1 DEF FixReported
  <2>2. CASE FixStopped
    <3>1. PICK end \in {[fix |-> "failed", stop |-> "input", head |-> "operator-menu"],
                         [fix |-> "failed", stop |-> "blocked", head |-> "operator-menu"],
                         [fix |-> "uncertain", stop |-> "blocked", head |-> "remediation-uncertain"]} :
               \/ reviews' = [reviews EXCEPT ![N].fix = end.fix]
               \/ reviews' = WithReports([reviews EXCEPT ![N].fix = end.fix], Unresolved, "recheck")
      BY <2>2, Zenon DEF FixStopped
    <3>2. end.fix \in {"succeeded", "failed", "uncertain"}
      OBVIOUS
    <3> QED
      BY <3>1, <3>2, Zenon
  <2> QED
    BY <2>1, <2>2
<1>4. fix \in Fixes
  BY DEF Fixes
<1>5. /\ N' = N
      /\ \A k \in 1 .. N : /\ RowKept(reviews[k], reviews'[k]) /\ reviews'[k].status = reviews[k].status
                           /\ k # N => reviews'[k].fix = reviews[k].fix
      /\ reviews'[N].fix = fix
  BY <1>1, <1>3, <1>4, OutcomeRows, FixRows
<1> QED
  BY <1>1, <1>2, <1>5 DEF RowKept, Lasting

(* What earlier steps wrote about a review stays, but for the exceptions    *)
(* Lasting names.                                                           *)
LEMMA RowsLast ==
  ASSUME TypeOK, Reducer, Sends, Next
  PROVE  \A k \in 1 .. N : Lasting(k)
<1> SUFFICES ASSUME NEW k \in 1 .. N PROVE Lasting(k)
  OBVIOUS
<1> USE DEF Lasting, RowKept
<1>0. reviews \in Seq(Row) /\ N = Len(reviews)
  BY DEF TypeOK, N
<1>1. CASE Leave \/ TurnDrifted \/ Again
  BY <1>0, <1>1, InterruptedRows DEF Leave, TurnDrifted, Again
<1>2. CASE GuidanceIntended \/ Repair
  BY <1>0, <1>2, UncertifiedRows DEF GuidanceIntended, Repair
<1>3. CASE Decided
  <2>1. reviews' = reviews \/ reviews' = WithReports(reviews, Unresolved, "waived")
    BY <1>3 DEF Decided
  <2> QED
    BY <1>0, <2>1, ReportedRows DEF Reports
<1>4. CASE FixReported \/ FixStopped
  BY <1>4, OutcomeLasting
<1>5. CASE EntrySettle \/ ReviewAllocated
  BY <1>5, SettledRows, AllocatedRows
<1>6. CASE TurnPassed
  BY <1>6, PassedRows
<1>7. CASE TurnFailed \/ FixDrifted
  BY <1>7, FailedRows, DriftedRows DEF Others
<1>8. CASE FixIntended
  BY <1>8, IntendedRows DEF Others
<1>9. CASE FixSent
  BY <1>9, SentRows DEF Others
<1>10. CASE FinalizationBegun
  BY <1>10, BegunRows
<1>11. CASE reviews' = reviews
  BY <1>11
<1> QED
  BY <1>1, <1>2, <1>3, <1>4, <1>5, <1>6, <1>7, <1>8, <1>9, <1>10, <1>11, Kinds, Zenon DEF Writing

(* The host comes to the Builder in two steps.                              *)
LEMMA PlaceSend ==
  ASSUME TypeOK, Next
  PROVE  Place' \in {"send", "building"} => FixIntended \/ FixSent \/ (Place' = Place /\ reviews' = reviews)
<1> USE DEF Place, Go, Mark, Revise, Create, EnsurePacket, memory, database
<1>1. CASE Edit \/ Answer \/ Ask \/ Guide
  BY <1>1 DEF Edit, Answer, Ask, Guide
<1>2. CASE Crash \/ Leave
  BY <1>2 DEF Crash, Leave, Halt
<1>3. CASE Start \/ Publish
  BY <1>3 DEF Start, Publish
<1>4. CASE LoadPublication \/ LoadIdentity \/ LoadTerminal \/ Loaded
  BY <1>4 DEF LoadPublication, LoadIdentity, LoadTerminal, Loaded, Halt
<1>5. CASE EntryStopped \/ EntryUncertain \/ EntryMenu \/ EntryUnsent
  BY <1>5 DEF EntryStopped, EntryUncertain, EntryMenu, EntryUnsent, Stopped
<1>6. CASE EntryRecheck \/ EntrySettle
  BY <1>6 DEF EntryRecheck, EntrySettle, Stopped, Confirmed
<1>7. CASE EntryControls \/ Failed
  BY <1>7 DEF EntryControls, Failed, ConsumeControls, Eligible, Askable
<1>8. CASE EntryRestore
  BY <1>8 DEF EntryRestore, Restorable
<1>9. CASE GuidanceRefused \/ GuidanceIntended \/ GuidanceFollowed
  BY <1>9 DEF GuidanceRefused, GuidanceIntended, GuidanceFollowed, Allowed
<1>10. CASE ReviewUnprepared \/ ReviewPrepared
  BY <1>10 DEF ReviewUnprepared, ReviewPrepared
<1>11. CASE ReviewSync \/ ReviewIdentified \/ ReviewRejected \/ ReviewAccepted
  BY <1>11 DEF ReviewSync, ReviewIdentified, ReviewRejected, ReviewAccepted, InStep
<1>12. CASE ReviewAllocated
  BY <1>12 DEF ReviewAllocated, InStep
<1>13. CASE TurnIntended \/ Acknowledged \/ TurnUnknown \/ TurnUnresolved \/ TurnModified
  BY <1>13 DEF TurnIntended, Acknowledged, TurnUnknown, TurnUnresolved, TurnModified
<1>14. CASE TurnInvalid \/ TurnRefused \/ Reported \/ Passed \/ Retry
  BY <1>14 DEF TurnInvalid, TurnRefused, Reported, Passed, Retry, Create
<1>15. CASE TurnDrifted \/ Again
  BY <1>15 DEF TurnDrifted, Again, Drifted
<1>16. CASE TurnPassed \/ TurnFailed
  BY <1>16 DEF TurnPassed, TurnFailed, Drifted
<1>17. CASE Pause \/ Park
  BY <1>17 DEF Pause, Park, Create, EnsurePacket
<1>18. CASE FixAllowed \/ Decide \/ Decided \/ Waived
  BY <1>18 DEF FixAllowed, Decide, Decided, Waived, Allowed
<1>19. CASE FixDrifted \/ FixUndelivered \/ FixBound
  BY <1>19 DEF FixDrifted, FixUndelivered, FixBound
<1>20. CASE FixIntended \/ FixSent
  BY <1>20 DEF FixIntended, FixSent
<1>21. CASE FixReported \/ FixRecorded
  BY <1>21 DEF FixReported, FixRecorded
<1>22. CASE FixStopped
  BY <1>22 DEF FixStopped
<1>23. CASE FinalizationBegun \/ FinalizationVerified \/ FinalizationCompleted
  BY <1>23 DEF FinalizationBegun, FinalizationVerified, FinalizationCompleted
<1>24. CASE Repair
  BY <1>24 DEF Repair
<1> QED
  BY <1>1, <1>2, <1>3, <1>4, <1>5, <1>6, <1>7, <1>8, <1>9, <1>10, <1>11, <1>12, <1>13, <1>14, <1>15,
     <1>16, <1>17, <1>18, <1>19, <1>20, <1>21, <1>22, <1>23, <1>24, Zenon DEF Next, Load, Entry, Review,
     Turn, Fix, Finish, Around

(* Sends is kept: a fix is sent from "send" only, where none was sent.      *)
LEMMA SendsKept ==
  ASSUME TypeOK, Reducer, Latests, Sends, Next
  PROVE  Sends'
<1>0. /\ N \in Nat /\ (N' = N \/ (ReviewAllocated /\ N' = N + 1))
      /\ \A k \in 1 .. N : Lasting(k) /\ reviews[k] \in Row /\ reviews[k].sent \in Nat
  BY RowsTyped, RowsLast, ReviewTyped DEF Row
<1>1. \A k \in 1 .. N : reviews'[k].sent <= 1 /\ (reviews'[k].sent = 1 => reviews'[k].fix # "none")
  <2> SUFFICES ASSUME NEW k \in 1 .. N
               PROVE  reviews'[k].sent <= 1 /\ (reviews'[k].sent = 1 => reviews'[k].fix # "none")
    OBVIOUS
  <2>1. Lasting(k) /\ reviews[k].sent \in Nat
    BY <1>0
  <2>2. reviews[k].sent <= 1 /\ (reviews[k].sent = 1 => reviews[k].fix # "none")
    BY DEF Sends
  <2>3. CASE FixIntended
    BY <2>1, <2>2, <2>3, IntendedRows DEF Lasting, Others
  <2>4. CASE FixSent
    <3>1. reviews[N].sent = 0 /\ reviews[N].fix # "none"
      BY <2>4 DEF FixSent, Sends, Place
    <3> QED
      BY <2>1, <2>2, <2>4, <3>1, SentRows DEF Lasting, Others
  <2>5. CASE ~ FixIntended /\ ~ FixSent
    BY <2>1, <2>2, <2>5 DEF Lasting
  <2> QED
    BY <2>3, <2>4, <2>5
<1>2. \A k \in 1 .. N' : reviews'[k].sent <= 1 /\ (reviews'[k].sent = 1 => reviews'[k].fix # "none")
  <2>1. CASE ReviewAllocated
    <3>1. N' = N + 1 /\ reviews'[N + 1].sent = 0
      BY <2>1, AllocatedRows DEF Attempt
    <3> QED
      BY <1>0, <1>1, <3>1
  <2>2. CASE ~ ReviewAllocated
    BY <1>0, <1>1, <2>2
  <2> QED
    BY <2>1, <2>2
<1>3. CASE FixIntended
  <2>1. at = "intend" /\ N > 0 /\ N' = N /\ Place' = "send"
    BY <1>3, IntendedRows DEF FixIntended, Place, Go
  <2>2. reviews[N].fix = "none" /\ reviews[N] \in Row
    BY <2>1, ReviewTyped DEF Reducer, Latests, Place, Fixing
  <2>3. reviews[N].sent = 0
    BY <1>0, <2>1, <2>2 DEF Sends
  <2> QED
    BY <1>2, <1>3, <2>1, <2>3, IntendedRows DEF Sends
<1>4. CASE FixSent
  <2>1. at = "send" /\ N > 0 /\ N' = N /\ Place' = "building"
    BY <1>4, SentRows DEF FixSent, Place, Go
  <2> QED
    BY <1>2, <1>4, <2>1, SentRows DEF Sends, Place
<1>5. CASE ~ FixIntended /\ ~ FixSent
  <2>1. Place' \in {"send", "building"} => Place' = Place /\ reviews' = reviews
    BY <1>5, PlaceSend
  <2> QED
    BY <1>2, <2>1 DEF Sends, N
<1> QED
  BY <1>3, <1>4, <1>5

(* The latest review over each step that writes rows.                       *)
LatestRow ==
  /\ Leave \/ TurnDrifted \/ Again =>
       /\ reviews'[N].fix = reviews[N].fix /\ reviews'[N].report = reviews[N].report
       /\ reviews'[N].cert = reviews[N].cert
       /\ reviews'[N].status = IF reviews[N].status = "started" THEN "interrupted" ELSE reviews[N].status
  /\ EntrySettle =>
       /\ reviews'[N].fix = IF reviews[N].fix = "started" THEN "uncertain" ELSE reviews[N].fix
       /\ reviews'[N].report = reviews[N].report /\ reviews'[N].cert = reviews[N].cert
       /\ reviews'[N].status = IF reviews[N].status = "started" THEN "interrupted" ELSE reviews[N].status
  /\ GuidanceIntended \/ Repair =>
       /\ reviews'[N].fix = reviews[N].fix /\ reviews'[N].report = reviews[N].report
       /\ reviews'[N].status = reviews[N].status
       /\ reviews'[N].cert = IF reviews[N].cert = "issued" THEN "invalid" ELSE reviews[N].cert
  /\ Decided => /\ reviews'[N].fix = reviews[N].fix /\ reviews'[N].status = reviews[N].status
                /\ reviews'[N].cert = reviews[N].cert
                /\ reviews' = reviews \/ head' = "waived"
  /\ FixReported \/ FixStopped => reviews'[N].status = reviews[N].status /\ reviews'[N].fix # "none"
  /\ TurnPassed => reviews'[N].status = "passed" /\ reviews'[N].cert = "issued"
  /\ TurnFailed => /\ reviews'[N].status = "failed" /\ reviews'[N].report = "open"
                   /\ reviews'[N].fix = reviews[N].fix
  /\ FixDrifted \/ FixIntended \/ FixSent => reviews'[N].status = reviews[N].status
  /\ FixDrifted => reviews'[N].fix = reviews[N].fix
  /\ FixIntended \/ FixSent => reviews'[N].fix # "none"
  /\ FinalizationBegun =>
       \/ tree = reviews[N].src /\ head' = "finalizing" /\ reviews'[N].cert = "consumed"
       \/ head' = "operator-menu"

(* The latest review over each step that writes rows.                       *)
LEMMA LatestRows ==
  ASSUME TypeOK, Reducer, Sends, Next, N > 0
  PROVE  LatestRow
<1>0. reviews \in Seq(Row) /\ N \in 1 .. Len(reviews)
  BY ReviewTyped DEF TypeOK, N
<1>1. ASSUME Leave \/ TurnDrifted \/ Again
      PROVE  /\ reviews'[N].fix = reviews[N].fix /\ reviews'[N].report = reviews[N].report
             /\ reviews'[N].cert = reviews[N].cert
             /\ reviews'[N].status = IF reviews[N].status = "started" THEN "interrupted" ELSE reviews[N].status
  BY <1>0, <1>1, InterruptedRows DEF Leave, TurnDrifted, Again, RowKept
<1>2. ASSUME EntrySettle
      PROVE  /\ reviews'[N].fix = IF reviews[N].fix = "started" THEN "uncertain" ELSE reviews[N].fix
             /\ reviews'[N].report = reviews[N].report /\ reviews'[N].cert = reviews[N].cert
             /\ reviews'[N].status = IF reviews[N].status = "started" THEN "interrupted" ELSE reviews[N].status
  BY <1>2, SettledRows, ReviewTyped DEF RowKept
<1>3. ASSUME GuidanceIntended \/ Repair
      PROVE  /\ reviews'[N].fix = reviews[N].fix /\ reviews'[N].report = reviews[N].report
             /\ reviews'[N].status = reviews[N].status
             /\ reviews'[N].cert = IF reviews[N].cert = "issued" THEN "invalid" ELSE reviews[N].cert
  BY <1>0, <1>3, UncertifiedRows DEF GuidanceIntended, Repair
<1>4. ASSUME Decided
      PROVE  /\ reviews'[N].fix = reviews[N].fix /\ reviews'[N].status = reviews[N].status
             /\ reviews'[N].cert = reviews[N].cert
             /\ reviews' = reviews \/ head' = "waived"
  <2>1. reviews' = reviews \/ (head' = "waived" /\ reviews' = WithReports(reviews, Unresolved, "waived"))
    BY <1>4 DEF Decided
  <2>2. ASSUME NEW w, w = WithReports(reviews, Unresolved, "waived")
        PROVE  w[N].fix = reviews[N].fix /\ w[N].status = reviews[N].status /\ w[N].cert = reviews[N].cert
    BY <1>0, <2>2, ReportedRows DEF RowKept, Reports
  <2> QED
    BY <2>1, <2>2
<1>5. FixReported \/ FixStopped => reviews'[N].status = reviews[N].status /\ reviews'[N].fix # "none"
  BY OutcomeLasting, ReviewTyped
<1>6. TurnPassed => reviews'[N].status = "passed" /\ reviews'[N].cert = "issued"
  BY PassedRows
<1>7. TurnFailed => /\ reviews'[N].status = "failed" /\ reviews'[N].report = "open"
                    /\ reviews'[N].fix = reviews[N].fix
  BY FailedRows
<1>8. FixDrifted => reviews'[N].status = reviews[N].status /\ reviews'[N].fix = reviews[N].fix
  BY DriftedRows
<1>9. FixIntended => reviews'[N].status = reviews[N].status /\ reviews'[N].fix # "none"
  BY IntendedRows
<1>10. FixSent => reviews'[N].status = reviews[N].status /\ reviews'[N].fix # "none"
  BY SentRows DEF FixSent, Sends, Place
<1>11. FinalizationBegun => \/ tree = reviews[N].src /\ head' = "finalizing" /\ reviews'[N].cert = "consumed"
                            \/ head' = "operator-menu"
  BY BegunRows
<1> QED
  BY <1>1, <1>2, <1>3, <1>4, <1>5, <1>6, <1>7, <1>8, <1>9, <1>10, <1>11, Zenon DEF LatestRow

(* What a step does to the number of reviews and to the latest of them.     *)
LEMMA Stepping ==
  ASSUME TypeOK, Reducer, Sends, Next
  PROVE  /\ N \in Nat /\ (at # "sync" \/ reviews' = reviews => N' = N)
         /\ (N' = N \/ (ReviewAllocated /\ N' = N + 1))
         /\ (N > 0 => LatestRow /\ reviews'[N].src = reviews[N].src)
         /\ (ReviewAllocated => /\ N' = N + 1 /\ reviews'[N + 1].status = "started"
                                /\ reviews'[N + 1].fix = "none" /\ reviews'[N + 1].src = snap)
<1>1. N \in Nat /\ (N' = N \/ (ReviewAllocated /\ N' = N + 1))
  BY RowsTyped, ReviewTyped
<1>2. at # "sync" \/ reviews' = reviews => N' = N
  BY <1>1 DEF N, ReviewAllocated
<1>3. N > 0 => LatestRow /\ reviews'[N].src = reviews[N].src
  BY <1>1, RowsLast, LatestRows DEF Lasting
<1>4. ReviewAllocated => /\ N' = N + 1 /\ reviews'[N + 1].status = "started" /\ reviews'[N + 1].fix = "none"
                          /\ reviews'[N + 1].src = snap
  BY AllocatedRows DEF Attempt
<1> QED
  BY <1>1, <1>2, <1>3, <1>4

(* What the reducer's state says of the latest review is kept.              *)
LEMMA LatestsKept ==
  ASSUME TypeOK, Reducer, Latests, Sends, Next
  PROVE  Latests'
<1> USE DEF Latests, Reducer, Place, Fixing, Entering, Turning, Terminal, Unresolved, LatestRow, Go,
            Mark, Revise, memory, database
<1>0. /\ N \in Nat /\ (at # "sync" \/ reviews' = reviews => N' = N)
      /\ (N' = N \/ (ReviewAllocated /\ N' = N + 1))
      /\ (N > 0 => LatestRow /\ reviews'[N].src = reviews[N].src)
      /\ (ReviewAllocated => /\ N' = N + 1 /\ reviews'[N + 1].status = "started"
                             /\ reviews'[N + 1].fix = "none" /\ reviews'[N + 1].src = snap)
  BY Stepping
<1>1. CASE Edit \/ Answer \/ Ask \/ Guide
  BY <1>1, <1>0 DEF Edit, Answer, Ask, Guide
<1>2. CASE Crash \/ Leave
  <2>1. CASE Crash
    BY <1>2, <2>1, <1>0 DEF Crash, Halt
  <2>2. CASE Leave
    <3>1. at = "leave" /\ at' = "off" /\ head' = head
      BY <2>2 DEF Leave, Halt
    <3>2. N' = N /\ (N > 0 => LatestRow)
      BY <1>0, <3>1
    <3> QED
      BY <1>0, <2>2, <3>1, <3>2
  <2> QED
    BY <1>2, <2>1, <2>2
<1>3. CASE Start \/ Publish
  BY <1>3, <1>0 DEF Start, Publish
<1>4. CASE LoadPublication \/ LoadIdentity \/ LoadTerminal \/ Loaded
  BY <1>4, <1>0 DEF LoadPublication, LoadIdentity, LoadTerminal, Loaded, Halt
<1>5. CASE EntryStopped \/ EntryUncertain \/ EntryMenu \/ EntryUnsent
  BY <1>5, <1>0 DEF EntryStopped, EntryUncertain, EntryMenu, EntryUnsent, Stopped
<1>6. CASE EntryRecheck \/ EntrySettle
  BY <1>6, <1>0 DEF EntryRecheck, EntrySettle, Stopped, Confirmed
<1>7. CASE EntryControls \/ Failed
  BY <1>7, <1>0 DEF EntryControls, Failed, ConsumeControls, Eligible, Askable
<1>8. CASE EntryRestore
  BY <1>8, <1>0 DEF EntryRestore, Restorable
<1>9. CASE GuidanceRefused \/ GuidanceIntended \/ GuidanceFollowed
  BY <1>9, <1>0 DEF GuidanceRefused, GuidanceIntended, GuidanceFollowed, Allowed
<1>10. CASE ReviewUnprepared \/ ReviewPrepared
  BY <1>10, <1>0 DEF ReviewUnprepared, ReviewPrepared
<1>11. CASE ReviewSync \/ ReviewIdentified \/ ReviewRejected \/ ReviewAccepted
  BY <1>11, <1>0 DEF ReviewSync, ReviewIdentified, ReviewRejected, ReviewAccepted, InStep
<1>12. CASE ReviewAllocated
  <2>1. Place' = "identity" /\ head' = "review-ready" /\ snap' = snap
    BY <1>12 DEF ReviewAllocated
  <2> QED
    BY <1>0, <1>12, <2>1
<1>13. CASE TurnIntended \/ Acknowledged \/ TurnUnknown \/ TurnUnresolved \/ TurnModified
  BY <1>13, <1>0 DEF TurnIntended, Acknowledged, TurnUnknown, TurnUnresolved, TurnModified
<1>14. CASE TurnInvalid \/ TurnRefused \/ Reported \/ Passed \/ Retry
  BY <1>14, <1>0 DEF TurnInvalid, TurnRefused, Reported, Passed, Retry, Create
<1>15. CASE TurnDrifted \/ Again
  BY <1>15, <1>0 DEF TurnDrifted, Again, Drifted
<1>16. CASE TurnPassed \/ TurnFailed
  BY <1>16, <1>0 DEF TurnPassed, TurnFailed, Drifted
<1>17. CASE Pause \/ Park
  BY <1>17, <1>0 DEF Pause, Park, Create, EnsurePacket
<1>18. CASE FixAllowed \/ Decide \/ Decided \/ Waived
  BY <1>18, <1>0 DEF FixAllowed, Decide, Decided, Waived, Allowed
<1>19. CASE FixDrifted \/ FixUndelivered \/ FixBound
  BY <1>19, <1>0 DEF FixDrifted, FixUndelivered, FixBound
<1>20. CASE FixIntended \/ FixSent
  BY <1>20, <1>0 DEF FixIntended, FixSent
<1>21. CASE FixReported \/ FixRecorded
  BY <1>21, <1>0 DEF FixReported, FixRecorded
<1>22. CASE FixStopped
  BY <1>22, <1>0 DEF FixStopped
<1>23. CASE FinalizationBegun \/ FinalizationVerified \/ FinalizationCompleted
  BY <1>23, <1>0 DEF FinalizationBegun, FinalizationVerified, FinalizationCompleted
<1>24. CASE Repair
  BY <1>24, <1>0 DEF Repair
<1> QED
  BY <1>1, <1>2, <1>3, <1>4, <1>5, <1>6, <1>7, <1>8, <1>9, <1>10, <1>11, <1>12, <1>13, <1>14, <1>15,
     <1>16, <1>17, <1>18, <1>19, <1>20, <1>21, <1>22, <1>23, <1>24, Zenon DEF Next, Load, Entry, Review,
     Turn, Fix, Finish, Around

(* A pass ends in a step that takes its certificate along.                  *)
LEMMA PassLeft ==
  ASSUME TypeOK, Reducer, Next
  PROVE  head = "passed" /\ head' # "passed" => GuidanceIntended \/ ReviewAllocated \/ FinalizationBegun \/ Repair
<1> USE DEF Reducer, Place, Fixing, Entering, Terminal, Go, Mark, Revise, Create, memory, database
<1>1. CASE Edit \/ Answer \/ Ask \/ Guide
  BY <1>1 DEF Edit, Answer, Ask, Guide
<1>2. CASE Crash \/ Leave
  BY <1>2 DEF Crash, Leave, Halt
<1>3. CASE Start \/ Publish
  BY <1>3 DEF Start, Publish
<1>4. CASE LoadPublication \/ LoadIdentity \/ LoadTerminal \/ Loaded
  BY <1>4 DEF LoadPublication, LoadIdentity, LoadTerminal, Loaded, Halt
<1>5. CASE EntryStopped \/ EntryUncertain \/ EntryMenu \/ EntryUnsent
  BY <1>5 DEF EntryStopped, EntryUncertain, EntryMenu, EntryUnsent, Stopped
<1>6. CASE EntryRecheck \/ EntrySettle
  BY <1>6 DEF EntryRecheck, EntrySettle, Stopped, Confirmed
<1>7. CASE EntryControls \/ Failed
  BY <1>7 DEF EntryControls, Failed, ConsumeControls, Eligible, Askable
<1>8. CASE EntryRestore
  BY <1>8 DEF EntryRestore, Restorable
<1>9. CASE GuidanceRefused \/ GuidanceIntended \/ GuidanceFollowed
  BY <1>9 DEF GuidanceRefused, GuidanceIntended, GuidanceFollowed, Allowed
<1>10. CASE ReviewUnprepared \/ ReviewPrepared
  BY <1>10 DEF ReviewUnprepared, ReviewPrepared
<1>11. CASE ReviewSync \/ ReviewIdentified \/ ReviewRejected \/ ReviewAccepted
  BY <1>11 DEF ReviewSync, ReviewIdentified, ReviewRejected, ReviewAccepted, InStep
<1>12. CASE ReviewAllocated
  BY <1>12 DEF ReviewAllocated, InStep
<1>13. CASE TurnIntended \/ Acknowledged \/ TurnUnknown \/ TurnUnresolved \/ TurnModified
  BY <1>13 DEF TurnIntended, Acknowledged, TurnUnknown, TurnUnresolved, TurnModified
<1>14. CASE TurnInvalid \/ TurnRefused \/ Reported \/ Passed \/ Retry
  BY <1>14 DEF TurnInvalid, TurnRefused, Reported, Passed, Retry, Create
<1>15. CASE TurnDrifted \/ Again
  BY <1>15 DEF TurnDrifted, Again, Drifted
<1>16. CASE TurnPassed \/ TurnFailed
  BY <1>16 DEF TurnPassed, TurnFailed, Drifted
<1>17. CASE Pause \/ Park
  BY <1>17 DEF Pause, Park, Create, EnsurePacket
<1>18. CASE FixAllowed \/ Decide \/ Decided \/ Waived
  BY <1>18 DEF FixAllowed, Decide, Decided, Waived, Allowed
<1>19. CASE FixDrifted \/ FixUndelivered \/ FixBound
  BY <1>19 DEF FixDrifted, FixUndelivered, FixBound
<1>20. CASE FixIntended \/ FixSent
  BY <1>20 DEF FixIntended, FixSent
<1>21. CASE FixReported \/ FixRecorded
  BY <1>21 DEF FixReported, FixRecorded
<1>22. CASE FixStopped
  BY <1>22 DEF FixStopped
<1>23. CASE FinalizationBegun \/ FinalizationVerified \/ FinalizationCompleted
  BY <1>23 DEF FinalizationBegun, FinalizationVerified, FinalizationCompleted
<1>24. CASE Repair
  BY <1>24 DEF Repair
<1> QED
  BY <1>1, <1>2, <1>3, <1>4, <1>5, <1>6, <1>7, <1>8, <1>9, <1>10, <1>11, <1>12, <1>13, <1>14, <1>15,
     <1>16, <1>17, <1>18, <1>19, <1>20, <1>21, <1>22, <1>23, <1>24, Zenon DEF Next, Load, Entry, Review,
     Turn, Fix, Finish, Around

(* A certificate stands only for the latest review of a passed ticket.      *)
LEMMA IssuedKept ==
  ASSUME TypeOK, Reducer, Latests, Sends, Issued, Next
  PROVE  Issued'
<1>0. /\ N \in Nat /\ (N' = N \/ (ReviewAllocated /\ N' = N + 1)) /\ \A k \in 1 .. N : Lasting(k)
  BY Stepping, RowsLast
<1>1. CASE ReviewAllocated
  <2>1. /\ N' = N + 1 /\ reviews'[N + 1].cert = "none"
        /\ \A k \in 1 .. N : reviews'[k].cert # "issued"
    BY <1>1, AllocatedRows DEF Attempt
  <2> QED
    BY <1>0, <2>1 DEF Issued
<1>2. CASE GuidanceIntended \/ Repair
  <2>1. reviews' = Uncertified(reviews) /\ reviews \in Seq(Row) /\ N = Len(reviews)
    BY <1>2 DEF GuidanceIntended, Repair, TypeOK, N
  <2>2. N' = N /\ \A k \in 1 .. N : reviews'[k].cert # "issued"
    BY <2>1, UncertifiedRows DEF N
  <2> QED
    BY <2>2 DEF Issued
<1>3. CASE FinalizationBegun
  <2>1. at = "deliver" /\ N' = N
    BY <1>3, BegunRows DEF FinalizationBegun
  <2>2. ASSUME NEW k \in 1 .. N PROVE reviews'[k].cert # "issued"
    <3>1. k # N => reviews[k].cert # "issued"
      BY DEF Issued
    <3> QED
      BY <1>3, <3>1, BegunRows
  <2> QED
    BY <2>1, <2>2 DEF Issued
<1>4. CASE TurnPassed
  <2>1. head' = "passed" /\ N' = N /\ head # "passed"
    BY <1>4, PassedRows DEF TurnPassed, Reducer, Place
  <2>2. ASSUME NEW k \in 1 .. N, k # N PROVE reviews'[k].cert # "issued"
    BY <1>4, <2>2, PassedRows DEF Issued
  <2> QED
    BY <2>1, <2>2 DEF Issued
<1>5. CASE ~ (ReviewAllocated \/ GuidanceIntended \/ Repair \/ FinalizationBegun \/ TurnPassed)
  <2>1. N' = N /\ (head = "passed" => head' = "passed")
    BY <1>0, <1>5, PassLeft
  <2>2. ASSUME NEW k \in 1 .. N, reviews'[k].cert = "issued" PROVE reviews[k].cert = "issued"
    BY <1>0, <1>5, <2>2 DEF Lasting
  <2> QED
    BY <2>1, <2>2 DEF Issued
<1> QED
  BY <1>1, <1>2, <1>3, <1>4, <1>5

(* QA lets a ticket go by a pass, by a waiver, or had done so before.       *)
LEMMA LetGo ==
  ASSUME TypeOK, Reducer, Next
  PROVE  head' \in Terminal => TurnPassed \/ (Decided /\ reviews' = WithReports(reviews, Unresolved, "waived")) \/ head \in Terminal
<1> USE DEF Reducer, Place, Fixing, Entering, Terminal, Go, Mark, Revise, Create, memory, database
<1>1. CASE Edit \/ Answer \/ Ask \/ Guide
  BY <1>1 DEF Edit, Answer, Ask, Guide
<1>2. CASE Crash \/ Leave
  BY <1>2 DEF Crash, Leave, Halt
<1>3. CASE Start \/ Publish
  BY <1>3 DEF Start, Publish
<1>4. CASE LoadPublication \/ LoadIdentity \/ LoadTerminal \/ Loaded
  BY <1>4 DEF LoadPublication, LoadIdentity, LoadTerminal, Loaded, Halt
<1>5. CASE EntryStopped \/ EntryUncertain \/ EntryMenu \/ EntryUnsent
  BY <1>5 DEF EntryStopped, EntryUncertain, EntryMenu, EntryUnsent, Stopped
<1>6. CASE EntryRecheck \/ EntrySettle
  BY <1>6 DEF EntryRecheck, EntrySettle, Stopped, Confirmed
<1>7. CASE EntryControls \/ Failed
  BY <1>7 DEF EntryControls, Failed, ConsumeControls, Eligible, Askable
<1>8. CASE EntryRestore
  BY <1>8 DEF EntryRestore, Restorable
<1>9. CASE GuidanceRefused \/ GuidanceIntended \/ GuidanceFollowed
  BY <1>9 DEF GuidanceRefused, GuidanceIntended, GuidanceFollowed, Allowed
<1>10. CASE ReviewUnprepared \/ ReviewPrepared
  BY <1>10 DEF ReviewUnprepared, ReviewPrepared
<1>11. CASE ReviewSync \/ ReviewIdentified \/ ReviewRejected \/ ReviewAccepted
  BY <1>11 DEF ReviewSync, ReviewIdentified, ReviewRejected, ReviewAccepted, InStep
<1>12. CASE ReviewAllocated
  BY <1>12 DEF ReviewAllocated, InStep
<1>13. CASE TurnIntended \/ Acknowledged \/ TurnUnknown \/ TurnUnresolved \/ TurnModified
  BY <1>13 DEF TurnIntended, Acknowledged, TurnUnknown, TurnUnresolved, TurnModified
<1>14. CASE TurnInvalid \/ TurnRefused \/ Reported \/ Passed \/ Retry
  BY <1>14 DEF TurnInvalid, TurnRefused, Reported, Passed, Retry, Create
<1>15. CASE TurnDrifted \/ Again
  BY <1>15 DEF TurnDrifted, Again, Drifted
<1>16. CASE TurnPassed \/ TurnFailed
  BY <1>16 DEF TurnPassed, TurnFailed, Drifted
<1>17. CASE Pause \/ Park
  BY <1>17 DEF Pause, Park, Create, EnsurePacket
<1>18. CASE FixAllowed \/ Decide \/ Decided \/ Waived
  BY <1>18 DEF FixAllowed, Decide, Decided, Waived, Allowed
<1>19. CASE FixDrifted \/ FixUndelivered \/ FixBound
  BY <1>19 DEF FixDrifted, FixUndelivered, FixBound
<1>20. CASE FixIntended \/ FixSent
  BY <1>20 DEF FixIntended, FixSent
<1>21. CASE FixReported \/ FixRecorded
  BY <1>21 DEF FixReported, FixRecorded
<1>22. CASE FixStopped
  BY <1>22 DEF FixStopped
<1>23. CASE FinalizationBegun \/ FinalizationVerified \/ FinalizationCompleted
  BY <1>23 DEF FinalizationBegun, FinalizationVerified, FinalizationCompleted
<1>24. CASE Repair
  BY <1>24 DEF Repair
<1> QED
  BY <1>1, <1>2, <1>3, <1>4, <1>5, <1>6, <1>7, <1>8, <1>9, <1>10, <1>11, <1>12, <1>13, <1>14, <1>15,
     <1>16, <1>17, <1>18, <1>19, <1>20, <1>21, <1>22, <1>23, <1>24, Zenon DEF Next, Load, Entry, Review,
     Turn, Fix, Finish, Around

(* QA lets a ticket go with no report unresolved, and none comes back.      *)
LEMMA SettledKept ==
  ASSUME TypeOK, Reducer, Sends, Settled, Next
  PROVE  Settled'
<1> SUFFICES ASSUME head' \in Terminal PROVE Unsettled' = {}
  BY DEF Settled, Terminal
<1>0. reviews \in Seq(Row) /\ N = Len(reviews) /\ N \in Nat /\ (N' = N \/ (ReviewAllocated /\ N' = N + 1))
  BY Stepping DEF TypeOK, N
<1>1. N' = N /\ ~ (TurnFailed \/ FixReported \/ FixStopped \/ FixDrifted \/ FixIntended)
  BY <1>0 DEF TurnFailed, FixReported, FixStopped, FixDrifted, FixIntended, ReviewAllocated, Terminal
<1> SUFFICES ASSUME NEW k \in 1 .. N PROVE reviews'[k].report \notin Unresolved
  BY <1>1 DEF Unsettled, Unresolved
<1>2. CASE TurnPassed
  BY <1>2, PassedRows
<1>3. CASE Decided /\ reviews' = WithReports(reviews, Unresolved, "waived")
  BY <1>0, <1>3, ReportedRows DEF Reports, Unresolved
<1>4. CASE head \in Terminal /\ ~ TurnPassed
  <2>1. reviews[k].report \notin Unresolved
    BY <1>4 DEF Settled, Unsettled
  <2>2. CASE Leave \/ TurnDrifted \/ Again
    BY <1>0, <2>1, <2>2, InterruptedRows DEF Leave, TurnDrifted, Again
  <2>3. CASE GuidanceIntended \/ Repair
    BY <1>0, <2>1, <2>3, UncertifiedRows DEF GuidanceIntended, Repair
  <2>4. CASE EntrySettle
    BY <2>1, <2>4, SettledRows
  <2>5. CASE FixSent
    BY <2>1, <2>5, SentRows DEF Others
  <2>6. CASE FinalizationBegun
    BY <2>1, <2>6, BegunRows
  <2>7. CASE Decided
    <3>1. reviews' = reviews \/ reviews' = WithReports(reviews, Unresolved, "waived")
      BY <2>7 DEF Decided
    <3> QED
      BY <1>0, <2>1, <3>1, ReportedRows DEF Reports, Unresolved
  <2>8. CASE reviews' = reviews
    BY <2>1, <2>8
  <2>9. ~ ReviewAllocated
    BY DEF ReviewAllocated, Terminal
  <2> QED
    BY <1>1, <1>4, <2>2, <2>3, <2>4, <2>5, <2>6, <2>7, <2>8, <2>9, Kinds, Zenon DEF Writing
<1> QED
  BY <1>2, <1>3, <1>4, LetGo

(* An authorization of the running host is for the latest review.           *)
LEMMA SpendingKept ==
  ASSUME TypeOK, Reducer, Sends, Authorized, Next
  PROVE  /\ auth' # 0 => /\ auth' = N' /\ N' \in given'
                         /\ Place' \in Fixing \cup {"restore", "guidance", "pauseTree", "parkTree", "leave"}
         /\ auth' # 0 /\ Place' = "restore" => head' = "review-failed" \/ (head' = "passed" /\ waiting')
         /\ granted' # 0 => granted' \in given'
<1> USE DEF Authorized, Reducer, Place, Fixing, Entering, Terminal, Go, Mark, Revise, memory,
            database, people
<1>0. N \in Nat /\ auth \in Nat /\ granted \in Nat /\ (at # "sync" \/ reviews' = reviews => N' = N)
  BY Stepping DEF TypeOK, HostOK
<1>1. CASE Edit \/ Answer \/ Ask \/ Guide
  BY <1>1, <1>0 DEF Edit, Answer, Ask, Guide
<1>2. CASE Crash \/ Leave
  BY <1>2, <1>0 DEF Crash, Leave, Halt
<1>3. CASE Start \/ Publish
  BY <1>3, <1>0 DEF Start, Publish
<1>4. CASE LoadPublication \/ LoadIdentity \/ LoadTerminal \/ Loaded
  BY <1>4, <1>0 DEF LoadPublication, LoadIdentity, LoadTerminal, Loaded, Halt
<1>5. CASE EntryStopped \/ EntryUncertain \/ EntryMenu \/ EntryUnsent
  BY <1>5, <1>0 DEF EntryStopped, EntryUncertain, EntryMenu, EntryUnsent, Stopped
<1>6. CASE EntryRecheck \/ EntrySettle
  BY <1>6, <1>0 DEF EntryRecheck, EntrySettle, Stopped, Confirmed
<1>7. CASE EntryControls \/ Failed
  BY <1>7, <1>0 DEF EntryControls, Failed, ConsumeControls, Eligible, Askable
<1>8. CASE EntryRestore
  BY <1>8, <1>0 DEF EntryRestore, Restorable
<1>9. CASE GuidanceRefused \/ GuidanceIntended \/ GuidanceFollowed
  BY <1>9, <1>0 DEF GuidanceRefused, GuidanceIntended, GuidanceFollowed, Allowed
<1>10. CASE ReviewUnprepared \/ ReviewPrepared
  BY <1>10, <1>0 DEF ReviewUnprepared, ReviewPrepared
<1>11. CASE ReviewSync \/ ReviewIdentified \/ ReviewRejected \/ ReviewAccepted
  BY <1>11, <1>0 DEF ReviewSync, ReviewIdentified, ReviewRejected, ReviewAccepted, InStep
<1>12. CASE ReviewAllocated
  BY <1>12, <1>0 DEF ReviewAllocated, InStep
<1>13. CASE TurnIntended \/ Acknowledged \/ TurnUnknown \/ TurnUnresolved \/ TurnModified
  BY <1>13, <1>0 DEF TurnIntended, Acknowledged, TurnUnknown, TurnUnresolved, TurnModified
<1>14. CASE TurnInvalid \/ TurnRefused \/ Reported \/ Passed \/ Retry
  BY <1>14, <1>0 DEF TurnInvalid, TurnRefused, Reported, Passed, Retry, Create
<1>15. CASE TurnDrifted \/ Again
  BY <1>15, <1>0 DEF TurnDrifted, Again, Drifted
<1>16. CASE TurnPassed \/ TurnFailed
  BY <1>16, <1>0 DEF TurnPassed, TurnFailed, Drifted
<1>17. CASE Pause \/ Park
  BY <1>17, <1>0 DEF Pause, Park, Create, EnsurePacket
<1>18. CASE FixAllowed \/ Decide \/ Decided \/ Waived
  BY <1>18, <1>0 DEF FixAllowed, Decide, Decided, Waived, Allowed
<1>19. CASE FixDrifted \/ FixUndelivered \/ FixBound
  BY <1>19, <1>0 DEF FixDrifted, FixUndelivered, FixBound
<1>20. CASE FixIntended \/ FixSent
  BY <1>20, <1>0 DEF FixIntended, FixSent
<1>21. CASE FixReported \/ FixRecorded
  BY <1>21, <1>0 DEF FixReported, FixRecorded
<1>22. CASE FixStopped
  BY <1>22, <1>0 DEF FixStopped
<1>23. CASE FinalizationBegun \/ FinalizationVerified \/ FinalizationCompleted
  BY <1>23, <1>0 DEF FinalizationBegun, FinalizationVerified, FinalizationCompleted
<1>24. CASE Repair
  BY <1>24, <1>0 DEF Repair
<1> QED
  BY <1>1, <1>2, <1>3, <1>4, <1>5, <1>6, <1>7, <1>8, <1>9, <1>10, <1>11, <1>12, <1>13, <1>14, <1>15,
     <1>16, <1>17, <1>18, <1>19, <1>20, <1>21, <1>22, <1>23, <1>24, Zenon DEF Next, Load, Entry, Review,
     Turn, Fix, Finish, Around

(* Operators' authorizations are recorded in two kinds of steps.            *)
LEMMA Givens ==
  ASSUME Next
  PROVE  given' = given \/ EntryControls \/ Failed \/ Decided
<1> USE DEF people
<1>1. CASE Edit \/ Answer \/ Ask \/ Guide
  BY <1>1 DEF Edit, Answer, Ask, Guide
<1>2. CASE Crash \/ Leave
  BY <1>2 DEF Crash, Leave, Halt
<1>3. CASE Start \/ Publish
  BY <1>3 DEF Start, Publish
<1>4. CASE LoadPublication \/ LoadIdentity \/ LoadTerminal \/ Loaded
  BY <1>4 DEF LoadPublication, LoadIdentity, LoadTerminal, Loaded, Halt
<1>5. CASE EntryStopped \/ EntryUncertain \/ EntryMenu \/ EntryUnsent
  BY <1>5 DEF EntryStopped, EntryUncertain, EntryMenu, EntryUnsent, Stopped
<1>6. CASE EntryRecheck \/ EntrySettle
  BY <1>6 DEF EntryRecheck, EntrySettle, Stopped, Confirmed
<1>7. CASE EntryControls \/ Failed
  BY <1>7 DEF EntryControls, Failed, ConsumeControls, Eligible, Askable
<1>8. CASE EntryRestore
  BY <1>8 DEF EntryRestore, Restorable
<1>9. CASE GuidanceRefused \/ GuidanceIntended \/ GuidanceFollowed
  BY <1>9 DEF GuidanceRefused, GuidanceIntended, GuidanceFollowed, Allowed
<1>10. CASE ReviewUnprepared \/ ReviewPrepared
  BY <1>10 DEF ReviewUnprepared, ReviewPrepared
<1>11. CASE ReviewSync \/ ReviewIdentified \/ ReviewRejected \/ ReviewAccepted
  BY <1>11 DEF ReviewSync, ReviewIdentified, ReviewRejected, ReviewAccepted, InStep
<1>12. CASE ReviewAllocated
  BY <1>12 DEF ReviewAllocated, InStep
<1>13. CASE TurnIntended \/ Acknowledged \/ TurnUnknown \/ TurnUnresolved \/ TurnModified
  BY <1>13 DEF TurnIntended, Acknowledged, TurnUnknown, TurnUnresolved, TurnModified
<1>14. CASE TurnInvalid \/ TurnRefused \/ Reported \/ Passed \/ Retry
  BY <1>14 DEF TurnInvalid, TurnRefused, Reported, Passed, Retry, Create
<1>15. CASE TurnDrifted \/ Again
  BY <1>15 DEF TurnDrifted, Again, Drifted
<1>16. CASE TurnPassed \/ TurnFailed
  BY <1>16 DEF TurnPassed, TurnFailed, Drifted
<1>17. CASE Pause \/ Park
  BY <1>17 DEF Pause, Park, Create, EnsurePacket
<1>18. CASE FixAllowed \/ Decide \/ Decided \/ Waived
  BY <1>18 DEF FixAllowed, Decide, Decided, Waived, Allowed
<1>19. CASE FixDrifted \/ FixUndelivered \/ FixBound
  BY <1>19 DEF FixDrifted, FixUndelivered, FixBound
<1>20. CASE FixIntended \/ FixSent
  BY <1>20 DEF FixIntended, FixSent
<1>21. CASE FixReported \/ FixRecorded
  BY <1>21 DEF FixReported, FixRecorded
<1>22. CASE FixStopped
  BY <1>22 DEF FixStopped
<1>23. CASE FinalizationBegun \/ FinalizationVerified \/ FinalizationCompleted
  BY <1>23 DEF FinalizationBegun, FinalizationVerified, FinalizationCompleted
<1>24. CASE Repair
  BY <1>24 DEF Repair
<1> QED
  BY <1>1, <1>2, <1>3, <1>4, <1>5, <1>6, <1>7, <1>8, <1>9, <1>10, <1>11, <1>12, <1>13, <1>14, <1>15,
     <1>16, <1>17, <1>18, <1>19, <1>20, <1>21, <1>22, <1>23, <1>24, Zenon DEF Next, Load, Entry, Review,
     Turn, Fix, Finish, Around

(* An authorization held, granted or spent was given for its review.        *)
LEMMA AuthorizedKept ==
  ASSUME TypeOK, Reducer, Sends, Authorized, Next
  PROVE  Authorized'
<1>0. /\ N \in Nat /\ (N' = N \/ (ReviewAllocated /\ N' = N + 1)) /\ \A k \in 1 .. N : Lasting(k)
  BY Stepping, RowsLast
<1>1. ASSUME NEW x \in given PROVE x \in given'
  <2>1. CASE EntryControls \/ Failed
    BY <1>1, <2>1 DEF EntryControls, Failed, ConsumeControls
  <2>2. CASE Decided
    BY <1>1, <2>2 DEF Decided
  <2>3. given' = given \/ EntryControls \/ Failed \/ Decided
    BY Givens
  <2> QED
    BY <1>1, <2>1, <2>2, <2>3
<1>2. \A k \in 1 .. N : reviews'[k].paid => k \in given'
  <2> SUFFICES ASSUME NEW k \in 1 .. N, reviews'[k].paid PROVE k \in given'
    OBVIOUS
  <2>1. CASE reviews[k].paid
    BY <1>1, <2>1 DEF Authorized
  <2>2. CASE ~ reviews[k].paid
    <3>1. FixIntended /\ k = N
      BY <1>0, <2>2 DEF Lasting
    <3>2. auth # 0
      BY <3>1, IntendedRows
    <3> QED
      BY <1>1, <3>1, <3>2 DEF Authorized
  <2> QED
    BY <2>1, <2>2
<1>3. \A k \in 1 .. N' : reviews'[k].paid => k \in given'
  <2>1. CASE ReviewAllocated
    <3>1. N' = N + 1 /\ reviews'[N + 1].paid = FALSE
      BY <2>1, AllocatedRows DEF Attempt
    <3> QED
      BY <1>0, <1>2, <3>1
  <2>2. CASE N' = N
    BY <1>2, <2>2
  <2> QED
    BY <1>0, <2>1, <2>2
<1> QED
  BY <1>3, SpendingKept DEF Authorized

(* A stop is passed only by a resumed host, and ended before its next turn. *)
LEMMA StopsKept ==
  ASSUME TypeOK, Reducer, Latests, Sends, Stops, Next
  PROVE  Stops'
<1> USE DEF Stops, Latests, Reducer, LatestRow, Place, Fixing, Entering, Turning, Terminal, Go,
            Mark, Revise, memory, database
<1>31. EntryRecheck /\ ~ Confirmed => resumed'
  BY Zenon DEF EntryRecheck
<1>0. /\ N \in Nat /\ (at # "sync" \/ reviews' = reviews => N' = N)
      /\ (N > 0 => LatestRow)
      /\ (ReviewAllocated => N' = N + 1 /\ reviews'[N + 1].status = "started")
  BY Stepping
<1>1. CASE Edit \/ Answer \/ Ask \/ Guide
  BY <1>1, <1>0 DEF Edit, Answer, Ask, Guide
<1>2. CASE Crash \/ Leave
  BY <1>2, <1>0 DEF Crash, Leave, Halt
<1>3. CASE Start \/ Publish
  BY <1>3, <1>0 DEF Start, Publish
<1>4. CASE LoadPublication \/ LoadIdentity \/ LoadTerminal \/ Loaded
  BY <1>4, <1>0 DEF LoadPublication, LoadIdentity, LoadTerminal, Loaded, Halt
<1>5. CASE EntryStopped \/ EntryUncertain \/ EntryMenu \/ EntryUnsent
  BY <1>5, <1>0 DEF EntryStopped, EntryUncertain, EntryMenu, EntryUnsent, Stopped
<1>6. CASE EntryRecheck \/ EntrySettle
  BY <1>6, <1>0, <1>31 DEF EntryRecheck, EntrySettle, Stopped, Confirmed
<1>7. CASE EntryControls \/ Failed
  BY <1>7, <1>0 DEF EntryControls, Failed, ConsumeControls, Eligible, Askable
<1>8. CASE EntryRestore
  BY <1>8, <1>0 DEF EntryRestore, Restorable
<1>9. CASE GuidanceRefused \/ GuidanceIntended \/ GuidanceFollowed
  BY <1>9, <1>0 DEF GuidanceRefused, GuidanceIntended, GuidanceFollowed, Allowed
<1>10. CASE ReviewUnprepared \/ ReviewPrepared
  BY <1>10, <1>0 DEF ReviewUnprepared, ReviewPrepared
<1>11. CASE ReviewSync \/ ReviewIdentified \/ ReviewRejected \/ ReviewAccepted
  BY <1>11, <1>0 DEF ReviewSync, ReviewIdentified, ReviewRejected, ReviewAccepted, InStep
<1>12. CASE ReviewAllocated
  <2>1. /\ at = "sync" /\ Place' = "identity" /\ received' = FALSE /\ stop' = stop
        /\ (resumed' <=> resumed) /\ N' = N + 1 /\ reviews'[N + 1].status = "started"
    BY <1>12, <1>0 DEF ReviewAllocated
  <2> QED
    BY <1>0, <2>1
<1>13. CASE TurnIntended \/ Acknowledged \/ TurnUnknown \/ TurnUnresolved \/ TurnModified
  BY <1>13, <1>0 DEF TurnIntended, Acknowledged, TurnUnknown, TurnUnresolved, TurnModified
<1>14. CASE TurnInvalid \/ TurnRefused \/ Reported \/ Passed \/ Retry
  BY <1>14, <1>0 DEF TurnInvalid, TurnRefused, Reported, Passed, Retry, Create
<1>15. CASE TurnDrifted \/ Again
  BY <1>15, <1>0 DEF TurnDrifted, Again, Drifted
<1>16. CASE TurnPassed \/ TurnFailed
  BY <1>16, <1>0 DEF TurnPassed, TurnFailed, Drifted
<1>17. CASE Pause \/ Park
  BY <1>17, <1>0 DEF Pause, Park, Create, EnsurePacket
<1>18. CASE FixAllowed \/ Decide \/ Decided \/ Waived
  BY <1>18, <1>0 DEF FixAllowed, Decide, Decided, Waived, Allowed
<1>19. CASE FixDrifted \/ FixUndelivered \/ FixBound
  BY <1>19, <1>0 DEF FixDrifted, FixUndelivered, FixBound
<1>20. CASE FixIntended \/ FixSent
  BY <1>20, <1>0 DEF FixIntended, FixSent
<1>21. CASE FixReported \/ FixRecorded
  BY <1>21, <1>0 DEF FixReported, FixRecorded
<1>22. CASE FixStopped
  <2>1. at = "building" /\ Place' = "pauseTree" /\ received' = FALSE
    BY <1>22 DEF FixStopped
  <2>2. N > 0 /\ N' = N
    BY <1>22, OutcomeLasting
  <2>3. reviews'[N].status = "failed" /\ reviews'[N].fix # "none"
    BY <1>0, <1>22, <2>1, <2>2
  <2> QED
    BY <2>1, <2>2, <2>3
<1>23. CASE FinalizationBegun \/ FinalizationVerified \/ FinalizationCompleted
  BY <1>23, <1>0 DEF FinalizationBegun, FinalizationVerified, FinalizationCompleted
<1>24. CASE Repair
  BY <1>24, <1>0 DEF Repair
<1> QED
  BY <1>1, <1>2, <1>3, <1>4, <1>5, <1>6, <1>7, <1>8, <1>9, <1>10, <1>11, <1>12, <1>13, <1>14, <1>15,
     <1>16, <1>17, <1>18, <1>19, <1>20, <1>21, <1>22, <1>23, <1>24, Zenon DEF Next, Load, Entry, Review,
     Turn, Fix, Finish, Around

(* Only an intended guidance turn adds to their count.                      *)
LEMMA FollowupsKept ==
  ASSUME Next
  PROVE  followups' = followups \/ (GuidanceIntended /\ followups' = IF auth = 0 THEN followups + 1 ELSE followups)
<1> USE DEF people
<1>1. CASE Edit \/ Answer \/ Ask \/ Guide
  BY <1>1 DEF Edit, Answer, Ask, Guide
<1>2. CASE Crash \/ Leave
  BY <1>2 DEF Crash, Leave, Halt
<1>3. CASE Start \/ Publish
  BY <1>3 DEF Start, Publish
<1>4. CASE LoadPublication \/ LoadIdentity \/ LoadTerminal \/ Loaded
  BY <1>4 DEF LoadPublication, LoadIdentity, LoadTerminal, Loaded, Halt
<1>5. CASE EntryStopped \/ EntryUncertain \/ EntryMenu \/ EntryUnsent
  BY <1>5 DEF EntryStopped, EntryUncertain, EntryMenu, EntryUnsent, Stopped
<1>6. CASE EntryRecheck \/ EntrySettle
  BY <1>6 DEF EntryRecheck, EntrySettle, Stopped, Confirmed
<1>7. CASE EntryControls \/ Failed
  BY <1>7 DEF EntryControls, Failed, ConsumeControls, Eligible, Askable
<1>8. CASE EntryRestore
  BY <1>8 DEF EntryRestore, Restorable
<1>9. CASE GuidanceRefused \/ GuidanceIntended \/ GuidanceFollowed
  BY <1>9 DEF GuidanceRefused, GuidanceIntended, GuidanceFollowed, Allowed
<1>10. CASE ReviewUnprepared \/ ReviewPrepared
  BY <1>10 DEF ReviewUnprepared, ReviewPrepared
<1>11. CASE ReviewSync \/ ReviewIdentified \/ ReviewRejected \/ ReviewAccepted
  BY <1>11 DEF ReviewSync, ReviewIdentified, ReviewRejected, ReviewAccepted, InStep
<1>12. CASE ReviewAllocated
  BY <1>12 DEF ReviewAllocated, InStep
<1>13. CASE TurnIntended \/ Acknowledged \/ TurnUnknown \/ TurnUnresolved \/ TurnModified
  BY <1>13 DEF TurnIntended, Acknowledged, TurnUnknown, TurnUnresolved, TurnModified
<1>14. CASE TurnInvalid \/ TurnRefused \/ Reported \/ Passed \/ Retry
  BY <1>14 DEF TurnInvalid, TurnRefused, Reported, Passed, Retry, Create
<1>15. CASE TurnDrifted \/ Again
  BY <1>15 DEF TurnDrifted, Again, Drifted
<1>16. CASE TurnPassed \/ TurnFailed
  BY <1>16 DEF TurnPassed, TurnFailed, Drifted
<1>17. CASE Pause \/ Park
  BY <1>17 DEF Pause, Park, Create, EnsurePacket
<1>18. CASE FixAllowed \/ Decide \/ Decided \/ Waived
  BY <1>18 DEF FixAllowed, Decide, Decided, Waived, Allowed
<1>19. CASE FixDrifted \/ FixUndelivered \/ FixBound
  BY <1>19 DEF FixDrifted, FixUndelivered, FixBound
<1>20. CASE FixIntended \/ FixSent
  BY <1>20 DEF FixIntended, FixSent
<1>21. CASE FixReported \/ FixRecorded
  BY <1>21 DEF FixReported, FixRecorded
<1>22. CASE FixStopped
  BY <1>22 DEF FixStopped
<1>23. CASE FinalizationBegun \/ FinalizationVerified \/ FinalizationCompleted
  BY <1>23 DEF FinalizationBegun, FinalizationVerified, FinalizationCompleted
<1>24. CASE Repair
  BY <1>24 DEF Repair
<1> QED
  BY <1>1, <1>2, <1>3, <1>4, <1>5, <1>6, <1>7, <1>8, <1>9, <1>10, <1>11, <1>12, <1>13, <1>14, <1>15,
     <1>16, <1>17, <1>18, <1>19, <1>20, <1>21, <1>22, <1>23, <1>24, Zenon DEF Next, Load, Entry, Review,
     Turn, Fix, Finish, Around

(* The fixes that count: those without an authorization.                    *)
Unpaid == {k \in 1 .. N : reviews[k].fix # "none" /\ ~reviews[k].paid}

(* Only the intent of a fix without authorization adds to the fixes that    *)
(* count, and it adds the latest review's.                                  *)
LEMMA UnpaidKept ==
  ASSUME TypeOK, Reducer, Latests, Sends, Next
  PROVE  /\ ~ FixIntended => Unpaid' = Unpaid
         /\ FixIntended /\ auth # 0 => Unpaid' = Unpaid
         /\ FixIntended /\ auth = 0 => Unpaid' = Unpaid \cup {N} /\ N \notin Unpaid
<1>0. /\ N \in Nat /\ (N' = N \/ (ReviewAllocated /\ N' = N + 1)) /\ \A k \in 1 .. N : Lasting(k)
  BY Stepping, RowsLast
<1>1. CASE ReviewAllocated
  <2>1. /\ N' = N + 1 /\ reviews'[N + 1].fix = "none"
        /\ \A k \in 1 .. N : reviews'[k].fix = reviews[k].fix /\ reviews'[k].paid = reviews[k].paid
    BY <1>1, AllocatedRows DEF Attempt
  <2>2. ~ FixIntended
    BY <1>1 DEF ReviewAllocated, FixIntended
  <2> QED
    BY <1>0, <2>1, <2>2 DEF Unpaid
<1>2. CASE FixIntended
  <2>1. /\ N' = N /\ N > 0 /\ reviews'[N].fix = "started" /\ (reviews'[N].paid <=> auth # 0)
        /\ \A k \in 1 .. N : k # N => reviews'[k] = reviews[k]
    BY <1>2, IntendedRows DEF Others
  <2>2. reviews[N].fix = "none"
    BY <1>2 DEF FixIntended, Reducer, Latests, Place, Fixing
  <2>3. N \notin Unpaid
    BY <2>2 DEF Unpaid
  <2>4. CASE auth # 0
    BY <1>0, <1>2, <2>1, <2>3, <2>4 DEF Unpaid
  <2>5. CASE auth = 0
    BY <1>0, <1>2, <2>1, <2>3, <2>5 DEF Unpaid
  <2> QED
    BY <1>2, <2>3, <2>4, <2>5
<1>3. CASE ~ ReviewAllocated /\ ~ FixIntended
  BY <1>0, <1>3 DEF Unpaid, Lasting
<1> QED
  BY <1>1, <1>2, <1>3

(* The automatic count is that of the unpaid fixes and the guidance turns.  *)
LEMMA UnpaidFinite == TypeOK => IsFiniteSet(Unpaid) /\ Cardinality(Unpaid) \in Nat /\ AutoCount = Cardinality(Unpaid) + followups
<1> SUFFICES ASSUME TypeOK PROVE IsFiniteSet(Unpaid) /\ Cardinality(Unpaid) \in Nat /\ AutoCount = Cardinality(Unpaid) + followups
  OBVIOUS
<1>1. N \in Nat
  BY ReviewTyped
<1>2. IsFiniteSet(1 .. N) /\ Unpaid \subseteq 1 .. N
  BY <1>1, FS_Interval DEF Unpaid
<1>3. IsFiniteSet(Unpaid) /\ Cardinality(Unpaid) \in Nat
  BY <1>2, FS_Subset, FS_CardinalityType
<1> QED
  BY <1>3 DEF AutoCount, Unpaid

(* The automatic count grows by one, at an intent without authorization.    *)
LEMMA CountKept ==
  ASSUME TypeOK, Reducer, Latests, Sends, Next
  PROVE  AutoCount' = IF (FixIntended \/ GuidanceIntended) /\ auth = 0 THEN AutoCount + 1 ELSE AutoCount
<1>0. IsFiniteSet(Unpaid) /\ Cardinality(Unpaid) \in Nat /\ AutoCount = Cardinality(Unpaid) + followups /\ followups \in Nat
  BY UnpaidFinite DEF TypeOK, HostOK
<1>1. AutoCount' = Cardinality(Unpaid') + followups'
  BY DEF AutoCount, Unpaid
<1>2. ~ (FixIntended /\ GuidanceIntended)
  BY DEF FixIntended, GuidanceIntended
<1>3. FixIntended /\ auth = 0 => Cardinality(Unpaid') = Cardinality(Unpaid) + 1
  BY <1>0, UnpaidKept, FS_AddElement
<1>4. ~ (FixIntended /\ auth = 0) => Cardinality(Unpaid') = Cardinality(Unpaid)
  BY UnpaidKept
<1>5. followups' = IF GuidanceIntended /\ auth = 0 THEN followups + 1 ELSE followups
  BY FollowupsKept DEF GuidanceIntended
<1> HIDE DEF AutoCount
<1> QED
  BY <1>0, <1>1, <1>2, <1>3, <1>4, <1>5

(* The host's own count is at least the database's where it decides on a    *)
(* fix.                                                                     *)
LEMMA AccountsKept ==
  ASSUME TypeOK, Reducer, Latests, Sends, Accounts, Next
  PROVE  Accounts'
<1> USE DEF Accounts, Place, Counting, Fixing, Building, Go, Mark, Revise, memory, database, people
<1>31. (FixIntended => at = "intend") /\ (GuidanceIntended => at = "guidance")
  BY DEF FixIntended, GuidanceIntended
<1>32. AutoCount \in Nat /\ auth \in Nat /\ auto \in Nat /\ MaxFixes \in Nat
  BY CountTyped, QaAssumption DEF TypeOK, HostOK
<1>33. N \in Nat /\ (at # "sync" \/ reviews' = reviews => N' = N)
  BY Stepping
<1>34. reviews' = reviews /\ followups' = followups => AutoCount' = AutoCount
  BY DEF AutoCount, N
<1>35. at = "decide" => N > 0
  BY <1>33 DEF Reducer, Place, Fixing
<1>0. /\ N \in Nat /\ (at = "decide" => N > 0) /\ auth \in Nat /\ auto \in Nat /\ MaxFixes \in Nat
      /\ AutoCount \in Nat /\ (AutoCount' = AutoCount \/ AutoCount' = AutoCount + 1)
      /\ (auth # 0 => AutoCount' = AutoCount) /\ (at \notin {"intend", "guidance"} => AutoCount' = AutoCount)
      /\ (reviews' = reviews /\ followups' = followups => AutoCount' = AutoCount)
      /\ (at # "sync" \/ reviews' = reviews => N' = N)
  BY <1>31, <1>32, <1>33, <1>34, <1>35, CountKept
<1>1. CASE Edit \/ Answer \/ Ask \/ Guide
  BY <1>1, <1>0 DEF Edit, Answer, Ask, Guide
<1>2. CASE Crash \/ Leave
  BY <1>2, <1>0 DEF Crash, Leave, Halt
<1>3. CASE Start \/ Publish
  BY <1>3, <1>0 DEF Start, Publish
<1>4. CASE LoadPublication \/ LoadIdentity \/ LoadTerminal \/ Loaded
  BY <1>4, <1>0 DEF LoadPublication, LoadIdentity, LoadTerminal, Loaded, Halt
<1>5. CASE EntryStopped \/ EntryUncertain \/ EntryMenu \/ EntryUnsent
  BY <1>5, <1>0 DEF EntryStopped, EntryUncertain, EntryMenu, EntryUnsent, Stopped
<1>6. CASE EntryRecheck \/ EntrySettle
  BY <1>6, <1>0 DEF EntryRecheck, EntrySettle, Stopped, Confirmed
<1>7. CASE EntryControls \/ Failed
  BY <1>7, <1>0 DEF EntryControls, Failed, ConsumeControls, Eligible, Askable
<1>8. CASE EntryRestore
  BY <1>8, <1>0 DEF EntryRestore, Restorable
<1>9. CASE GuidanceRefused \/ GuidanceIntended \/ GuidanceFollowed
  BY <1>9, <1>0 DEF GuidanceRefused, GuidanceIntended, GuidanceFollowed, Allowed
<1>10. CASE ReviewUnprepared \/ ReviewPrepared
  BY <1>10, <1>0 DEF ReviewUnprepared, ReviewPrepared
<1>11. CASE ReviewSync \/ ReviewIdentified \/ ReviewRejected \/ ReviewAccepted
  BY <1>11, <1>0 DEF ReviewSync, ReviewIdentified, ReviewRejected, ReviewAccepted, InStep
<1>12. CASE ReviewAllocated
  BY <1>12, <1>0 DEF ReviewAllocated, InStep
<1>13. CASE TurnIntended \/ Acknowledged \/ TurnUnknown \/ TurnUnresolved \/ TurnModified
  BY <1>13, <1>0 DEF TurnIntended, Acknowledged, TurnUnknown, TurnUnresolved, TurnModified
<1>14. CASE TurnInvalid \/ TurnRefused \/ Reported \/ Passed \/ Retry
  BY <1>14, <1>0 DEF TurnInvalid, TurnRefused, Reported, Passed, Retry, Create
<1>15. CASE TurnDrifted \/ Again
  BY <1>15, <1>0 DEF TurnDrifted, Again, Drifted, Larger
<1>16. CASE TurnPassed \/ TurnFailed
  BY <1>16, <1>0 DEF TurnPassed, TurnFailed, Drifted
<1>17. CASE Pause \/ Park
  BY <1>17, <1>0 DEF Pause, Park, Create, EnsurePacket
<1>18. CASE FixAllowed \/ Decide \/ Decided \/ Waived
  BY <1>18, <1>0 DEF FixAllowed, Decide, Decided, Waived, Allowed
<1>19. CASE FixDrifted \/ FixUndelivered \/ FixBound
  BY <1>19, <1>0 DEF FixDrifted, FixUndelivered, FixBound
<1>20. CASE FixIntended \/ FixSent
  BY <1>20, <1>0 DEF FixIntended, FixSent
<1>21. CASE FixReported \/ FixRecorded
  BY <1>21, <1>0 DEF FixReported, FixRecorded
<1>22. CASE FixStopped
  BY <1>22, <1>0 DEF FixStopped
<1>23. CASE FinalizationBegun \/ FinalizationVerified \/ FinalizationCompleted
  BY <1>23, <1>0 DEF FinalizationBegun, FinalizationVerified, FinalizationCompleted
<1>24. CASE Repair
  BY <1>24, <1>0 DEF Repair
<1> QED
  BY <1>1, <1>2, <1>3, <1>4, <1>5, <1>6, <1>7, <1>8, <1>9, <1>10, <1>11, <1>12, <1>13, <1>14, <1>15,
     <1>16, <1>17, <1>18, <1>19, <1>20, <1>21, <1>22, <1>23, <1>24, Zenon DEF Next, Load, Entry, Review,
     Turn, Fix, Finish, Around

(* What the packet says, or will say once published, follows the latest     *)
(* review.                                                                  *)
LEMMA PacketsKept ==
  ASSUME TypeOK, Reducer, Latests, Sends, Packets, Next
  PROVE  Packets'
<1> USE DEF Packets, Told, Open, Pending, Lagging, Place, Turning, Go, Plain, memory, database,
            files, people
<1>31. /\ N \in Nat /\ (at # "sync" \/ reviews' = reviews => N' = N)
       /\ (N > 0 => reviews'[N].src = reviews[N].src)
       /\ (ReviewAllocated => /\ N' = N + 1 /\ reviews'[N + 1].status = "started"
                              /\ reviews'[N + 1].src = snap)
  BY Stepping
<1>34. \A r \in PacketRow : r # NoPacket
  BY PacketReal
<1>35. at = "publish" => then # "publish"
  BY DEF TypeOK, HostOK, Places, Loading, Entering, Preparing, Turning, Ending, Fixing, Building, Pausing,
     Closing
<1>0. /\ N \in Nat /\ (at # "sync" \/ reviews' = reviews => N' = N)
      /\ (N > 0 => reviews'[N].src = reviews[N].src)
      /\ (plan' \in PacketRow => plan' # NoPacket)
      /\ (Pending => packet.n \in Nat)
      /\ (at = "publish" => then # "publish")
  BY <1>31, <1>34, <1>35, PendingTyped DEF PacketRow
<1>32. /\ LoadTerminal => Marked("resolved", "load")
       /\ EntryRecheck => Marked("review", "settle")
       /\ ReviewUnprepared => Marked("menu", "menu") \/ (Plain /\ at' = "leave")
       /\ TurnInvalid => Marked("automatic", "retry") \/ (~ Pending /\ Created(snap, "automatic", "retry"))
       /\ Reported => Marked("builder", "failed")
       /\ Passed => Marked("resolved", "deliver")
       /\ Waived => Marked("resolved", "leave")
       /\ FixRecorded => Marked("review", "review")
       /\ LoadIdentity => Written(N, packet.src, packet.action, "load")
       /\ ReviewSync => \/ Written(packet.n, packet.src, "review", "sync")
                        \/ packet.action = "review" /\ Written(packet.n, snap, "review", "sync")
       /\ ReviewIdentified => \/ Pending /\ Written(N, packet.src, packet.action, "bound")
                              \/ ~ Pending /\ Plain /\ at' = "bound"
  BY Filed
<1>33. Park => \/ Marked("menu", "leave") \/ (~ Pending /\ \E src \in Nat : Created(src, "menu", "leave"))
               \/ (Plain /\ at' = "leave")
  BY Parking
<1>1. CASE Edit \/ Answer \/ Ask \/ Guide
  BY <1>1, <1>0 DEF Edit, Answer, Ask, Guide
<1>2. CASE Crash \/ Leave
  BY <1>2, <1>0 DEF Crash, Leave, Halt
<1>3. CASE Start \/ Publish
  BY <1>3, <1>0 DEF Start, Publish
<1>4. CASE LoadPublication \/ LoadIdentity \/ LoadTerminal \/ Loaded
  BY <1>4, <1>0, <1>32 DEF LoadPublication, LoadIdentity, LoadTerminal, Loaded, Halt, Marked, Written
<1>5. CASE EntryStopped \/ EntryUncertain \/ EntryMenu \/ EntryUnsent
  BY <1>5, <1>0 DEF EntryStopped, EntryUncertain, EntryMenu, EntryUnsent, Stopped
<1>6. CASE EntryRecheck \/ EntrySettle
  BY <1>6, <1>0, <1>32 DEF EntryRecheck, EntrySettle, Stopped, Confirmed, Marked, Written
<1>7. CASE EntryControls \/ Failed
  BY <1>7, <1>0 DEF EntryControls, Failed, ConsumeControls, Eligible, Askable
<1>8. CASE EntryRestore
  BY <1>8, <1>0 DEF EntryRestore, Restorable
<1>9. CASE GuidanceRefused \/ GuidanceIntended \/ GuidanceFollowed
  BY <1>9, <1>0 DEF GuidanceRefused, GuidanceIntended, GuidanceFollowed, Allowed
<1>10. CASE ReviewUnprepared \/ ReviewPrepared
  BY <1>10, <1>0, <1>32 DEF ReviewUnprepared, ReviewPrepared, Marked, Written
<1>11. CASE ReviewSync \/ ReviewIdentified \/ ReviewRejected \/ ReviewAccepted
  BY <1>11, <1>0, <1>32 DEF ReviewSync, ReviewIdentified, ReviewRejected, ReviewAccepted, InStep,
     Marked, Written
<1>12. CASE ReviewAllocated
  <2>1. /\ at = "sync" /\ at' = "identity" /\ head' = "review-ready" /\ packet' = packet /\ plan' = plan
        /\ snap' = snap /\ (Pending => packet.src = snap /\ packet.intent = N + 1)
    BY <1>12 DEF ReviewAllocated, InStep
  <2>2. plan = NoPacket
    BY <2>1
  <2>3. N' = N + 1 /\ reviews'[N'].status = "started" /\ reviews'[N'].src = snap
    BY <1>12, <1>31
  <2>4. Pending => packet.n = N
    BY <2>1, <2>2
  <2>5. Pending' <=> Pending
    BY <2>1
  <2>6. Pending => Lagging'
    <3> SUFFICES ASSUME Pending PROVE Lagging'
      OBVIOUS
    <3>1. N' = packet'.n + 1
      BY <2>1, <2>3, <2>4
    <3>2. reviews'[N'].src = packet'.src /\ reviews'[N'].status = "started" /\ packet'.intent = N'
      BY <2>1, <2>3
    <3> QED
      BY <2>1, <2>5, <3>1, <3>2
  <2>7. Open' <=> Pending
    BY <2>1, <2>2
  <2>8. Told' = packet /\ plan' = NoPacket
    BY <2>1, <2>2
  <2> HIDE DEF Lagging, Pending, Open, Told
  <2> QED
    BY <2>1, <2>6, <2>7, <2>8
<1>13. CASE TurnIntended \/ Acknowledged \/ TurnUnknown \/ TurnUnresolved \/ TurnModified
  BY <1>13, <1>0 DEF TurnIntended, Acknowledged, TurnUnknown, TurnUnresolved, TurnModified
<1>14. CASE TurnInvalid \/ TurnRefused \/ Reported \/ Passed \/ Retry
  BY <1>14, <1>0, <1>32 DEF TurnInvalid, TurnRefused, Reported, Passed, Retry, Create, Marked,
     Created, Written, Latests, Reducer
<1>15. CASE TurnDrifted \/ Again
  BY <1>15, <1>0 DEF TurnDrifted, Again, Drifted
<1>16. CASE TurnPassed \/ TurnFailed
  BY <1>16, <1>0 DEF TurnPassed, TurnFailed, Drifted
<1>17. CASE Pause \/ Park
  BY <1>17, <1>0, <1>33 DEF Pause, Park, Create, EnsurePacket, Marked, Created, Written
<1>18. CASE FixAllowed \/ Decide \/ Decided \/ Waived
  BY <1>18, <1>0, <1>32 DEF FixAllowed, Decide, Decided, Waived, Allowed, Marked, Written
<1>19. CASE FixDrifted \/ FixUndelivered \/ FixBound
  BY <1>19, <1>0 DEF FixDrifted, FixUndelivered, FixBound
<1>20. CASE FixIntended \/ FixSent
  BY <1>20, <1>0 DEF FixIntended, FixSent
<1>21. CASE FixReported \/ FixRecorded
  BY <1>21, <1>0, <1>32 DEF FixReported, FixRecorded, Marked, Written
<1>22. CASE FixStopped
  BY <1>22, <1>0 DEF FixStopped
<1>23. CASE FinalizationBegun \/ FinalizationVerified \/ FinalizationCompleted
  BY <1>23, <1>0 DEF FinalizationBegun, FinalizationVerified, FinalizationCompleted
<1>24. CASE Repair
  BY <1>24, <1>0 DEF Repair
<1> QED
  BY <1>1, <1>2, <1>3, <1>4, <1>5, <1>6, <1>7, <1>8, <1>9, <1>10, <1>11, <1>12, <1>13, <1>14, <1>15,
     <1>16, <1>17, <1>18, <1>19, <1>20, <1>21, <1>22, <1>23, <1>24, Zenon DEF Next, Load, Entry, Review,
     Turn, Fix, Finish, Around

(* Reviews stay within their bound.                                         *)
LEMMA BoundedKept == ASSUME TypeOK, Reducer, Sends, Bounded, Next PROVE Bounded'
<1>1. N \in Nat /\ (N' = N \/ (ReviewAllocated /\ N' = N + 1)) /\ MaxReviews \in Nat
  BY Stepping, QaAssumption
<1>2. ReviewAllocated => N < MaxReviews
  BY DEF ReviewAllocated
<1> QED
  BY <1>1, <1>2 DEF Bounded

(* The invariant holds at first.                                            *)
LEMMA InvariantInit == Init => IInv
<1> SUFFICES ASSUME Init PROVE IInv
  OBVIOUS
<1> USE DEF Init
<1>1. reviews = <<>> /\ N = 0 /\ reviews \in Seq(Row)
  BY DEF N
<1>2. HostOK
  BY DEF HostOK, Heads, Places, Loading
<1>3. packet = NoPacket /\ plan = NoPacket
  OBVIOUS
<1>4. TypeOK
  BY <1>1, <1>2, <1>3 DEF TypeOK, PacketOK
<1>5. Reducer /\ Latests
  BY <1>1 DEF Reducer, Latests, Place, Terminal, Fixing, Entering, Turning
<1>6. Sends /\ Issued /\ Settled
  BY <1>1 DEF Sends, Issued, Settled, Place, Terminal
<1>7. Accounts
  <2>1. Unpaid = {}
    BY <1>1 DEF Unpaid
  <2>2. AutoCount = 0
    BY <2>1, FS_EmptySet DEF AutoCount, Unpaid
  <2> QED
    BY <2>2, QaAssumption DEF Accounts, Place, Counting, Fixing, Building
<1>8. Authorized /\ Stops /\ Bounded
  BY <1>1, QaAssumption DEF Authorized, Stops, Bounded, Place, Fixing
<1>9. Packets
  BY <1>3 DEF Packets, Told, Open, Place, Turning
<1> QED
  BY <1>4, <1>5, <1>6, <1>7, <1>8, <1>9 DEF IInv

(* Every step keeps the invariant.                                          *)
LEMMA InvariantStep == IInv /\ [Next]_vars => IInv'
<1> SUFFICES ASSUME IInv, [Next]_vars PROVE IInv'
  OBVIOUS
<1> USE DEF IInv
<1>1. CASE Next
  <2>1. TypeOK'
    <3>1. reviews' \in Seq(Row) /\ HostOK'
      BY <1>1, RowsTyped, HostTyped
    <3>2. PacketOK'
      BY <1>1, PacketsTyped DEF Packets
    <3> QED
      BY <3>1, <3>2 DEF TypeOK
  <2>2. Reducer' /\ Latests' /\ Sends' /\ Issued' /\ Settled'
    BY <1>1, ReducerKept, LatestsKept, SendsKept, IssuedKept, SettledKept
  <2>3. Accounts' /\ Authorized' /\ Packets' /\ Stops' /\ Bounded'
    BY <1>1, AccountsKept, AuthorizedKept, PacketsKept, StopsKept, BoundedKept
  <2> QED
    BY <2>1, <2>2, <2>3
<1>2. CASE UNCHANGED vars
  <2> USE <1>2 DEF vars, database, people, files, memory
  <2>1. TypeOK' /\ Reducer' /\ Latests'
    BY DEF TypeOK, HostOK, PacketOK, Reducer, Latests, Place, N
  <2>2. Sends' /\ Issued' /\ Settled' /\ Bounded'
    BY DEF Sends, Issued, Settled, Unsettled, Bounded, Place, N
  <2>3. Accounts' /\ Authorized'
    BY DEF Accounts, AutoCount, Authorized, Place, N
  <2>4. Packets'
    BY DEF Packets, Told, Open, Lagging, Pending, Place, N
  <2>5. Stops'
    BY DEF Stops, Place, N
  <2> QED
    BY <2>1, <2>2, <2>3, <2>4, <2>5
<1> QED
  BY <1>1, <1>2

-----------------------------------------------------------------------------
(* Theorems.                                                                *)

(* The inductive invariant: where the reducer, the latest review, the       *)
(* counts, the packet and the stop are at each place of the host, whatever  *)
(* crashes, edits and requests come between (runIsolatedQa, qaReview.ts).   *)
THEOREM ReviewInvariant == Spec => []IInv
<1> QED
  BY InvariantInit, InvariantStep, PTL DEF Spec

(* No failed review has its fix sent twice: the fix is recorded before it   *)
(* is sent, and a review with a recorded fix is never "review-failed" again *)
(* (deliverAttempt, restoreUnchangedFailedReview).                          *)
THEOREM HandsOverOnce == Spec => []HandedOverOnce
<1>1. IInv => HandedOverOnce
  BY DEF IInv, Sends, HandedOverOnce
<1> QED
  BY <1>1, ReviewInvariant, PTL

(* Fixes and guidance turns without an authorization stay within the        *)
(* allowance, and an authorized fix was authorized by an operator           *)
(* (reserveQaRemediation, qaAutomaticRemediationCount).                     *)
THEOREM KeepsAllowance == Spec => []AllowanceKept
<1>1. ASSUME IInv PROVE AllowanceKept
  <2> USE <1>1 DEF IInv
  <2>1. IsFiniteSet(Unpaid) /\ AutoCount = Cardinality(Unpaid) + followups /\ Cardinality(Unpaid) \in Nat
        /\ followups \in Nat /\ MaxFixes \in Nat
    BY UnpaidFinite, QaAssumption DEF TypeOK, HostOK
  <2>2. ASSUME NEW S, S = {k \in 1 .. N : reviews[k].sent > 0 /\ ~reviews[k].paid}
        PROVE  Cardinality(S) + followups <= MaxFixes
    <3>1. S \subseteq Unpaid
      <4> SUFFICES ASSUME NEW k \in 1 .. N, reviews[k].sent > 0, ~ reviews[k].paid PROVE reviews[k].fix # "none"
        BY <2>2 DEF Unpaid
      <4>1. reviews[k].sent \in Nat
        BY ReviewTyped DEF Row
      <4> QED
        BY <4>1 DEF Sends
    <3>2. Cardinality(S) <= Cardinality(Unpaid) /\ Cardinality(S) \in Nat
      BY <2>1, <3>1, FS_Subset, FS_CardinalityType
    <3>3. AutoCount <= MaxFixes
      BY DEF Accounts
    <3> QED
      BY <2>1, <3>2, <3>3
  <2>3. \A k \in 1 .. N : reviews[k].paid => k \in given
    BY DEF Authorized
  <2> QED
    BY <2>2, <2>3 DEF AllowanceKept
<1> QED
  BY <1>1, ReviewInvariant, PTL

(* A ticket waiting for a fix has the unresolved report of its latest       *)
(* review, and one QA let go has none (resolveQaReportsAfterPass).          *)
THEOREM SettlesReports == Spec => []ReportsSettled
<1>1. ASSUME IInv PROVE ReportsSettled
  <2>1. head = "review-failed" => N > 0 /\ N \in Nat
    BY <1>1, ReviewTyped DEF IInv, Reducer
  <2> QED
    BY <1>1, <2>1 DEF IInv, Latests, Settled, ReportsSettled, Unsettled
<1> QED
  BY <1>1, ReviewInvariant, PTL

(* After a crash the packet can be loaded again: what it names is the       *)
(* review the reducer is at, or it lags by the one review that              *)
(* recoverPendingQaRecoveryPublications brings it up to.                    *)
THEOREM LoadsPacket == Spec => []PacketLoads
<1>1. ASSUME IInv PROVE PacketLoads
  <2> SUFFICES ASSUME at = "load", plan = NoPacket, Pending, ~ Lagging PROVE BoundToReview
    BY DEF PacketLoads
  <2>1. packet \in PacketRow /\ packet.action # "resolved"
    BY <1>1, PendingTyped DEF IInv, Pending
  <2>2. packet.n = N /\ (packet.action = "builder" => reviews[N].src = packet.src)
    BY <1>1 DEF IInv, Packets, Told, Open, Pending
  <2> QED
    BY <2>1, <2>2 DEF BoundToReview, PacketRow
<1> QED
  BY <1>1, ReviewInvariant, PTL

(* A stop begins with a fix and ends with an answer or an accepted resume.  *)
LEMMA StopLeft ==
  ASSUME Next
  PROVE  stop' = stop \/ ReviewAccepted \/ FixStopped \/ (Answer /\ stop' = "answered")
<1> USE DEF database
<1>1. CASE Edit \/ Answer \/ Ask \/ Guide
  BY <1>1 DEF Edit, Answer, Ask, Guide
<1>2. CASE Crash \/ Leave
  BY <1>2 DEF Crash, Leave, Halt
<1>3. CASE Start \/ Publish
  BY <1>3 DEF Start, Publish
<1>4. CASE LoadPublication \/ LoadIdentity \/ LoadTerminal \/ Loaded
  BY <1>4 DEF LoadPublication, LoadIdentity, LoadTerminal, Loaded, Halt
<1>5. CASE EntryStopped \/ EntryUncertain \/ EntryMenu \/ EntryUnsent
  BY <1>5 DEF EntryStopped, EntryUncertain, EntryMenu, EntryUnsent, Stopped
<1>6. CASE EntryRecheck \/ EntrySettle
  BY <1>6 DEF EntryRecheck, EntrySettle, Stopped, Confirmed
<1>7. CASE EntryControls \/ Failed
  BY <1>7 DEF EntryControls, Failed, ConsumeControls, Eligible, Askable
<1>8. CASE EntryRestore
  BY <1>8 DEF EntryRestore, Restorable
<1>9. CASE GuidanceRefused \/ GuidanceIntended \/ GuidanceFollowed
  BY <1>9 DEF GuidanceRefused, GuidanceIntended, GuidanceFollowed, Allowed
<1>10. CASE ReviewUnprepared \/ ReviewPrepared
  BY <1>10 DEF ReviewUnprepared, ReviewPrepared
<1>11. CASE ReviewSync \/ ReviewIdentified \/ ReviewRejected \/ ReviewAccepted
  BY <1>11 DEF ReviewSync, ReviewIdentified, ReviewRejected, ReviewAccepted, InStep
<1>12. CASE ReviewAllocated
  BY <1>12 DEF ReviewAllocated, InStep
<1>13. CASE TurnIntended \/ Acknowledged \/ TurnUnknown \/ TurnUnresolved \/ TurnModified
  BY <1>13 DEF TurnIntended, Acknowledged, TurnUnknown, TurnUnresolved, TurnModified
<1>14. CASE TurnInvalid \/ TurnRefused \/ Reported \/ Passed \/ Retry
  BY <1>14 DEF TurnInvalid, TurnRefused, Reported, Passed, Retry, Create
<1>15. CASE TurnDrifted \/ Again
  BY <1>15 DEF TurnDrifted, Again, Drifted
<1>16. CASE TurnPassed \/ TurnFailed
  BY <1>16 DEF TurnPassed, TurnFailed, Drifted
<1>17. CASE Pause \/ Park
  BY <1>17 DEF Pause, Park, Create, EnsurePacket
<1>18. CASE FixAllowed \/ Decide \/ Decided \/ Waived
  BY <1>18 DEF FixAllowed, Decide, Decided, Waived, Allowed
<1>19. CASE FixDrifted \/ FixUndelivered \/ FixBound
  BY <1>19 DEF FixDrifted, FixUndelivered, FixBound
<1>20. CASE FixIntended \/ FixSent
  BY <1>20 DEF FixIntended, FixSent
<1>21. CASE FixReported \/ FixRecorded
  BY <1>21 DEF FixReported, FixRecorded
<1>22. CASE FixStopped
  BY <1>22 DEF FixStopped
<1>23. CASE FinalizationBegun \/ FinalizationVerified \/ FinalizationCompleted
  BY <1>23 DEF FinalizationBegun, FinalizationVerified, FinalizationCompleted
<1>24. CASE Repair
  BY <1>24 DEF Repair
<1> QED
  BY <1>1, <1>2, <1>3, <1>4, <1>5, <1>6, <1>7, <1>8, <1>9, <1>10, <1>11, <1>12, <1>13, <1>14, <1>15,
     <1>16, <1>17, <1>18, <1>19, <1>20, <1>21, <1>22, <1>23, <1>24, Zenon DEF Next, Load, Entry, Review,
     Turn, Fix, Finish, Around

(* While a stop stands nothing goes to the Builder, and the stop ends only  *)
(* in a resumed review after its question was answered.                     *)
THEOREM HoldsStop == Spec => StopHolds
<1> DEFINE Body == stop # "none" =>
                     /\ followups' = followups
                     /\ \A k \in 1 .. N : reviews'[k].sent = reviews[k].sent
                     /\ stop' = "none" => resumed /\ stop # "input"
<1>1. IInv /\ [Next]_vars => [Body]_vars
  <2> SUFFICES ASSUME IInv, Next, stop # "none" PROVE Body
    OBVIOUS
  <2> USE DEF IInv
  <2>1. followups' = followups
    BY FollowupsKept DEF GuidanceIntended, Stops, Place
  <2>2. \A k \in 1 .. N : reviews'[k].sent = reviews[k].sent
    BY RowsLast DEF Lasting, FixSent, Stops, Place
  <2>3. ASSUME stop' = "none" PROVE resumed /\ stop # "input"
    <3>1. ~ FixStopped
      BY DEF FixStopped, Stops, Place
    <3>2. ReviewAccepted
      BY <2>3, <3>1, StopLeft
    <3> QED
      BY <3>2 DEF ReviewAccepted, Stops, Place
  <2> QED
    BY <2>1, <2>2, <2>3
<1> QED
  BY <1>1, ReviewInvariant, PTL DEF Spec, StopHolds

(* How the reducer moves between what the runner is told.                   *)
LEMMA HeadMoves ==
  ASSUME TypeOK, Reducer, Latests, Next
  PROVE  \/ head' = head
         \/ head \notin Terminal /\ head' \notin Terminal
         \/ TurnPassed /\ head \notin Terminal /\ head' = "passed"
         \/ head \notin Terminal /\ head' = "waived"
         \/ head = "passed" /\ head' = "finalizing" /\ tree = reviews[N].src
         \/ head = "finalizing" /\ head' = "completed"
         \/ head \in {"passed", "finalizing"} /\ head' \notin Terminal
<1> USE DEF Reducer, Place, Fixing, Entering, Terminal, Go, Mark, Revise, Create, memory, database
<1>1. CASE Edit \/ Answer \/ Ask \/ Guide
  BY <1>1 DEF Edit, Answer, Ask, Guide
<1>2. CASE Crash \/ Leave
  BY <1>2 DEF Crash, Leave, Halt
<1>3. CASE Start \/ Publish
  BY <1>3 DEF Start, Publish
<1>4. CASE LoadPublication \/ LoadIdentity \/ LoadTerminal \/ Loaded
  BY <1>4 DEF LoadPublication, LoadIdentity, LoadTerminal, Loaded, Halt
<1>5. CASE EntryStopped \/ EntryUncertain \/ EntryMenu \/ EntryUnsent
  BY <1>5 DEF EntryStopped, EntryUncertain, EntryMenu, EntryUnsent, Stopped
<1>6. CASE EntryRecheck \/ EntrySettle
  BY <1>6 DEF EntryRecheck, EntrySettle, Stopped, Confirmed
<1>7. CASE EntryControls \/ Failed
  BY <1>7 DEF EntryControls, Failed, ConsumeControls, Eligible, Askable
<1>8. CASE EntryRestore
  BY <1>8 DEF EntryRestore, Restorable
<1>9. CASE GuidanceRefused \/ GuidanceIntended \/ GuidanceFollowed
  BY <1>9 DEF GuidanceRefused, GuidanceIntended, GuidanceFollowed, Allowed
<1>10. CASE ReviewUnprepared \/ ReviewPrepared
  BY <1>10 DEF ReviewUnprepared, ReviewPrepared
<1>11. CASE ReviewSync \/ ReviewIdentified \/ ReviewRejected \/ ReviewAccepted
  BY <1>11 DEF ReviewSync, ReviewIdentified, ReviewRejected, ReviewAccepted, InStep
<1>12. CASE ReviewAllocated
  BY <1>12 DEF ReviewAllocated, InStep
<1>13. CASE TurnIntended \/ Acknowledged \/ TurnUnknown \/ TurnUnresolved \/ TurnModified
  BY <1>13 DEF TurnIntended, Acknowledged, TurnUnknown, TurnUnresolved, TurnModified
<1>14. CASE TurnInvalid \/ TurnRefused \/ Reported \/ Passed \/ Retry
  BY <1>14 DEF TurnInvalid, TurnRefused, Reported, Passed, Retry, Create
<1>15. CASE TurnDrifted \/ Again
  BY <1>15 DEF TurnDrifted, Again, Drifted
<1>16. CASE TurnPassed \/ TurnFailed
  BY <1>16 DEF TurnPassed, TurnFailed, Drifted
<1>17. CASE Pause \/ Park
  BY <1>17 DEF Pause, Park, Create, EnsurePacket
<1>18. CASE FixAllowed \/ Decide \/ Decided \/ Waived
  BY <1>18 DEF FixAllowed, Decide, Decided, Waived, Allowed
<1>19. CASE FixDrifted \/ FixUndelivered \/ FixBound
  BY <1>19 DEF FixDrifted, FixUndelivered, FixBound
<1>20. CASE FixIntended \/ FixSent
  BY <1>20 DEF FixIntended, FixSent
<1>21. CASE FixReported \/ FixRecorded
  BY <1>21 DEF FixReported, FixRecorded
<1>22. CASE FixStopped
  BY <1>22 DEF FixStopped
<1>23. CASE FinalizationBegun \/ FinalizationVerified \/ FinalizationCompleted
  BY <1>23 DEF FinalizationBegun, FinalizationVerified, FinalizationCompleted
<1>24. CASE Repair
  BY <1>24 DEF Repair
<1> QED
  BY <1>1, <1>2, <1>3, <1>4, <1>5, <1>6, <1>7, <1>8, <1>9, <1>10, <1>11, <1>12, <1>13, <1>14, <1>15,
     <1>16, <1>17, <1>18, <1>19, <1>20, <1>21, <1>22, <1>23, <1>24, Zenon DEF Next, Load, Entry, Review,
     Turn, Fix, Finish, Around

(* The pass the runner may rely on is the latest review's.                  *)
Vouched == {<<k, reviews[k].src>> : k \in {i \in 1 .. N : Counts(i)}}
Standing == IF head \in Terminal THEN head ELSE "open"

OneVouched == Vouched = IF head \in {"passed", "finalizing", "completed"} THEN {<<N, reviews[N].src>>} ELSE {}

(* The pass that stands is the latest review's, from the pass to the        *)
(* completion.                                                              *)
LEMMA VouchedIs == IInv => OneVouched
<1> SUFFICES ASSUME IInv PROVE OneVouched
  OBVIOUS
<1> USE DEF OneVouched
<1> USE DEF IInv
<1>1. N \in Nat
  BY ReviewTyped
<1>2. CASE head \in {"passed", "finalizing", "completed"}
  <2>1. N \in 1 .. N
    BY <1>1, <1>2 DEF Reducer
  <2>2. Counts(N)
    BY <1>2 DEF Latests, Counts
  <2>3. \A k \in 1 .. N : Counts(k) => k = N
    BY DEF Issued, Counts
  <2>4. {i \in 1 .. N : Counts(i)} = {N}
    BY <2>1, <2>2, <2>3
  <2> QED
    BY <1>2, <2>4 DEF Vouched
<1>3. CASE head \notin {"passed", "finalizing", "completed"}
  <2>1. \A k \in 1 .. N : ~ Counts(k)
    BY <1>3 DEF Issued, Counts
  <2>2. {i \in 1 .. N : Counts(i)} = {}
    BY <2>1
  <2> QED
    BY <1>3, <2>2 DEF Vouched
<1> QED
  BY <1>2, <1>3

(* Only an edit changes the worktree.                                       *)
LEMMA TreeMoves ==
  ASSUME Next
  PROVE  tree' = tree \/ (Edit /\ tree' = tree + 1)
<1>1. CASE Edit \/ Answer \/ Ask \/ Guide
  BY <1>1 DEF Edit, Answer, Ask, Guide
<1>2. CASE Crash \/ Leave
  BY <1>2 DEF Crash, Leave, Halt
<1>3. CASE Start \/ Publish
  BY <1>3 DEF Start, Publish
<1>4. CASE LoadPublication \/ LoadIdentity \/ LoadTerminal \/ Loaded
  BY <1>4 DEF LoadPublication, LoadIdentity, LoadTerminal, Loaded, Halt
<1>5. CASE EntryStopped \/ EntryUncertain \/ EntryMenu \/ EntryUnsent
  BY <1>5 DEF EntryStopped, EntryUncertain, EntryMenu, EntryUnsent, Stopped
<1>6. CASE EntryRecheck \/ EntrySettle
  BY <1>6 DEF EntryRecheck, EntrySettle, Stopped, Confirmed
<1>7. CASE EntryControls \/ Failed
  BY <1>7 DEF EntryControls, Failed, ConsumeControls, Eligible, Askable
<1>8. CASE EntryRestore
  BY <1>8 DEF EntryRestore, Restorable
<1>9. CASE GuidanceRefused \/ GuidanceIntended \/ GuidanceFollowed
  BY <1>9 DEF GuidanceRefused, GuidanceIntended, GuidanceFollowed, Allowed
<1>10. CASE ReviewUnprepared \/ ReviewPrepared
  BY <1>10 DEF ReviewUnprepared, ReviewPrepared
<1>11. CASE ReviewSync \/ ReviewIdentified \/ ReviewRejected \/ ReviewAccepted
  BY <1>11 DEF ReviewSync, ReviewIdentified, ReviewRejected, ReviewAccepted, InStep
<1>12. CASE ReviewAllocated
  BY <1>12 DEF ReviewAllocated, InStep
<1>13. CASE TurnIntended \/ Acknowledged \/ TurnUnknown \/ TurnUnresolved \/ TurnModified
  BY <1>13 DEF TurnIntended, Acknowledged, TurnUnknown, TurnUnresolved, TurnModified
<1>14. CASE TurnInvalid \/ TurnRefused \/ Reported \/ Passed \/ Retry
  BY <1>14 DEF TurnInvalid, TurnRefused, Reported, Passed, Retry, Create
<1>15. CASE TurnDrifted \/ Again
  BY <1>15 DEF TurnDrifted, Again, Drifted
<1>16. CASE TurnPassed \/ TurnFailed
  BY <1>16 DEF TurnPassed, TurnFailed, Drifted
<1>17. CASE Pause \/ Park
  BY <1>17 DEF Pause, Park, Create, EnsurePacket
<1>18. CASE FixAllowed \/ Decide \/ Decided \/ Waived
  BY <1>18 DEF FixAllowed, Decide, Decided, Waived, Allowed
<1>19. CASE FixDrifted \/ FixUndelivered \/ FixBound
  BY <1>19 DEF FixDrifted, FixUndelivered, FixBound
<1>20. CASE FixIntended \/ FixSent
  BY <1>20 DEF FixIntended, FixSent
<1>21. CASE FixReported \/ FixRecorded
  BY <1>21 DEF FixReported, FixRecorded
<1>22. CASE FixStopped
  BY <1>22 DEF FixStopped
<1>23. CASE FinalizationBegun \/ FinalizationVerified \/ FinalizationCompleted
  BY <1>23 DEF FinalizationBegun, FinalizationVerified, FinalizationCompleted
<1>24. CASE Repair
  BY <1>24 DEF Repair
<1> QED
  BY <1>1, <1>2, <1>3, <1>4, <1>5, <1>6, <1>7, <1>8, <1>9, <1>10, <1>11, <1>12, <1>13, <1>14, <1>15,
     <1>16, <1>17, <1>18, <1>19, <1>20, <1>21, <1>22, <1>23, <1>24, Zenon DEF Next, Load, Entry, Review,
     Turn, Fix, Finish, Around

(* The review of a ticket implements what QaCertification promises the       *)
(* runner: a ticket is completed only by way of one standing pass about the *)
(* content it had, and nothing follows a waiver or a completion.            *)
THEOREM CertifiesTickets == Spec => ImplementsCertification
<1>1. Init => Certification!Init
  <2> SUFFICES ASSUME Init PROVE Certification!Init
    OBVIOUS
  <2>1. N = 0 /\ head = "idle" /\ tree = 0
    BY DEF Init, N
  <2>2. {k \in 1 .. N : Counts(k)} = {}
    BY <2>1
  <2> QED
    BY <2>1, <2>2 DEF Certification!Init, Terminal
<1>2. IInv /\ IInv' /\ [Next]_vars => [Certification!Next]_(Certification!vars)
  <2> SUFFICES ASSUME IInv, IInv', [Next]_vars
               PROVE  Certification!Next \/ UNCHANGED <<tree, Standing, Vouched>>
    BY DEF Certification!vars, Standing, Vouched
  <2> USE DEF IInv
  <2>1. Vouched = IF head \in {"passed", "finalizing", "completed"} THEN {<<N, reviews[N].src>>} ELSE {}
    BY VouchedIs DEF OneVouched
  <2>2. Vouched' = IF head' \in {"passed", "finalizing", "completed"} THEN {<<N', (reviews[N].src)'>>} ELSE {}
    <3>1. IInv' => OneVouched'
      BY VouchedIs, PTL
    <3> QED
      BY <3>1 DEF OneVouched
  <2>3. CASE UNCHANGED vars
    <3>1. reviews' = reviews /\ head' = head /\ tree' = tree /\ N' = N
      BY <2>3 DEF vars, database, N
    <3> QED
      BY <2>1, <2>2, <3>1 DEF Standing
  <2>4. CASE Edit
    <3>1. reviews' = reviews /\ head' = head /\ tree' = tree + 1 /\ N' = N
      BY <2>4 DEF Edit, database, N
    <3>2. Vouched' = Vouched /\ Standing' = Standing
      BY <2>1, <2>2, <3>1 DEF Standing
    <3>3. Certification!Change
      BY <3>1, <3>2 DEF Certification!Change, Vouched, Standing
    <3> QED
      BY <3>3 DEF Certification!Next
  <2>5. CASE Next /\ ~ Edit
    <3>0. tree' = tree
      BY <2>5, TreeMoves
    <3>1. N \in Nat /\ (N > 0 => reviews'[N].src = reviews[N].src) /\ (N' = N \/ ReviewAllocated)
      BY <2>5, Stepping
    <3>2. CASE head' = head
      <4>1. head \in Terminal => N' = N /\ N > 0
        BY <3>1, <3>2 DEF ReviewAllocated, Terminal, Reducer
      <4>2. Vouched' = Vouched
        BY <2>1, <2>2, <3>1, <3>2, <4>1 DEF Terminal
      <4> QED
        BY <3>0, <3>2, <4>2 DEF Standing
    <3>3. CASE head \notin Terminal /\ head' \notin Terminal
      <4>1. Vouched = {} /\ Vouched' = {} /\ Standing = "open" /\ Standing' = "open"
        BY <2>1, <2>2, <3>3 DEF Terminal, Standing
      <4> QED
        BY <3>0, <4>1
    <3>4. CASE TurnPassed /\ head \notin Terminal /\ head' = "passed"
      <4>1. N > 0 /\ N' = N /\ reviews[N].src = tree /\ N \in 1 .. MaxReviews
        <5>1. N > 0 /\ N' = N /\ ~ Drifted
          BY <3>4, PassedRows DEF TurnPassed
        <5> QED
          BY <3>1, <5>1, QaAssumption DEF Drifted, Bounded
      <4>2. Vouched' = {<<N, tree>>} /\ Standing = "open" /\ Standing' = "passed"
        BY <2>2, <3>1, <3>4, <4>1 DEF Standing, Terminal
      <4>3. Certification!Pass
        BY <3>0, <4>1, <4>2 DEF Certification!Pass, Standing, Vouched
      <4> QED
        BY <4>3 DEF Certification!Next
    <3>5. CASE head \notin Terminal /\ head' = "waived"
      <4>1. Vouched = {} /\ Vouched' = {} /\ Standing = "open" /\ Standing' = "waived"
        BY <2>1, <2>2, <3>5 DEF Terminal, Standing
      <4>2. Certification!Waive
        BY <3>0, <4>1 DEF Certification!Waive, Standing, Vouched
      <4> QED
        BY <4>2 DEF Certification!Next
    <3>6. CASE head = "passed" /\ head' = "finalizing" /\ tree = reviews[N].src
      <4>1. N > 0 /\ N' = N
        BY <3>1, <3>6 DEF ReviewAllocated, Reducer
      <4>2. Vouched = {<<N, tree>>} /\ Vouched' = Vouched /\ Standing = "passed" /\ Standing' = "finalizing"
        BY <2>1, <2>2, <3>1, <3>6, <4>1 DEF Terminal, Standing
      <4>3. \A pass \in Vouched : pass[2] = tree
        BY <4>2
      <4>4. Certification!Finalize
        BY <3>0, <4>2, <4>3 DEF Certification!Finalize, Standing, Vouched
      <4> QED
        BY <4>4 DEF Certification!Next
    <3>7. CASE head = "finalizing" /\ head' = "completed"
      <4>1. N > 0 /\ N' = N
        BY <3>1, <3>7 DEF ReviewAllocated, Reducer
      <4>2. Vouched' = Vouched /\ Standing = "finalizing" /\ Standing' = "completed"
        BY <2>1, <2>2, <3>1, <3>7, <4>1 DEF Terminal, Standing
      <4>3. Certification!Complete
        BY <3>0, <4>2 DEF Certification!Complete, Standing, Vouched
      <4> QED
        BY <4>3 DEF Certification!Next
    <3>8. CASE head \in {"passed", "finalizing"} /\ head' \notin Terminal
      <4>1. Vouched' = {} /\ Standing \in {"passed", "finalizing"} /\ Standing' = "open"
        BY <2>2, <3>8 DEF Terminal, Standing
      <4>2. Certification!Revoke
        BY <3>0, <4>1 DEF Certification!Revoke, Standing, Vouched
      <4> QED
        BY <4>2 DEF Certification!Next
    <3> QED
      BY <2>5, <3>2, <3>3, <3>4, <3>5, <3>6, <3>7, <3>8, HeadMoves
  <2> QED
    BY <2>3, <2>4, <2>5
<1> QED
  BY <1>1, <1>2, ReviewInvariant, PTL DEF Spec, ImplementsCertification, Certification!Spec
===============================================================================
