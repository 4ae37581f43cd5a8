-------------------------- MODULE StructuredDispatch --------------------------
(***************************************************************************)
(* The provider dispatches of one role of one run, from admission to the   *)
(* publication of what the provider answered, and the transfers of the     *)
(* role to another provider session that an answer may ask for.            *)
(*                                                                         *)
(* One host acts at a time, so the interleavings are those of its nested   *)
(* calls with its crashes: every step below ends in one database           *)
(* transaction, and a crash keeps the rows and loses the calls.  The calls *)
(* in progress are a stack of frames: a dispatch whose answer asks for a   *)
(* handoff waits under the acceptance turn of the successor, and then      *)
(* under the continuation of the frozen action.                            *)
(***************************************************************************)
EXTENDS Naturals, Sequences, FiniteSets

CONSTANTS
  Dispatch,   \* identifiers of operations
  Session,    \* provider sessions
  None,
  MaxCrashes  \* bound: crashes of the host

ASSUME DispatchAssumption ==
  /\ None \notin Dispatch \cup Session
  /\ MaxCrashes \in Nat

VARIABLES
  op,         \* status of each operation of the journal
  kind,       \* what each operation was planned as
  sess,       \* the session each operation was sealed for
  claim,      \* submission claim of each operation
  answer,     \* what the retained receipt of each operation says
  processing, \* post-confirmation intent of each operation
  published,  \* operations whose continuity checkpoint exists
  lineage,    \* handoff lineage opened by each operation
  lease,      \* the session that owns the role
  accepted,   \* sessions with an accepted handoff
  host,       \* is a host process up
  current,    \* session of the host's adapter
  candidate,  \* session of the successor being accepted
  rejected,   \* successors rejected in the transfer under way
  stack,      \* calls in progress, innermost last
  reply,      \* how the last call that ended did end
  crashes

journal  == <<op, kind, sess, claim, answer>>
handoff  == <<lineage, lease, accepted>>
transfer == <<current, candidate, rejected>>
machine  == <<host, crashes>>
vars == <<journal, processing, published, handoff, machine, transfer, stack, reply>>

Wrapped == {"work", "continuation"}   \* sent through the continuity wrapper
Kinds   == Wrapped \cup {"acceptance"}
Callers == Kinds \cup {"drain", "host"}
Steps   == {"admission", "prepare", "sealed", "claimed", "sent", "publish", "begin",
            "settle", "transfer", "accepting", "plan", "adopt", "switch",
            "continuing", "complete", "finish", "threw"}

Lineage == [state: {"none", "acceptance-pending", "continuation-planned",
                    "continuation-claimed", "completed"},
            acceptance: Dispatch \cup {None}, continuation: Dispatch \cup {None},
            successor: Session \cup {None}]
Frame == [dispatch: Dispatch, kind: Callers \ {"host"},
          parent: Dispatch \cup {None}, at: Steps]
         \cup [dispatch: {None}, kind: {"host"}, parent: {None}, at: Steps]

Init ==
  /\ op = [d \in Dispatch |-> "unplanned"]
  /\ kind = [d \in Dispatch |-> None]
  /\ sess = [d \in Dispatch |-> None]
  /\ claim = [d \in Dispatch |-> "none"]
  /\ answer = [d \in Dispatch |-> "none"]
  /\ processing = [d \in Dispatch |-> "none"]
  /\ published = {}
  /\ lineage = [d \in Dispatch |-> [state |-> "none", acceptance |-> None,
                                    continuation |-> None, successor |-> None]]
  /\ lease = None
  /\ accepted = {}
  /\ host = "down"
  /\ current = None /\ candidate = None /\ rejected = 0
  /\ stack = <<>>
  /\ reply = "none"
  /\ crashes = 0

-----------------------------------------------------------------------------
(* The stack of calls                                                       *)

Top == stack[Len(stack)]
d0  == Top.dispatch
At(step) == stack # <<>> /\ Top.at = step
Goto(step) == stack' = [stack EXCEPT ![Len(stack)].at = step] /\ UNCHANGED reply
Call(returnTo, d, k, parent, step) ==
  /\ stack' = Append([stack EXCEPT ![Len(stack)].at = returnTo],
                     [dispatch |-> d, kind |-> k, parent |-> parent, at |-> step])
  /\ UNCHANGED reply
Return(how) == stack' = SubSeq(stack, 1, Len(stack) - 1) /\ reply' = how
Throw == Return("threw")

(* An exception after confirmation: the dispatch that is being sent keeps   *)
(* it as an error of its turn; one that is drained ends the call draining   *)
(* it.                                                                      *)
PostThrows ==
  CASE Top.kind = "drain" -> /\ stack' = [SubSeq(stack, 1, Len(stack) - 1)
                                            EXCEPT ![Len(stack) - 1].at = "threw"]
                             /\ UNCHANGED reply
    [] Top.kind = "host"  -> Throw
    [] OTHER              -> Return("isError")

Free == {d \in Dispatch : /\ op[d] = "unplanned"
                          /\ \A i \in 1 .. Len(stack) : stack[i].dispatch # d
                          /\ \A p \in Dispatch : lineage[p].continuation # d}
FreshSessions == Session \ ({sess[d] : d \in Dispatch} \cup accepted
                            \cup {lease, current, candidate})

Unresolved == {d \in Dispatch : op[d] \in {"in_progress", "uncertain"}}
Pending    == {d \in Dispatch : processing[d] = "pending"}
Transfers  == {d \in Dispatch : lineage[d].state \notin {"none", "completed"}}

-----------------------------------------------------------------------------
(* Admission, sealing and submission                                        *)

MutUnpublishedIgnored(d, k, parent) ==
  Transfers = {} \/ Transfers = {parent}
MutTransfersIgnored(d, k, parent) == Pending \subseteq {parent}

(* One open transfer admits its own next dispatch and nothing else. *)
assertStructuredDispatchAdmission(d, k, parent) ==
  LET linked ==
        /\ Transfers = {parent}
        /\ \/ /\ k = "acceptance"
              /\ lineage[parent].state = "acceptance-pending"
              /\ lineage[parent].acceptance = None
           \/ /\ lineage[parent].state = "continuation-planned"
              /\ lineage[parent].continuation = d
  IN  /\ Pending \subseteq {parent}
      /\ Pending \cup Transfers # {} => linked

StartWork(d) ==
  /\ host = "up" /\ stack = <<>>
  /\ d \in Free
  /\ stack' = <<[dispatch |-> d, kind |-> "work", parent |-> None, at |-> "admission"]>>
  /\ reply' = "none"
  /\ UNCHANGED <<journal, processing, published, handoff, machine, transfer>>

(* Answers confirmed before a crash are published before anything is sent. *)
ToDrain == IF Top.kind \in Wrapped THEN Pending \ {Top.parent} ELSE {}

DrainPublication(d) ==
  /\ At("admission") /\ d \in ToDrain
  /\ Call("admission", d, "drain", None, "publish")
  /\ UNCHANGED <<journal, processing, published, handoff, machine, transfer>>

PlanOperation ==
  /\ At("admission") /\ ToDrain = {}
  /\ assertStructuredDispatchAdmission(d0, Top.kind, Top.parent)
  /\ op' = [op EXCEPT ![d0] = "planned"]
  /\ kind' = [kind EXCEPT ![d0] = Top.kind]
  /\ Goto("prepare")
  /\ UNCHANGED <<sess, claim, answer, processing, published, handoff, machine, transfer>>

RefuseAdmission ==
  /\ At("admission") /\ ToDrain = {}
  /\ ~ assertStructuredDispatchAdmission(d0, Top.kind, Top.parent)
  /\ Throw
  /\ UNCHANGED <<journal, processing, published, handoff, machine, transfer>>

(* The provider session cannot be prepared. *)
FailPreparation ==
  /\ At("prepare")
  /\ op' = [op EXCEPT ![d0] = "failed"]
  /\ Throw
  /\ UNCHANGED <<kind, sess, claim, answer, processing, published, handoff, machine, transfer>>

SealDispatch ==
  /\ At("prepare")
  /\ op' = [op EXCEPT ![d0] = "in_progress"]
  /\ sess' = [sess EXCEPT ![d0] = IF Top.kind = "acceptance" THEN candidate ELSE current]
  /\ lineage' = IF Top.kind = "acceptance" /\ Top.parent # None
                THEN [lineage EXCEPT ![Top.parent].acceptance = d0] ELSE lineage
  /\ Goto("sealed")
  /\ UNCHANGED <<kind, claim, answer, processing, published, lease, accepted, machine, transfer>>

MutClaimCompletes ==
  /\ At("sealed")
  /\ claim' = [claim EXCEPT ![d0] = "claimed"]
  /\ lineage' = [p \in Dispatch |-> IF lineage[p].continuation = d0
                   THEN [lineage[p] EXCEPT !.state = "completed"] ELSE lineage[p]]
  /\ Goto("claimed")
  /\ UNCHANGED <<op, kind, sess, answer, processing, published, lease, accepted, machine, transfer>>

claimStructuredSubmission ==
  /\ At("sealed")
  /\ claim' = [claim EXCEPT ![d0] = "claimed"]
  /\ lineage' = [p \in Dispatch |-> IF lineage[p].continuation = d0
                   THEN [lineage[p] EXCEPT !.state = "continuation-claimed"] ELSE lineage[p]]
  /\ Goto("claimed")
  /\ UNCHANGED <<op, kind, sess, answer, processing, published, lease, accepted, machine, transfer>>

Owner == lease \in {None, current}

MutOutcomeUnchecked == Top.kind \in Wrapped => Owner
(* The wrapper asks who owns the role and whether a dispatch is unresolved; *)
(* the acceptance turn of a successor goes to its adapter directly.         *)
MaySend == Top.kind \in Wrapped => Owner /\ Unresolved = {d0}

consumeStructuredSubmission ==
  /\ At("claimed") /\ MaySend
  /\ claim' = [claim EXCEPT ![d0] = "consumed"]
  /\ Goto("sent")
  /\ UNCHANGED <<op, kind, sess, answer, processing, published, handoff, machine, transfer>>

RefuseSubmission ==
  /\ At("claimed") /\ ~ MaySend
  /\ op' = [op EXCEPT ![d0] = "failed"]
  /\ Throw
  /\ UNCHANGED <<kind, sess, claim, answer, processing, published, handoff, machine, transfer>>

Answers(k) == IF k = "acceptance" THEN {"ack", "refusal"} ELSE {"final", "handoff"}

(* A verified answer and the intent to process it are one transaction. *)
ConfirmAnswer(a) ==
  /\ At("sent") /\ a \in Answers(Top.kind)
  /\ op' = [op EXCEPT ![d0] = "confirmed"]
  /\ answer' = [answer EXCEPT ![d0] = a]
  /\ \/ /\ Top.kind \in Wrapped
        /\ processing' = [processing EXCEPT ![d0] = "pending"]
        /\ Goto("publish")
     \/ /\ Top.kind \notin Wrapped
        /\ Return("answered")
        /\ UNCHANGED processing
  /\ UNCHANGED <<kind, sess, claim, published, handoff, machine, transfer>>

(* An invalid answer or a turn that was never sent failed; a turn that was  *)
(* lost, or whose receipt is not its own, has an unknown outcome.  The turn *)
(* comes back with an error, or the send itself throws.                     *)
LoseAnswer ==
  /\ At("sent")
  /\ \E status \in {"failed", "uncertain"} : op' = [op EXCEPT ![d0] = status]
  /\ \E how \in {"isError", "threw"} : Return(how)
  /\ UNCHANGED <<kind, sess, claim, answer, processing, published, handoff, machine, transfer>>

-----------------------------------------------------------------------------
(* What follows a confirmed answer                                          *)

PublishCheckpoint ==
  /\ At("publish")
  /\ published' = published \cup {d0}
  /\ Goto(IF answer[d0] = "handoff" THEN "begin" ELSE "complete")
  /\ UNCHANGED <<journal, processing, handoff, machine, transfer>>

beginStructuredHandoff ==
  /\ At("begin")
  /\ lineage[d0].state = "none"
  /\ lineage' = [lineage EXCEPT ![d0].state = "acceptance-pending"]
  /\ Goto("settle")
  /\ UNCHANGED <<journal, processing, published, lease, accepted, machine, transfer>>

RefuseHandoff ==
  /\ At("begin")
  /\ lineage[d0].state # "none"
  /\ PostThrows
  /\ UNCHANGED <<journal, processing, published, handoff, machine, transfer>>

SettlePublication ==
  /\ At("settle")
  /\ processing' = [processing EXCEPT ![d0] = "completed"]
  /\ rejected' = 0
  /\ Goto("transfer")
  /\ UNCHANGED <<journal, published, handoff, machine, current, candidate>>

completeStructuredPostprocessing ==
  /\ At("complete")
  /\ processing' = [processing EXCEPT ![d0] = "completed"]
  /\ Goto("finish")
  /\ UNCHANGED <<journal, published, handoff, machine, transfer>>

finishStructuredContinuation ==
  /\ At("finish")
  /\ lineage' = [p \in Dispatch |-> IF lineage[p].continuation = d0
                   THEN [lineage[p] EXCEPT !.state = "completed"] ELSE lineage[p]]
  /\ Return("answered")
  /\ UNCHANGED <<journal, processing, published, lease, accepted, machine, transfer>>

(* The call that was draining rethrows. *)
Rethrow ==
  /\ At("threw")
  /\ Throw
  /\ UNCHANGED <<journal, processing, published, handoff, machine, transfer>>

-----------------------------------------------------------------------------
(* Transferring the role                                                    *)

(* A resume or a threshold of the host transfers the role without a         *)
(* predecessor dispatch.                                                    *)
StartTransfer ==
  /\ host = "up" /\ stack = <<>>
  /\ lease = current
  /\ stack' = <<[dispatch |-> None, kind |-> "host", parent |-> None, at |-> "transfer"]>>
  /\ reply' = "none" /\ rejected' = 0
  /\ UNCHANGED <<journal, processing, published, handoff, machine, current, candidate>>

(* The handoff is staged by the session that owns the role, a successor is  *)
(* created and asked to acknowledge it.                                     *)
OfferHandoff(d, s) ==
  /\ At("transfer")
  /\ lease = current
  /\ d \in Free /\ s \in FreshSessions
  /\ candidate' = s
  /\ Call("accepting", d, "acceptance", d0, "admission")
  /\ UNCHANGED <<journal, processing, published, handoff, machine, current, rejected>>

(* Staging is refused to a session that is not the owner; a successor may   *)
(* not be creatable.                                                        *)
FailTransfer ==
  /\ At("transfer")
  /\ PostThrows
  /\ UNCHANGED <<journal, processing, published, handoff, machine, transfer>>

LastAcceptance == CHOOSE d \in Dispatch : kind[d] = "acceptance" /\ sess[d] = candidate

MutAcceptAnything == reply = "answered"
Acknowledged == reply = "answered" /\ answer[LastAcceptance] = "ack"

(* Checkpoint, receipt and role lease move in one transaction. *)
acceptHandoff ==
  /\ At("accepting") /\ Acknowledged
  /\ published' = published \cup {LastAcceptance}
  /\ accepted' = accepted \cup {candidate}
  /\ lease' = candidate
  /\ Goto(IF Top.kind = "host" THEN "switch" ELSE "plan")
  /\ UNCHANGED <<journal, processing, lineage, machine, transfer>>

(* Up to three successors may be tried, unless somebody pauses before. *)
RejectSuccessor ==
  /\ At("accepting") /\ ~ Acknowledged /\ reply # "threw"
  /\ rejected' = rejected + 1
  /\ \/ rejected' < 3 /\ Goto("transfer")
     \/ PostThrows
  /\ UNCHANGED <<journal, processing, published, handoff, machine, current, candidate>>

(* An exception of the acceptance turn ends the transfer. *)
FailAcceptance ==
  /\ At("accepting") /\ reply = "threw"
  /\ PostThrows
  /\ UNCHANGED <<journal, processing, published, handoff, machine, transfer>>

(* Recording the new runtime failed: the lease has moved already. *)
FailAccepted ==
  /\ At("plan") \/ At("switch")
  /\ PostThrows
  /\ UNCHANGED <<journal, processing, published, handoff, machine, transfer>>

SwitchSession ==
  /\ At("switch")
  /\ current' = candidate
  /\ Return("answered")
  /\ UNCHANGED <<journal, processing, published, handoff, machine, candidate, rejected>>

planStructuredContinuation(c) ==
  /\ At("plan")
  /\ c \in Free
  /\ lineage' = [lineage EXCEPT ![d0].state = "continuation-planned",
                                ![d0].successor = candidate, ![d0].continuation = c]
  /\ Goto("adopt")
  /\ UNCHANGED <<journal, processing, published, lease, accepted, machine, transfer>>

(* The wrapper moves to the successor and sends the frozen action again. *)
adoptValidatedSuccessor ==
  /\ At("adopt")
  /\ current' = candidate
  /\ Call("continuing", lineage[d0].continuation, "continuation", d0, "admission")
  /\ UNCHANGED <<journal, processing, published, handoff, machine, candidate, rejected>>

(* A contract must be delivered first, or the predecessor cannot be closed. *)
RefuseSuccessor ==
  /\ At("adopt")
  /\ PostThrows
  /\ UNCHANGED <<journal, processing, published, handoff, machine, transfer>>

Continued ==
  /\ At("continuing")
  /\ \/ reply = "threw" /\ PostThrows
     \/ reply # "threw" /\ Goto("complete")
  /\ UNCHANGED <<journal, processing, published, handoff, machine, transfer>>

-----------------------------------------------------------------------------
(* The host process                                                         *)

(* A start or a resume.  Resume retires what a dead host left unresolved;   *)
(* the owner of the role is attached again, or a first session claims it.   *)
StartHost ==
  /\ host = "down"
  /\ host' = "up"
  /\ op' = [d \in Dispatch |-> IF d \in Unresolved THEN "failed" ELSE op[d]]
  /\ \/ lease # None /\ current' = lease /\ lease' = lease
     \/ /\ lease = None
        /\ \E s \in FreshSessions : current' = s /\ lease' = s
  /\ UNCHANGED <<kind, sess, claim, answer, processing, published, lineage, accepted,
                 crashes, candidate, rejected, stack, reply>>

Crash ==
  /\ host = "up"
  /\ crashes < MaxCrashes
  /\ crashes' = crashes + 1
  /\ host' = "down"
  /\ current' = None /\ candidate' = None /\ rejected' = 0
  /\ stack' = <<>> /\ reply' = "none"
  /\ UNCHANGED <<journal, processing, published, handoff>>

-----------------------------------------------------------------------------

Send ==
  \/ \E d \in Dispatch : StartWork(d) \/ DrainPublication(d)
  \/ PlanOperation \/ RefuseAdmission \/ FailPreparation \/ SealDispatch
  \/ claimStructuredSubmission \/ consumeStructuredSubmission \/ RefuseSubmission
  \/ \E a \in {"final", "handoff", "ack", "refusal"} : ConfirmAnswer(a)
  \/ LoseAnswer

Process ==
  \/ PublishCheckpoint \/ beginStructuredHandoff \/ RefuseHandoff
  \/ SettlePublication \/ completeStructuredPostprocessing
  \/ finishStructuredContinuation \/ Rethrow

Transfer ==
  \/ StartTransfer
  \/ \E d \in Dispatch, s \in Session : OfferHandoff(d, s)
  \/ FailTransfer \/ acceptHandoff \/ RejectSuccessor \/ FailAcceptance \/ FailAccepted
  \/ SwitchSession \/ \E c \in Dispatch : planStructuredContinuation(c)
  \/ adoptValidatedSuccessor \/ RefuseSuccessor \/ Continued

Next == Send \/ Process \/ Transfer \/ StartHost \/ Crash

Spec == Init /\ [][Next]_vars

-----------------------------------------------------------------------------
(* Properties                                                               *)

Consumed == {d \in Dispatch : kind[d] \in Wrapped /\ claim[d] = "consumed"}

(* No instruction is submitted while it is unknown whether an earlier one   *)
(* was carried out (the check of sendTurnOwned before every turn).          *)
OneUnknownWork == Cardinality(Consumed \cap Unresolved) <= 1

(* Whatever dispatch is in progress, every answer confirmed before it has   *)
(* its checkpoint: no later turn starts from a history that lacks one.      *)
AllPublishedBeforeDispatch ==
  \A d \in Dispatch : op[d] = "in_progress" =>
    \A e \in Dispatch : op[e] = "confirmed" /\ kind[e] \in Wrapped => e \in published

(* While a handoff is open, nothing is in progress except its own           *)
(* acceptance and its own continuation (assertStructuredDispatchAdmission). *)
TransferExclusive ==
  \A d \in Dispatch : op[d] = "in_progress" =>
    \A p \in Transfers : d \in {lineage[p].acceptance, lineage[p].continuation}

(* The role leaves a session only for one whose own acceptance turn was     *)
(* confirmed with an acknowledgement.                                       *)
LeaseMovesByAcknowledgement ==
  [][lease' # lease /\ lease # None =>
       \E a \in Dispatch : /\ kind[a] = "acceptance" /\ op[a] = "confirmed"
                           /\ answer[a] = "ack" /\ sess[a] = lease']_vars

(* A handoff is recorded as complete only if the frozen action was carried  *)
(* on by the accepted successor, and what it answered has been published.   *)
CompletedTransferContinued ==
  \A p \in Dispatch : lineage[p].state = "completed" =>
    LET c == lineage[p].continuation
    IN  /\ op[c] = "confirmed" /\ c \in published
        /\ sess[c] = lineage[p].successor /\ sess[c] \in accepted
===============================================================================
