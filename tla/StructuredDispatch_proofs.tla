----------------------- MODULE StructuredDispatch_proofs -----------------------
(***************************************************************************)
(* Theorems about StructuredDispatch for every set of operations and       *)
(* sessions and any number of crashes.                                     *)
(*                                                                         *)
(* The argument follows the stack of calls.  A call that waits for another *)
(* waits at one of three places, what it has done so far can be read from  *)
(* the rows, and only the innermost call moves.  An operation is in        *)
(* progress only while its call is innermost, or after a crash; at that    *)
(* moment no answer is left to publish and no transfer is open but its own. *)
(***************************************************************************)
EXTENDS StructuredDispatch, FiniteSetTheorems, TLAPS

OpStatus   == {"unplanned", "planned", "in_progress", "uncertain", "confirmed", "failed"}
Early      == {"admission", "prepare", "sealed", "claimed", "sent"}
Turn       == {"sealed", "claimed", "sent"}
Unsettled  == {"publish", "begin", "settle"}
Handing    == {"transfer", "accepting", "plan", "adopt", "continuing"}
Late       == Unsettled \cup Handing \cup {"complete", "finish"}
Sent       == {"in_progress", "uncertain", "confirmed"}

TypeOK ==
  /\ op \in [Dispatch -> OpStatus]
  /\ kind \in [Dispatch -> Kinds \cup {None}]
  /\ sess \in [Dispatch -> Session \cup {None}]
  /\ claim \in [Dispatch -> {"none", "claimed", "consumed"}]
  /\ answer \in [Dispatch -> {"none", "final", "handoff", "ack", "refusal"}]
  /\ processing \in [Dispatch -> {"none", "pending", "completed"}]
  /\ published \subseteq Dispatch
  /\ lineage \in [Dispatch -> Lineage]
  /\ lease \in Session \cup {None}
  /\ accepted \subseteq Session \cup {None}
  /\ host \in {"up", "down"}
  /\ current \in Session \cup {None}
  /\ candidate \in Session \cup {None}
  /\ stack \in Seq(Frame)

-----------------------------------------------------------------------------
(* The stack: which call waits for which.                                   *)

Waits(f, g) ==
  \/ g.kind = "drain" /\ f.kind \in Wrapped /\ f.at = "admission"
  \/ g.kind = "acceptance" /\ f.at = "accepting" /\ g.parent = f.dispatch
  \/ g.kind = "continuation" /\ f.at = "continuing" /\ g.parent = f.dispatch

Nesting ==
  /\ host = "down" => stack = <<>>
  /\ stack # <<>> => stack[1].kind \in {"work", "host"}
  /\ \A i \in 1 .. Len(stack) - 1 : Waits(stack[i], stack[i + 1])
  /\ \A i, j \in 1 .. Len(stack) : stack[i].dispatch = stack[j].dispatch => i = j

(* How far a call is, as the rows show it.                                  *)
Located(f) ==
  /\ f.kind = "host"       => f.at \in {"transfer", "accepting", "switch"}
  /\ f.kind = "acceptance" => f.at \in Early
  /\ f.kind = "drain"      => f.at \in Late
  /\ f.kind \in Wrapped    => f.at \in Early \cup Late \cup {"threw"}
  /\ f.kind = "work"       => f.parent = None

Journalled(f) ==
  LET d == f.dispatch IN
  /\ f.at \in {"admission", "threw"} => op[d] = "unplanned"
  /\ f.at = "prepare" => op[d] = "planned" /\ kind[d] = f.kind
  /\ f.at \in Turn    => op[d] = "in_progress" /\ kind[d] = f.kind
  /\ f.at \in Turn /\ f.kind = "acceptance" => sess[d] = candidate
  /\ f.at \in Late /\ f.kind # "host" => op[d] = "confirmed" /\ kind[d] \in Wrapped

Processed(f) ==
  LET d == f.dispatch IN
  f.kind # "host" =>
    /\ f.at \in Unsettled => processing[d] = "pending"
    /\ f.at \in Handing \cup {"finish"} => processing[d] = "completed"
    /\ f.at \in Late \ {"publish"} => d \in published

Inherited(f) ==
  LET d == f.dispatch IN
  /\ f.kind # "host" =>
       /\ f.at \in {"settle", "transfer", "accepting", "plan"} =>
            lineage[d].state = "acceptance-pending"
       /\ f.at = "adopt" =>
            lineage[d].continuation \in Dispatch /\ lineage[d].successor = candidate
  /\ f.kind \in {"work", "acceptance"} => \A p \in Dispatch : lineage[p].continuation # f.dispatch
  /\ f.kind = "continuation" =>
       /\ f.parent \in Dispatch
       /\ lineage[f.parent].continuation = d
       /\ f.at \in {"admission", "prepare"} =>
            Pending = {} /\ current = lineage[f.parent].successor

Holds(f) == Located(f) /\ Journalled(f) /\ Processed(f) /\ Inherited(f)

Calls ==
  /\ \A i \in 1 .. Len(stack) : Holds(stack[i])
  /\ \A i \in 1 .. Len(stack) :
       stack[i].kind = "continuation" /\ stack[i].at = "admission" => i = Len(stack)

(* What holds of the innermost call only.                                   *)
Innermost ==
  stack # <<>> =>
    /\ Top.at = "prepare" => /\ Pending = {}
                             /\ Transfers # {} => Transfers = {Top.parent}
                             /\ \/ Top.kind = "acceptance"
                                \/ \A p \in Transfers : lineage[p].continuation = d0
    /\ Top.at = "accepting" /\ reply = "answered" =>
         /\ Pending = {}
         /\ \E d \in Dispatch : kind[d] = "acceptance" /\ sess[d] = candidate
    /\ Top.at \in {"plan", "adopt"} => Pending = {} /\ candidate \in accepted
    /\ Top.at = "adopt" => LET c == lineage[d0].continuation
                           IN  op[c] = "unplanned" /\ \A i \in 1 .. Len(stack) : stack[i].dispatch # c

-----------------------------------------------------------------------------
(* The rows.                                                                *)

Rows ==
  /\ \A d \in Dispatch :
       /\ op[d] \in {"unplanned", "planned"} => claim[d] = "none"
       /\ answer[d] # "none" => op[d] = "confirmed"
       /\ processing[d] = "pending" => op[d] = "confirmed" /\ kind[d] \in Wrapped
       /\ op[d] = "confirmed" /\ kind[d] \in Wrapped /\ d \notin published => processing[d] = "pending"
  /\ \A d, e \in Consumed \cap Unresolved : d = e

InProgress ==
  \A d \in Dispatch : op[d] = "in_progress" =>
    /\ Pending = {}
    /\ host = "up" => stack # <<>> /\ d0 = d /\ Top.at \in Turn

Lineages ==
  /\ \A p \in Dispatch :
       LET c == lineage[p].continuation IN
       /\ lineage[p].state \in {"none", "acceptance-pending"} <=> c = None
       /\ c # None => /\ lineage[p].successor \in accepted
                      /\ op[c] \in Sent => sess[c] = lineage[p].successor
                      /\ \A q \in Dispatch : lineage[q].continuation = c => q = p
  /\ CompletedTransferContinued

IInv ==
  /\ TypeOK /\ Nesting /\ Calls /\ Innermost
  /\ Rows /\ InProgress /\ Lineages /\ TransferExclusive

-----------------------------------------------------------------------------
(* What the operations on the stack do to its calls.                        *)

LEMMA FrameMoved ==
  ASSUME NEW f \in Frame, NEW step \in Steps
  PROVE  /\ [f EXCEPT !.at = step] \in Frame
         /\ [f EXCEPT !.at = step].at = step
         /\ [f EXCEPT !.at = step].kind = f.kind
         /\ [f EXCEPT !.at = step].dispatch = f.dispatch
         /\ [f EXCEPT !.at = step].parent = f.parent
BY SMT DEF Frame

LEMMA FrameKinds ==
  ASSUME NEW f \in Frame
  PROVE  /\ f.kind \in {"work", "continuation", "acceptance", "drain", "host"}
         /\ f.at \in Steps
         /\ f.kind # "host" => f.dispatch \in Dispatch
         /\ f.kind = "host" => f.dispatch = None
         /\ f.parent \in Dispatch \cup {None}
BY SMT DEF Frame, Callers, Kinds, Wrapped

LEMMA TopFrame ==
  ASSUME TypeOK, stack # <<>>
  PROVE  Len(stack) \in Nat \ {0} /\ Top \in Frame /\ stack \in Seq(Frame)
BY SMT DEF TypeOK, Top

LEMMA GotoFrames ==
  ASSUME TypeOK, stack # <<>>, NEW step \in Steps, Goto(step)
  PROVE  /\ stack' \in Seq(Frame) /\ Len(stack') = Len(stack) /\ stack' # <<>>
         /\ \A i \in 1 .. Len(stack) - 1 : stack'[i] = stack[i]
         /\ stack'[Len(stack)] = Top' /\ Top' \in Frame
         /\ Top'.at = step /\ Top'.kind = Top.kind /\ Top'.dispatch = d0 /\ Top'.parent = Top.parent
         /\ reply' = reply
<1> DEFINE g == [Top EXCEPT !.at = step]
<1>1. Len(stack) \in Nat \ {0} /\ Top \in Frame /\ stack \in Seq(Frame)
  BY TopFrame
<1>2. g \in Frame /\ g.at = step /\ g.kind = Top.kind /\ g.dispatch = d0 /\ g.parent = Top.parent
  BY <1>1, FrameMoved DEF d0
<1>3. stack' = [stack EXCEPT ![Len(stack)] = g]
  BY DEF Goto, Top
<1> HIDE DEF g
<1>4. /\ stack' \in Seq(Frame) /\ Len(stack') = Len(stack)
      /\ \A i \in 1 .. Len(stack) - 1 : stack'[i] = stack[i]
      /\ stack'[Len(stack)] = g
  BY <1>1, <1>2, <1>3, SMT
<1>5. stack' # <<>> /\ Top' = g
  BY <1>1, <1>4, SMT DEF Top
<1> QED
  BY <1>2, <1>4, <1>5 DEF Goto

LEMMA CallFrames ==
  ASSUME TypeOK, stack # <<>>, NEW returnTo \in Steps, NEW d, NEW k, NEW parent, NEW step,
         [dispatch |-> d, kind |-> k, parent |-> parent, at |-> step] \in Frame,
         Call(returnTo, d, k, parent, step)
  PROVE  /\ stack' \in Seq(Frame) /\ Len(stack') = Len(stack) + 1 /\ stack' # <<>>
         /\ \A i \in 1 .. Len(stack) - 1 : stack'[i] = stack[i]
         /\ stack'[Len(stack)] \in Frame
         /\ stack'[Len(stack)].at = returnTo /\ stack'[Len(stack)].kind = Top.kind
         /\ stack'[Len(stack)].dispatch = d0 /\ stack'[Len(stack)].parent = Top.parent
         /\ stack'[Len(stack) + 1] = Top'
         /\ Top' = [dispatch |-> d, kind |-> k, parent |-> parent, at |-> step]
         /\ reply' = reply
<1> DEFINE g == [Top EXCEPT !.at = returnTo]
           f == [dispatch |-> d, kind |-> k, parent |-> parent, at |-> step]
<1>1. Len(stack) \in Nat \ {0} /\ Top \in Frame /\ stack \in Seq(Frame)
  BY TopFrame
<1>2. g \in Frame /\ g.at = returnTo /\ g.kind = Top.kind /\ g.dispatch = d0 /\ g.parent = Top.parent
  BY <1>1, FrameMoved DEF d0
<1>3. stack' = Append([stack EXCEPT ![Len(stack)] = g], f) /\ f \in Frame
  BY DEF Call, Top
<1> HIDE DEF g, f
<1>4. /\ stack' \in Seq(Frame) /\ Len(stack') = Len(stack) + 1
      /\ \A i \in 1 .. Len(stack) - 1 : stack'[i] = stack[i]
      /\ stack'[Len(stack)] = g /\ stack'[Len(stack) + 1] = f
  BY <1>1, <1>2, <1>3, SMT
<1>5. stack' # <<>> /\ Top' = f
  BY <1>1, <1>4, SMT DEF Top
<1> QED
  BY <1>2, <1>4, <1>5 DEF Call, f

LEMMA FrontFrames ==
  ASSUME NEW s \in Seq(Frame), NEW n \in Nat, n <= Len(s)
  PROVE  /\ SubSeq(s, 1, n) \in Seq(Frame) /\ Len(SubSeq(s, 1, n)) = n
         /\ \A i \in 1 .. n : SubSeq(s, 1, n)[i] = s[i]
<1>1. \A i \in 1 .. n : s[i] \in Frame
  BY SMT
<1>2. SubSeq(s, 1, n) \in Seq(Frame)
  BY <1>1, SMT
<1>3. Len(SubSeq(s, 1, n)) = n
  BY SMT
<1>4. \A i \in 1 .. n : SubSeq(s, 1, n)[i] = s[i]
  BY SMT
<1> QED
  BY <1>2, <1>3, <1>4

LEMMA ReturnFrames ==
  ASSUME TypeOK, stack # <<>>, NEW how, Return(how)
  PROVE  /\ stack' \in Seq(Frame) /\ Len(stack') = Len(stack) - 1 /\ reply' = how
         /\ \A i \in 1 .. Len(stack) - 1 : stack'[i] = stack[i]
         /\ (stack' = <<>>) <=> (Len(stack) = 1)
<1>0. Len(stack) \in Nat \ {0} /\ stack \in Seq(Frame)
  BY TopFrame
<1>1. Len(stack) - 1 \in Nat /\ Len(stack) - 1 <= Len(stack)
  BY <1>0, SMT
<1>2. stack' = SubSeq(stack, 1, Len(stack) - 1) /\ reply' = how
  BY DEF Return
<1>3. /\ stack' \in Seq(Frame) /\ Len(stack') = Len(stack) - 1
      /\ \A i \in 1 .. Len(stack) - 1 : stack'[i] = stack[i]
  BY <1>0, <1>1, <1>2, FrontFrames
<1>4. (stack' = <<>>) <=> (Len(stack') = 0)
  BY <1>3, SMT
<1> QED
  BY <1>0, <1>2, <1>3, <1>4, SMT

(* The frame below a drained one becomes the innermost, and rethrows.       *)
LEMMA ThrowFrames ==
  ASSUME TypeOK, stack # <<>>, Len(stack) > 1, Top.kind = "drain", PostThrows
  PROVE  LET n == Len(stack) - 1 IN
         /\ stack' \in Seq(Frame) /\ Len(stack') = n /\ stack' # <<>> /\ reply' = reply
         /\ \A i \in 1 .. n - 1 : stack'[i] = stack[i]
         /\ stack'[n] = Top' /\ Top'.at = "threw" /\ Top'.kind = stack[n].kind
         /\ Top'.dispatch = stack[n].dispatch /\ Top'.parent = stack[n].parent
<1> DEFINE n == Len(stack) - 1
           rest == SubSeq(stack, 1, n)
           g == [stack[n] EXCEPT !.at = "threw"]
<1>0. Len(stack) \in Nat \ {0} /\ stack \in Seq(Frame)
  BY TopFrame
<1>1. Len(stack) \in Nat \ {0} /\ stack \in Seq(Frame) /\ n \in Nat \ {0}
  <2>1. \A k \in Nat \ {0} : k > 1 => k - 1 \in Nat \ {0}
    BY SMT
  <2> QED
    BY <1>0, <2>1
<1>2. stack[n] \in Frame
  BY <1>1, SMT
<1>3. g \in Frame /\ g.at = "threw" /\ g.kind = stack[n].kind /\ g.dispatch = stack[n].dispatch
      /\ g.parent = stack[n].parent
  BY <1>2, FrameMoved DEF Steps
<1>4. stack' = [rest EXCEPT ![n].at = "threw"] /\ reply' = reply
  BY DEF PostThrows
<1>5. rest \in Seq(Frame) /\ Len(rest) = n /\ \A i \in 1 .. n : rest[i] = stack[i]
  <2>1. n <= Len(stack)
    BY <1>1, SMT
  <2> QED
    BY <1>1, <2>1, FrontFrames
<1> HIDE DEF rest
<1>6. stack' = [rest EXCEPT ![n] = g]
  <2>1. rest[n] = stack[n]
    BY <1>1, <1>5, SMT
  <2>2. stack' = [rest EXCEPT ![n] = [rest[n] EXCEPT !.at = "threw"]]
    BY <1>4
  <2> QED
    BY <2>1, <2>2
<1> HIDE DEF g
<1>7. /\ stack' \in Seq(Frame) /\ Len(stack') = n
      /\ \A i \in 1 .. n - 1 : stack'[i] = stack[i]
      /\ stack'[n] = g
  BY <1>1, <1>3, <1>5, <1>6, SMT
<1>8. stack' # <<>> /\ Top' = g
  BY <1>1, <1>7, SMT DEF Top
<1> QED
  BY <1>3, <1>4, <1>7, <1>8

-----------------------------------------------------------------------------
(* Calls that wait are not disturbed by a step of the innermost one.        *)

Waiting == {"admission", "accepting", "continuing"}

(* What a step leaves of an operation that is not its own.                  *)
Kept(d) ==
  /\ op'[d] = op[d] /\ kind'[d] = kind[d] /\ processing'[d] = processing[d]
  /\ d \in published => d \in published'
  /\ lineage[d].state = "acceptance-pending" => lineage'[d].state = "acceptance-pending"
  /\ \A p \in Dispatch : (lineage'[p].continuation = d) <=> (lineage[p].continuation = d)

OthersKept == \A i \in 1 .. Len(stack) : stack[i].dispatch \in Dispatch \ {d0} => Kept(stack[i].dispatch)

LEMMA Undisturbed ==
  ASSUME NEW f \in Frame, Holds(f), f.at \in Waiting,
         f.kind = "continuation" => f.at # "admission",
         f.kind # "host" => Kept(f.dispatch)
  PROVE  Holds(f)'
<1>1. f.kind \in {"work", "continuation", "acceptance", "drain", "host"} /\ (f.kind # "host" => f.dispatch \in Dispatch)
  BY FrameKinds
<1>2. Located(f)'
  BY DEF Holds, Located
<1>3. Journalled(f)'
  BY <1>1, SMT DEF Holds, Journalled, Located, Kept, Waiting, Turn, Late, Unsettled, Handing, Early
<1>4. Processed(f)'
  BY <1>1, SMT DEF Holds, Processed, Kept, Waiting, Turn, Late, Unsettled, Handing
<1>5. Inherited(f)'
  BY <1>1, SMT DEF Holds, Inherited, Kept, Waiting
<1> QED
  BY <1>2, <1>3, <1>4, <1>5 DEF Holds

LEMMA HoldsThere ==
  ASSUME NEW i, NEW f, stack'[i] = f, Holds(f)'
  PROVE  Holds(stack[i])'
BY DEF Holds, Located, Journalled, Processed, Inherited

(* A call below the innermost one waits, and keeps what it has.             *)
LEMMA BelowHolds ==
  ASSUME IInv, NEW i \in 1 .. Len(stack) - 1, OthersKept, stack'[i] = stack[i]
  PROVE  Holds(stack[i])'
<1>1. stack \in Seq(Frame) /\ Len(stack) \in Nat
  BY SMT DEF IInv, TypeOK
<1>2. i \in 1 .. Len(stack) /\ i # Len(stack) /\ Len(stack) \in 1 .. Len(stack)
  BY <1>1, SMT
<1>3. PICK f : f = stack[i]
  OBVIOUS
<1>4. f \in Frame /\ Holds(f)
  <2>1. Holds(stack[i])
    BY <1>2 DEF IInv, Calls
  <2> QED
    BY <1>1, <1>2, <1>3, <2>1 DEF Holds, Located, Journalled, Processed, Inherited
<1>5. f.at \in Waiting
  BY <1>3 DEF IInv, Nesting, Waits, Waiting
<1>6. f.kind = "continuation" => f.at # "admission"
  BY <1>2, <1>3 DEF IInv, Calls
<1>7. f.kind # "host" => Kept(f.dispatch)
  <2>1. f.dispatch # d0
    BY <1>2, <1>3 DEF IInv, Nesting, d0, Top
  <2> QED
    BY <1>2, <1>3, <1>4, <2>1, FrameKinds DEF OthersKept
<1>8. Holds(f)'
  BY <1>4, <1>5, <1>6, <1>7, Undisturbed
<1> QED
  BY <1>3, <1>8, HoldsThere

-----------------------------------------------------------------------------
(* What a move of the stack keeps.                                          *)

LEMMA GotoStep ==
  ASSUME IInv, stack # <<>>, NEW step \in Steps, Goto(step), UNCHANGED host, OthersKept,
         step # "admission", Holds(Top)'
  PROVE  /\ Nesting' /\ Calls' /\ Len(stack') = Len(stack)
         /\ \A i \in 1 .. Len(stack) : stack'[i].dispatch = stack[i].dispatch
<1> DEFINE n == Len(stack)
<1>1. /\ stack' \in Seq(Frame) /\ Len(stack') = n /\ stack' # <<>>
      /\ \A i \in 1 .. n - 1 : stack'[i] = stack[i]
      /\ stack'[n] = Top' /\ Top'.at = step /\ Top'.kind = Top.kind
      /\ Top'.dispatch = d0 /\ Top'.parent = Top.parent
  BY GotoFrames DEF IInv
<1>2. n \in Nat \ {0}
  BY TopFrame DEF IInv
<1>3. \A i \in 1 .. n : /\ stack'[i].kind = stack[i].kind /\ stack'[i].dispatch = stack[i].dispatch
                        /\ stack'[i].parent = stack[i].parent
  <2> SUFFICES ASSUME NEW i \in 1 .. n
               PROVE  /\ stack'[i].kind = stack[i].kind /\ stack'[i].dispatch = stack[i].dispatch
                      /\ stack'[i].parent = stack[i].parent
    OBVIOUS
  <2>1. CASE i = n
    BY <1>1, <2>1 DEF Top, d0
  <2>2. CASE i # n
    <3>1. i \in 1 .. n - 1
      BY <1>2, <2>2, SMT
    <3> QED
      BY <1>1, <3>1
  <2> QED
    BY <2>1, <2>2
<1>4. Nesting'
  <2>1. host' = "down" => stack' = <<>>
    BY DEF IInv, Nesting
  <2>2. stack'[1].kind \in {"work", "host"}
    <3>1. 1 \in 1 .. n
      BY <1>2, SMT
    <3> QED
      BY <1>3, <3>1 DEF IInv, Nesting
  <2>3. \A i \in 1 .. Len(stack') - 1 : Waits(stack'[i], stack'[i + 1])
    <3> SUFFICES ASSUME NEW i \in 1 .. n - 1 PROVE Waits(stack'[i], stack'[i + 1])
      BY <1>1
    <3>1. i + 1 \in 1 .. n
      BY <1>2, SMT
    <3>2. Waits(stack[i], stack[i + 1])
      BY DEF IInv, Nesting
    <3> QED
      BY <1>1, <1>3, <3>1, <3>2 DEF Waits
  <2>4. \A i, j \in 1 .. Len(stack') : stack'[i].dispatch = stack'[j].dispatch => i = j
    BY <1>1, <1>3 DEF IInv, Nesting
  <2> QED
    BY <2>1, <2>2, <2>3, <2>4 DEF Nesting, Waits
<1>5. Calls'
  <2> SUFFICES ASSUME NEW i \in 1 .. n
               PROVE  /\ Holds(stack[i])'
                      /\ stack'[i].kind = "continuation" /\ stack'[i].at = "admission" => i = n
    BY <1>1 DEF Calls
  <2>1. CASE i = n
    <3>1. stack'[i] = Top' /\ Holds(Top)'
      BY <1>1, <2>1
    <3>2. PICK f : f = Top'
      OBVIOUS
    <3>3. Holds(f)'
      BY <3>1, <3>2 DEF Holds, Located, Journalled, Processed, Inherited
    <3> QED
      BY <2>1, <3>1, <3>2, <3>3, HoldsThere
  <2>2. CASE i # n
    <3>1. i \in 1 .. n - 1
      BY <1>2, <2>2, SMT
    <3> QED
      BY <1>1, <2>2, <3>1, BelowHolds DEF IInv, Calls
  <2> QED
    BY <2>1, <2>2
<1> QED
  BY <1>1, <1>3, <1>4, <1>5

LEMMA ReturnStep ==
  ASSUME IInv, stack # <<>>, NEW how, Return(how), UNCHANGED host, OthersKept
  PROVE  /\ Nesting' /\ Calls'
         /\ stack' # <<>> => Top'.at \in Waiting /\ (Top'.at = "accepting" => Top.kind = "acceptance")
         /\ how # "answered" => Innermost'
<1> DEFINE n == Len(stack) - 1
<1>1. /\ stack' \in Seq(Frame) /\ Len(stack') = n /\ reply' = how
      /\ \A i \in 1 .. n : stack'[i] = stack[i]
      /\ (stack' = <<>>) <=> (Len(stack) = 1)
  BY ReturnFrames DEF IInv
<1>2. Len(stack) \in Nat \ {0} /\ n \in Nat /\ n < Len(stack) /\ (Len(stack) # 1 => n \in 1 .. n)
  <2>1. Len(stack) \in Nat \ {0}
    BY TopFrame DEF IInv
  <2>2. \A k \in Nat \ {0} : k - 1 \in Nat /\ k - 1 < k /\ (k # 1 => k - 1 \in 1 .. k - 1)
    BY SMT
  <2> QED
    BY <2>1, <2>2
<1>3. \A i \in 1 .. n : i \in 1 .. Len(stack)
  BY <1>2, SMT
<1>4. Nesting'
  <2>1. stack' # <<>> => stack'[1].kind \in {"work", "host"}
    <3>1. Len(stack) # 1 => 1 \in 1 .. n
      BY <1>2, SMT
    <3> QED
      BY <1>1, <3>1 DEF IInv, Nesting
  <2>2. \A i \in 1 .. Len(stack') - 1 : Waits(stack'[i], stack'[i + 1])
    <3> SUFFICES ASSUME NEW i \in 1 .. n - 1 PROVE Waits(stack'[i], stack'[i + 1])
      BY <1>1
    <3>1. i \in 1 .. n /\ i + 1 \in 1 .. n
      BY <1>2, SMT
    <3>2. Waits(stack[i], stack[i + 1])
      BY <3>1 DEF IInv, Nesting
    <3> QED
      BY <1>1, <3>1, <3>2
  <2>3. \A i, j \in 1 .. Len(stack') : stack'[i].dispatch = stack'[j].dispatch => i = j
    BY <1>1, <1>3 DEF IInv, Nesting
  <2> QED
    BY <2>1, <2>2, <2>3 DEF IInv, Nesting, Waits
<1>5. Calls'
  <2> SUFFICES ASSUME NEW i \in 1 .. n
               PROVE  /\ Holds(stack[i])'
                      /\ ~ (stack'[i].kind = "continuation" /\ stack'[i].at = "admission")
    BY <1>1 DEF Calls
  <2>1. i # Len(stack)
    BY <1>2, SMT
  <2> QED
    BY <1>1, <1>3, <2>1, BelowHolds DEF IInv, Calls
<1>6. stack' # <<>> => Top'.at \in Waiting /\ (Top'.at = "accepting" => Top.kind = "acceptance")
  <2> SUFFICES ASSUME stack' # <<>>
               PROVE  Top'.at \in Waiting /\ (Top'.at = "accepting" => Top.kind = "acceptance")
    OBVIOUS
  <2>1. n \in 1 .. n /\ n + 1 = Len(stack) /\ Top' = stack[n] /\ Top = stack[n + 1]
    BY <1>1, <1>2, SMT DEF Top
  <2>2. Waits(stack[n], stack[n + 1])
    BY <2>1 DEF IInv, Nesting
  <2> QED
    BY <2>1, <2>2 DEF Waits, Waiting
<1>7. how # "answered" => Innermost'
  BY <1>1, <1>6 DEF Innermost, Waiting
<1> QED
  BY <1>4, <1>5, <1>6, <1>7

LEMMA Positions ==
  \A m \in Nat : /\ \A i \in 1 .. m : i # m => i \in 1 .. m - 1
                 /\ \A i \in 1 .. m - 1 : i \in 1 .. m /\ i # m
BY SMT

(* An exception of a drained dispatch ends the call that drains it.         *)
LEMMA DrainThrowStep ==
  ASSUME IInv, stack # <<>>, Top.kind = "drain", PostThrows, UNCHANGED host,
         \A d \in Dispatch : Kept(d)
  PROVE  Nesting' /\ Calls' /\ Innermost' /\ stack' \in Seq(Frame)
<1> DEFINE n == Len(stack) - 1
<1>1. Len(stack) \in Nat \ {0} /\ stack \in Seq(Frame)
  BY TopFrame DEF IInv
<1>2. Len(stack) # 1
  BY DEF IInv, Nesting, Top
<1>3. n \in Nat \ {0} /\ n \in 1 .. n /\ n \in 1 .. Len(stack) /\ n + 1 = Len(stack) /\ Len(stack) > 1
  <2>1. \A k \in Nat \ {0} : k # 1 => /\ k - 1 \in Nat \ {0} /\ k - 1 \in 1 .. k - 1
                                      /\ k - 1 \in 1 .. k /\ k - 1 + 1 = k /\ k > 1
    BY SMT
  <2> QED
    BY <1>1, <1>2, <2>1
<1>4. /\ stack' \in Seq(Frame) /\ Len(stack') = n /\ stack' # <<>>
      /\ \A i \in 1 .. n - 1 : stack'[i] = stack[i]
      /\ stack'[n] = Top' /\ Top'.at = "threw" /\ Top'.kind = stack[n].kind
      /\ Top'.dispatch = stack[n].dispatch /\ Top'.parent = stack[n].parent
  BY <1>3, ThrowFrames DEF IInv
<1>5. Waits(stack[n], Top)
  BY <1>3 DEF IInv, Nesting, Top
<1>6. stack[n].kind \in Wrapped /\ stack[n].at = "admission"
  BY <1>5 DEF Waits
<1>7. \A i \in 1 .. n : /\ stack'[i].kind = stack[i].kind /\ stack'[i].dispatch = stack[i].dispatch
                        /\ stack'[i].parent = stack[i].parent
  <2> SUFFICES ASSUME NEW i \in 1 .. n
               PROVE  /\ stack'[i].kind = stack[i].kind /\ stack'[i].dispatch = stack[i].dispatch
                      /\ stack'[i].parent = stack[i].parent
    OBVIOUS
  <2>1. CASE i = n
    BY <1>4, <2>1
  <2>2. CASE i # n
    <3>1. i \in 1 .. n - 1
      BY <1>3, <2>2, Positions
    <3> QED
      BY <1>4, <3>1
  <2> QED
    BY <2>1, <2>2
<1>8. \A i \in 1 .. n : i \in 1 .. Len(stack) /\ i # Len(stack)
  BY <1>1, Positions
<1>9. Nesting'
  <2>1. stack'[1].kind \in {"work", "host"}
    <3>1. 1 \in 1 .. n
      BY <1>3, SMT
    <3> QED
      BY <1>7, <3>1 DEF IInv, Nesting
  <2>2. \A i \in 1 .. Len(stack') - 1 : Waits(stack'[i], stack'[i + 1])
    <3> SUFFICES ASSUME NEW i \in 1 .. n - 1 PROVE Waits(stack'[i], stack'[i + 1])
      BY <1>4
    <3>1. i + 1 \in 1 .. n /\ i \in 1 .. n
      BY <1>3, SMT
    <3>2. Waits(stack[i], stack[i + 1])
      BY <3>1 DEF IInv, Nesting
    <3> QED
      BY <1>4, <1>7, <3>1, <3>2 DEF Waits
  <2>3. \A i, j \in 1 .. Len(stack') : stack'[i].dispatch = stack'[j].dispatch => i = j
    BY <1>4, <1>7, <1>8 DEF IInv, Nesting
  <2> QED
    BY <1>4, <2>1, <2>2, <2>3 DEF IInv, Nesting, Waits
<1>10. Calls'
  <2> SUFFICES ASSUME NEW i \in 1 .. n
               PROVE  /\ Holds(stack[i])'
                      /\ stack'[i].kind = "continuation" /\ stack'[i].at = "admission" => i = n
    BY <1>4 DEF Calls
  <2>1. CASE i = n
    <3>1. PICK f : f = stack'[n]
      OBVIOUS
    <3>2. f.at = "threw" /\ f.kind = stack[n].kind /\ f.dispatch = stack[n].dispatch /\ f.parent = stack[n].parent
      BY <1>4, <3>1
    <3>3. Holds(stack[n]) /\ f.dispatch \in Dispatch
      <4>1. stack[n] \in Frame
        BY <1>1, <1>3, SMT
      <4> QED
        BY <1>3, <1>6, <3>2, <4>1, FrameKinds DEF IInv, Calls, Wrapped
    <3>4. Kept(f.dispatch)
      BY <3>3
    <3>5. Holds(f)'
      BY <1>6, <3>2, <3>3, <3>4, SMT DEF Holds, Located, Journalled, Processed, Inherited, Kept,
         Wrapped, Early, Late, Turn, Unsettled, Handing
    <3> QED
      BY <2>1, <3>1, <3>5, HoldsThere
  <2>2. CASE i # n
    <3>1. i \in 1 .. n - 1 /\ OthersKept
      BY <1>3, <2>2, Positions DEF OthersKept
    <3> QED
      BY <1>4, <1>8, <2>2, <3>1, BelowHolds DEF IInv, Calls
  <2> QED
    BY <2>1, <2>2
<1>11. Innermost'
  BY <1>4 DEF Innermost
<1> QED
  BY <1>4, <1>9, <1>10, <1>11

(* A call begins under the one that makes it.                               *)
LEMMA CallStep ==
  ASSUME IInv, stack # <<>>, UNCHANGED host, \A d \in Dispatch : Kept(d),
         NEW returnTo \in Waiting, NEW d, NEW k, NEW parent, NEW step,
         Call(returnTo, d, k, parent, step),
         NEW g \in Frame, g = [dispatch |-> d, kind |-> k, parent |-> parent, at |-> step],
         NEW f \in Frame, f.at = returnTo, f.kind = Top.kind, f.dispatch = d0, f.parent = Top.parent,
         Waits(f, g), Holds(f)', Holds(g)',
         ~ (f.kind = "continuation" /\ f.at = "admission"),
         \A i \in 1 .. Len(stack) : stack[i].dispatch # d
  PROVE  Nesting' /\ Calls' /\ Top' = g /\ stack' \in Seq(Frame) /\ stack' # <<>>
<1> DEFINE n == Len(stack)
<1>1. n \in Nat \ {0} /\ stack \in Seq(Frame) /\ returnTo \in Steps
  BY TopFrame DEF IInv, Waiting, Steps
<1>2. /\ stack' \in Seq(Frame) /\ Len(stack') = n + 1 /\ stack' # <<>>
      /\ \A i \in 1 .. n - 1 : stack'[i] = stack[i]
      /\ stack'[n] \in Frame
      /\ stack'[n].at = f.at /\ stack'[n].kind = f.kind
      /\ stack'[n].dispatch = f.dispatch /\ stack'[n].parent = f.parent
      /\ stack'[n + 1] = g /\ Top' = g
  <2>1. [dispatch |-> d, kind |-> k, parent |-> parent, at |-> step] \in Frame
    OBVIOUS
  <2> QED
    BY <1>1, <2>1, CallFrames DEF IInv
<1>3. g.dispatch = d
  OBVIOUS
<1>4. \A i \in 1 .. n : /\ stack'[i].kind = stack[i].kind /\ stack'[i].dispatch = stack[i].dispatch
                        /\ stack'[i].parent = stack[i].parent
  <2> SUFFICES ASSUME NEW i \in 1 .. n
               PROVE  /\ stack'[i].kind = stack[i].kind /\ stack'[i].dispatch = stack[i].dispatch
                      /\ stack'[i].parent = stack[i].parent
    OBVIOUS
  <2>1. CASE i = n
    BY <1>2, <2>1 DEF Top, d0
  <2>2. CASE i # n
    <3>1. i \in 1 .. n - 1
      BY <1>1, <2>2, SMT
    <3> QED
      BY <1>2, <3>1
  <2> QED
    BY <2>1, <2>2
<1>5. \A i \in 1 .. n + 1 : i \in 1 .. n \/ i = n + 1
  BY <1>1, SMT
<1>6. Nesting'
  <2>1. stack'[1].kind \in {"work", "host"}
    <3>1. 1 \in 1 .. n
      BY <1>1, SMT
    <3> QED
      BY <1>4, <3>1 DEF IInv, Nesting
  <2>2. \A i \in 1 .. Len(stack') - 1 : Waits(stack'[i], stack'[i + 1])
    <3> SUFFICES ASSUME NEW i \in 1 .. n PROVE Waits(stack'[i], stack'[i + 1])
      <4>1. Len(stack') - 1 = n
        BY <1>1, <1>2, SMT
      <4> QED
        BY <4>1
    <3>1. CASE i = n
      BY <1>2, <3>1 DEF Waits
    <3>2. CASE i # n
      <4>1. i \in 1 .. n - 1 /\ i + 1 \in 1 .. n
        BY <1>1, <3>2, SMT
      <4>2. Waits(stack[i], stack[i + 1])
        BY <4>1 DEF IInv, Nesting
      <4> QED
        BY <1>2, <1>4, <4>1, <4>2 DEF Waits
    <3> QED
      BY <3>1, <3>2
  <2>3. \A i, j \in 1 .. Len(stack') : stack'[i].dispatch = stack'[j].dispatch => i = j
    BY <1>2, <1>3, <1>4, <1>5 DEF IInv, Nesting
  <2> QED
    BY <1>2, <2>1, <2>2, <2>3 DEF IInv, Nesting, Waits
<1>7. Calls'
  <2> SUFFICES ASSUME NEW i \in 1 .. n + 1
               PROVE  /\ Holds(stack[i])'
                      /\ stack'[i].kind = "continuation" /\ stack'[i].at = "admission" => i = n + 1
    BY <1>2 DEF Calls
  <2>1. CASE i = n + 1
    BY <1>2, <2>1, HoldsThere
  <2>2. CASE i = n
    BY <1>2, <2>2 DEF Holds, Located, Journalled, Processed, Inherited
  <2>3. CASE i # n /\ i # n + 1
    <3>1. i \in 1 .. n - 1 /\ i \in 1 .. n /\ OthersKept
      BY <1>1, <2>3, SMT DEF OthersKept
    <3> QED
      BY <1>2, <2>3, <3>1, BelowHolds DEF IInv, Calls
  <2> QED
    BY <2>1, <2>2, <2>3
<1> QED
  BY <1>2, <1>6, <1>7

(* A first call, and none.                                                  *)
LEMMA FirstCall ==
  ASSUME NEW f \in Frame, stack' = <<f>>, host' # "down", f.kind \in {"work", "host"}, Holds(f)'
  PROVE  Nesting' /\ Calls' /\ Top' = f /\ stack' \in Seq(Frame) /\ stack' # <<>>
<1>1. stack' \in Seq(Frame) /\ Len(stack') = 1 /\ stack'[1] = f /\ stack' # <<>>
  BY SMT
<1>2. \A i \in 1 .. 1 : i = 1
  BY SMT
<1>3. ~ \E i \in 1 .. 1 - 1 : TRUE
  BY SMT
<1>4. Nesting'
  BY <1>1, <1>2, <1>3 DEF Nesting
<1>5. Calls'
  BY <1>1, <1>2, HoldsThere DEF Calls
<1> QED
  BY <1>1, <1>4, <1>5 DEF Top

LEMMA NoCall ==
  ASSUME stack' = <<>>
  PROVE  Nesting' /\ Calls' /\ Innermost' /\ stack' \in Seq(Frame)
<1>1. Len(stack') = 0 /\ stack' \in Seq(Frame)
  BY SMT
<1>2. ~ (\E i \in 1 .. 0 : TRUE) /\ ~ (\E i \in 1 .. 0 - 1 : TRUE)
  BY SMT
<1> QED
  BY <1>1, <1>2 DEF Nesting, Calls, Innermost

-----------------------------------------------------------------------------
(* The innermost call, and steps that leave the rows alone.                 *)

LEMMA AtTop ==
  ASSUME IInv, NEW step, At(step)
  PROVE  /\ stack # <<>> /\ Top.at = step /\ Top.dispatch = d0 /\ host = "up"
         /\ Top \in Frame /\ stack \in Seq(Frame) /\ Len(stack) \in 1 .. Len(stack) /\ Holds(Top)
         /\ Top.kind \in {"work", "continuation", "acceptance", "drain", "host"}
         /\ Top.parent \in Dispatch \cup {None}
         /\ IF Top.kind = "host" THEN d0 = None ELSE d0 \in Dispatch
         /\ step \notin {"transfer", "accepting", "switch"} => Top.kind # "host"
         /\ step \notin Turn => \A d \in Dispatch : op[d] # "in_progress"
<1>1. stack # <<>> /\ Top.at = step /\ Top.dispatch = d0
  BY DEF At, d0
<1>2. Len(stack) \in Nat \ {0} /\ Top \in Frame /\ stack \in Seq(Frame)
  BY <1>1, TopFrame DEF IInv
<1>3. Len(stack) \in 1 .. Len(stack)
  <2>1. \A k \in Nat \ {0} : k \in 1 .. k
    BY SMT
  <2> QED
    BY <1>2, <2>1
<1>4. host = "up"
  BY <1>1 DEF IInv, Nesting, TypeOK
<1>5. Holds(Top)
  BY <1>3 DEF IInv, Calls, Top
<1>6. step \notin {"transfer", "accepting", "switch"} => Top.kind # "host"
  BY <1>1, <1>5 DEF Holds, Located
<1>7. step \notin Turn => \A d \in Dispatch : op[d] # "in_progress"
  BY <1>1, <1>4 DEF IInv, InProgress
<1> QED
  BY <1>1, <1>2, <1>3, <1>4, <1>5, <1>6, <1>7, FrameKinds

SameRows == UNCHANGED <<op, kind, sess, claim, answer, processing, published,
                        lineage, lease, accepted, host>>

LEMMA AllKept ==
  ASSUME UNCHANGED <<op, kind, processing, published, lineage>>
  PROVE  OthersKept /\ \A d \in Dispatch : Kept(d)
BY DEF OthersKept, Kept

LEMMA RowsKept ==
  ASSUME IInv, SameRows, \A d \in Dispatch : op[d] # "in_progress"
  PROVE  Rows' /\ InProgress' /\ Lineages' /\ TransferExclusive'
<1>1. Rows'
  BY DEF SameRows, IInv, Rows, Consumed, Unresolved, Wrapped
<1>2. InProgress' /\ TransferExclusive'
  BY DEF SameRows, InProgress, TransferExclusive
<1>3. Lineages'
  BY DEF SameRows, IInv, Lineages, CompletedTransferContinued
<1> QED
  BY <1>1, <1>2, <1>3

LEMMA SameType ==
  ASSUME IInv, SameRows, stack' \in Seq(Frame),
         current' \in Session \cup {None}, candidate' \in Session \cup {None}
  PROVE  TypeOK'
BY DEF SameRows, IInv, TypeOK

(* A call that ends with an exception, of whatever kind.                    *)
LEMMA ThrowStep ==
  ASSUME IInv, NEW step \in Steps \ Turn, At(step), SameRows, UNCHANGED <<current, candidate>>,
         NEW how, how # "answered", Return(how)
  PROVE  IInv'
<1>1. stack # <<>> /\ \A d \in Dispatch : op[d] # "in_progress"
  BY AtTop
<1>2. Nesting' /\ Calls' /\ Innermost'
  BY <1>1, AllKept, ReturnStep DEF SameRows
<1>3. TypeOK'
  BY <1>1, ReturnFrames, SameType DEF IInv, TypeOK
<1>4. Rows' /\ InProgress' /\ Lineages' /\ TransferExclusive'
  BY <1>1, RowsKept
<1> QED
  BY <1>2, <1>3, <1>4 DEF IInv

LEMMA PostThrowsStep ==
  ASSUME IInv, NEW step \in Steps \ Turn, At(step), SameRows, UNCHANGED <<current, candidate>>,
         PostThrows
  PROVE  IInv'
<1>1. stack # <<>> /\ \A d \in Dispatch : op[d] # "in_progress"
  BY AtTop
<1>2. CASE Top.kind = "drain"
  <2>1. Nesting' /\ Calls' /\ Innermost' /\ stack' \in Seq(Frame)
    BY <1>1, <1>2, AllKept, DrainThrowStep DEF SameRows
  <2>2. TypeOK'
    BY <2>1, SameType DEF IInv, TypeOK
  <2>3. Rows' /\ InProgress' /\ Lineages' /\ TransferExclusive'
    BY <1>1, RowsKept
  <2> QED
    BY <2>1, <2>2, <2>3 DEF IInv
<1>3. CASE Top.kind = "host"
  <2>1. Return("threw")
    BY <1>3 DEF PostThrows, Throw
  <2> QED
    BY <2>1, ThrowStep
<1>4. CASE Top.kind \notin {"drain", "host"}
  <2>1. Return("isError")
    BY <1>4 DEF PostThrows
  <2> QED
    BY <2>1, ThrowStep
<1> QED
  BY <1>2, <1>3, <1>4

(* The turns and transfers that give up.                                    *)
LEMMA GivingUp ==
  ASSUME IInv,
         \/ RefuseAdmission \/ Rethrow \/ RefuseHandoff \/ FailTransfer \/ FailAcceptance
         \/ FailAccepted \/ RefuseSuccessor
  PROVE  IInv'
<1>1. ASSUME NEW step \in Steps \ Turn, At(step), SameRows, UNCHANGED <<current, candidate>>,
             Throw \/ PostThrows
      PROVE  IInv'
  BY <1>1, ThrowStep, PostThrowsStep DEF Throw
<1>2. CASE RefuseAdmission \/ Rethrow
  BY <1>1, <1>2 DEF RefuseAdmission, Rethrow, SameRows, journal, handoff, machine, transfer, Steps, Turn
<1>3. CASE RefuseHandoff \/ FailTransfer \/ FailAcceptance \/ FailAccepted \/ RefuseSuccessor
  BY <1>1, <1>3 DEF RefuseHandoff, FailTransfer, FailAcceptance, FailAccepted, RefuseSuccessor,
     SameRows, journal, handoff, machine, transfer, Steps, Turn
<1> QED
  BY <1>2, <1>3

-----------------------------------------------------------------------------
(* Calls that begin, and moves of the stack without a row.                  *)

LEMMA BeginningCalls ==
  ASSUME IInv, \/ \E d \in Dispatch : StartWork(d)
               \/ StartTransfer
  PROVE  IInv'
<1>1. stack = <<>> /\ host = "up" /\ SameRows /\ UNCHANGED <<current, candidate>>
  BY DEF StartWork, StartTransfer, SameRows, journal, handoff, machine, transfer
<1>2. \A d \in Dispatch : op[d] # "in_progress"
  BY <1>1 DEF IInv, InProgress
<1>3. PICK f : /\ f \in Frame /\ stack' = <<f>> /\ f.kind \in {"work", "host"} /\ Holds(f)'
               /\ f.at \in {"admission", "transfer"}
  <2>1. ASSUME NEW d \in Dispatch, StartWork(d)
        PROVE  \E f : /\ f \in Frame /\ stack' = <<f>> /\ f.kind \in {"work", "host"} /\ Holds(f)'
                      /\ f.at \in {"admission", "transfer"}
    <3> DEFINE f == [dispatch |-> d, kind |-> "work", parent |-> None, at |-> "admission"]
    <3>1. f \in Frame /\ stack' = <<f>>
      BY <2>1, SMT DEF StartWork, Frame, Callers, Kinds, Wrapped, Steps
    <3>2. op'[d] = "unplanned" /\ \A p \in Dispatch : lineage'[p].continuation # d
      BY <1>1, <2>1 DEF StartWork, Free, SameRows
    <3>3. f.dispatch = d /\ f.kind = "work" /\ f.parent = None /\ f.at = "admission"
      OBVIOUS
    <3> HIDE DEF f
    <3>4. Holds(f)'
      BY <3>2, <3>3, SMT DEF Holds, Located, Journalled, Processed, Inherited, Early, Late, Turn,
         Unsettled, Handing, Wrapped
    <3> QED
      BY <3>1, <3>3, <3>4
  <2>2. ASSUME StartTransfer
        PROVE  \E f : /\ f \in Frame /\ stack' = <<f>> /\ f.kind \in {"work", "host"} /\ Holds(f)'
                      /\ f.at \in {"admission", "transfer"}
    <3> DEFINE f == [dispatch |-> None, kind |-> "host", parent |-> None, at |-> "transfer"]
    <3>1. f \in Frame /\ stack' = <<f>>
      BY <2>2, SMT DEF StartTransfer, Frame, Steps
    <3>3. f.kind = "host" /\ f.at = "transfer"
      OBVIOUS
    <3> HIDE DEF f
    <3>4. Holds(f)'
      BY <3>3, SMT DEF Holds, Located, Journalled, Processed, Inherited, Early, Late, Turn,
         Unsettled, Handing, Wrapped
    <3> QED
      BY <3>1, <3>3, <3>4
  <2> QED
    BY <2>1, <2>2
<1>4. Nesting' /\ Calls' /\ Top' = f /\ stack' \in Seq(Frame)
  BY <1>1, <1>3, FirstCall DEF SameRows
<1>5. Innermost'
  BY <1>3, <1>4 DEF Innermost
<1>6. Rows' /\ InProgress' /\ Lineages' /\ TransferExclusive'
  BY <1>1, <1>2, RowsKept
<1>7. TypeOK'
  BY <1>1, <1>4, SameType DEF IInv, TypeOK
<1> QED
  BY <1>4, <1>5, <1>6, <1>7 DEF IInv

LEMMA DrainPublicationKeeps ==
  ASSUME IInv, NEW d \in Dispatch, DrainPublication(d)
  PROVE  IInv'
<1> DEFINE g == [dispatch |-> d, kind |-> "drain", parent |-> None, at |-> "publish"]
<1>1. /\ At("admission") /\ d \in ToDrain /\ Call("admission", d, "drain", None, "publish")
      /\ SameRows /\ UNCHANGED <<current, candidate>>
  BY DEF DrainPublication, SameRows, journal, handoff, machine, transfer
<1>2. /\ stack # <<>> /\ Top.at = "admission" /\ Top.dispatch = d0 /\ Top \in Frame /\ Holds(Top)
      /\ d0 \in Dispatch /\ \A e \in Dispatch : op[e] # "in_progress"
  BY <1>1, AtTop DEF Turn
<1>3. Top.kind \in Wrapped /\ processing[d] = "pending" /\ op[d] = "confirmed" /\ kind[d] \in Wrapped
  BY <1>1, <1>2 DEF ToDrain, Pending, IInv, Rows
<1>4. Top.kind # "continuation"
  BY <1>1, <1>2, <1>3 DEF Holds, Inherited, ToDrain, Pending
<1>5. g \in Frame /\ g.kind = "drain" /\ g.at = "publish" /\ g.dispatch = d
  BY SMT DEF Frame, Callers, Steps
<1>6. \A i \in 1 .. Len(stack) : stack[i].dispatch # d
  <2> SUFFICES ASSUME NEW i \in 1 .. Len(stack), stack[i].dispatch = d PROVE FALSE
    OBVIOUS
  <2>1. CASE i = Len(stack)
    BY <1>2, <1>3, <2>1 DEF Holds, Journalled, Top
  <2>2. CASE i # Len(stack)
    <3>1. i \in 1 .. Len(stack) - 1
      <4>1. Len(stack) \in Nat
        BY <1>2, TopFrame DEF IInv
      <4> QED
        BY <2>2, <4>1, Positions
    <3>2. stack[i].at \in Waiting
      BY <3>1 DEF IInv, Nesting, Waits, Waiting
    <3>3. Holds(stack[i]) /\ stack[i] \in Frame
      BY DEF IInv, Calls, TypeOK
    <3>4. stack[i].kind # "host"
      BY <3>3, FrameKinds, DispatchAssumption
    <3> QED
      BY <1>3, <3>2, <3>3, <3>4, SMT DEF Holds, Journalled, Processed, Handing, Waiting
  <2> QED
    BY <2>1, <2>2
<1>7. Waits(Top, g)
  BY <1>2, <1>3, <1>5 DEF Waits
<1>8. PICK f : f = Top
  OBVIOUS
<1>9. /\ f \in Frame /\ f.at = "admission" /\ f.kind = Top.kind /\ f.dispatch = d0 /\ f.parent = Top.parent
      /\ f.kind # "continuation"
  BY <1>2, <1>4, <1>8
<1>10. Holds(f)'
  <2>1. Holds(f)
    BY <1>2, <1>8 DEF Holds, Located, Journalled, Processed, Inherited
  <2>2. f.kind # "host" => Kept(f.dispatch)
    BY <1>1, <1>2, <1>9, AllKept DEF SameRows
  <2> QED
    BY <1>9, <2>1, <2>2, Undisturbed DEF Waiting
<1>11. Holds(g)'
  <2>1. op'[d] = "confirmed" /\ kind'[d] \in Wrapped /\ processing'[d] = "pending"
    BY <1>1, <1>3 DEF SameRows
  <2> HIDE DEF g
  <2> QED
    BY <1>5, <2>1, SMT DEF Holds, Located, Journalled, Processed, Inherited, Early, Late, Turn,
       Unsettled, Handing, Wrapped
<1>12. Nesting' /\ Calls' /\ Top' = g /\ stack' \in Seq(Frame)
  <2>1. Waits(f, g)
    BY <1>7, <1>8
  <2>2. \A e \in Dispatch : Kept(e)
    BY <1>1, AllKept DEF SameRows
  <2>3. "admission" \in Waiting /\ host' = host
    BY <1>1 DEF Waiting, SameRows
  <2> QED
    BY <1>1, <1>2, <1>5, <1>6, <1>9, <1>10, <1>11, <2>1, <2>2, <2>3, CallStep
<1>13. Innermost'
  BY <1>5, <1>12 DEF Innermost
<1>14. Rows' /\ InProgress' /\ Lineages' /\ TransferExclusive'
  BY <1>1, <1>2, RowsKept
<1>15. TypeOK'
  BY <1>1, <1>12, SameType DEF IInv, TypeOK
<1> QED
  BY <1>12, <1>13, <1>14, <1>15 DEF IInv

LEMMA OfferHandoffKeeps ==
  ASSUME IInv, NEW d \in Dispatch, NEW s \in Session, OfferHandoff(d, s)
  PROVE  IInv'
<1> DEFINE g == [dispatch |-> d, kind |-> "acceptance", parent |-> d0, at |-> "admission"]
<1>1. /\ At("transfer") /\ d \in Free /\ Call("accepting", d, "acceptance", d0, "admission")
      /\ SameRows /\ current' = current /\ candidate' = s
  BY DEF OfferHandoff, SameRows, journal, handoff, machine
<1>2. /\ stack # <<>> /\ Top.at = "transfer" /\ Top.dispatch = d0 /\ Top \in Frame /\ Holds(Top)
      /\ d0 \in Dispatch \cup {None} /\ \A e \in Dispatch : op[e] # "in_progress"
  BY <1>1, AtTop DEF Turn
<1>3. g \in Frame /\ g.kind = "acceptance" /\ g.at = "admission" /\ g.dispatch = d /\ g.parent = d0
  BY <1>2, SMT DEF Frame, Callers, Kinds, Wrapped, Steps
<1>4. /\ op[d] = "unplanned" /\ \A i \in 1 .. Len(stack) : stack[i].dispatch # d
      /\ \A p \in Dispatch : lineage[p].continuation # d
  BY <1>1 DEF Free
<1>5. PICK f : f = [Top EXCEPT !.at = "accepting"]
  OBVIOUS
<1>6. /\ f \in Frame /\ f.at = "accepting" /\ f.kind = Top.kind /\ f.dispatch = d0 /\ f.parent = Top.parent
  BY <1>2, <1>5, FrameMoved DEF Steps
<1>7. Holds(f)'
  BY <1>1, <1>2, <1>6, SMT DEF SameRows, Holds, Located, Journalled, Processed, Inherited, Early, Late, Turn,
     Unsettled, Handing, Wrapped
<1>8. PICK h : h = g
  OBVIOUS
<1>9. Holds(h)'
  <2>1. op'[d] = "unplanned" /\ \A p \in Dispatch : lineage'[p].continuation # d
    BY <1>1, <1>4 DEF SameRows
  <2>2. h.kind = "acceptance" /\ h.at = "admission" /\ h.dispatch = d
    BY <1>3, <1>8
  <2> HIDE DEF g
  <2> QED
    BY <2>1, <2>2, SMT DEF Holds, Located, Journalled, Processed, Inherited, Early, Late, Turn,
       Unsettled, Handing, Wrapped
<1>10. Nesting' /\ Calls' /\ Top' = h /\ stack' \in Seq(Frame)
  <2>1. Waits(f, h)
    BY <1>3, <1>6, <1>8 DEF Waits
  <2>2. \A e \in Dispatch : Kept(e)
    BY <1>1, AllKept DEF SameRows
  <2>3. "accepting" \in Waiting /\ host' = host
    BY <1>1 DEF Waiting, SameRows
  <2>4. ~ (f.kind = "continuation" /\ f.at = "admission")
    BY <1>6
  <2>5. PICK e : e = d0
    OBVIOUS
  <2>6. Call("accepting", d, "acceptance", e, "admission")
    BY <1>1, <2>5
  <2>7. h \in Frame /\ h = [dispatch |-> d, kind |-> "acceptance", parent |-> e, at |-> "admission"]
    BY <1>3, <1>8, <2>5
  <2> HIDE DEF g
  <2> QED
    BY <1>2, <1>4, <1>6, <1>7, <1>9, <2>1, <2>2, <2>3, <2>4, <2>6, <2>7, CallStep
<1>11. Innermost'
  BY <1>3, <1>8, <1>10 DEF Innermost
<1>12. Rows' /\ InProgress' /\ Lineages' /\ TransferExclusive'
  BY <1>1, <1>2, RowsKept
<1>13. TypeOK'
  BY <1>1, <1>10, SameType DEF IInv, TypeOK
<1> QED
  BY <1>10, <1>11, <1>12, <1>13 DEF IInv

LEMMA AdoptKeeps ==
  ASSUME IInv, adoptValidatedSuccessor
  PROVE  IInv'
<1> DEFINE c == lineage[d0].continuation
           g == [dispatch |-> c, kind |-> "continuation", parent |-> d0, at |-> "admission"]
<1>1. /\ At("adopt") /\ Call("continuing", c, "continuation", d0, "admission")
      /\ SameRows /\ current' = candidate /\ candidate' = candidate
  BY DEF adoptValidatedSuccessor, SameRows, journal, handoff, machine
<1>2. /\ stack # <<>> /\ Top.at = "adopt" /\ Top.dispatch = d0 /\ Top \in Frame /\ Holds(Top)
      /\ d0 \in Dispatch /\ Top.kind # "host" /\ \A e \in Dispatch : op[e] # "in_progress"
  BY <1>1, AtTop DEF Turn
<1>3. /\ c \in Dispatch /\ lineage[d0].successor = candidate /\ Pending = {} /\ op[c] = "unplanned"
      /\ \A i \in 1 .. Len(stack) : stack[i].dispatch # c
  BY <1>2 DEF Holds, Inherited, IInv, Innermost
<1>4. g \in Frame /\ g.kind = "continuation" /\ g.at = "admission" /\ g.dispatch = c /\ g.parent = d0
  BY <1>2, <1>3, SMT DEF Frame, Callers, Kinds, Wrapped, Steps
<1>5. PICK f : f = [Top EXCEPT !.at = "continuing"]
  OBVIOUS
<1>6. /\ f \in Frame /\ f.at = "continuing" /\ f.kind = Top.kind /\ f.dispatch = d0 /\ f.parent = Top.parent
  BY <1>2, <1>5, FrameMoved DEF Steps
<1>7. Holds(f)'
  BY <1>1, <1>2, <1>6, SMT DEF SameRows, Holds, Located, Journalled, Processed, Inherited, Early, Late, Turn,
     Unsettled, Handing, Wrapped
<1>8. PICK e : e = c
  OBVIOUS
<1>9. PICK h : h = g
  OBVIOUS
<1>10. Holds(h)'
  <2>1. /\ op'[e] = "unplanned" /\ Pending' = {} /\ current' = lineage'[d0].successor
        /\ lineage'[d0].continuation = e
    BY <1>1, <1>3, <1>8 DEF SameRows, Pending
  <2>2. h.kind = "continuation" /\ h.at = "admission" /\ h.dispatch = e /\ h.parent = d0
    BY <1>4, <1>8, <1>9
  <2> HIDE DEF g, c
  <2> QED
    BY <1>2, <2>1, <2>2, SMT DEF Holds, Located, Journalled, Processed, Inherited, Early, Late, Turn,
       Unsettled, Handing, Wrapped
<1>11. Nesting' /\ Calls' /\ Top' = h /\ stack' \in Seq(Frame)
  <2>1. Waits(f, h)
    BY <1>4, <1>6, <1>9 DEF Waits
  <2>2. \A q \in Dispatch : Kept(q)
    BY <1>1, AllKept DEF SameRows
  <2>3. "continuing" \in Waiting /\ host' = host
    BY <1>1 DEF Waiting, SameRows
  <2>4. ~ (f.kind = "continuation" /\ f.at = "admission")
    BY <1>6
  <2>5. PICK d : d = d0
    OBVIOUS
  <2>6. Call("continuing", e, "continuation", d, "admission")
    BY <1>1, <1>8, <2>5
  <2>7. h \in Frame /\ h = [dispatch |-> e, kind |-> "continuation", parent |-> d, at |-> "admission"]
    BY <1>4, <1>8, <1>9, <2>5
  <2>8. \A i \in 1 .. Len(stack) : stack[i].dispatch # e
    BY <1>3, <1>8
  <2> HIDE DEF g, c
  <2> QED
    BY <1>2, <1>6, <1>7, <1>10, <2>1, <2>2, <2>3, <2>4, <2>6, <2>7, <2>8, CallStep
<1>12. Innermost'
  BY <1>4, <1>9, <1>11 DEF Innermost
<1>13. Rows' /\ InProgress' /\ Lineages' /\ TransferExclusive'
  BY <1>1, <1>2, RowsKept
<1>14. TypeOK'
  BY <1>1, <1>11, SameType DEF IInv, TypeOK
<1> QED
  BY <1>11, <1>12, <1>13, <1>14 DEF IInv

(* The host's own transfer ends; a rejected successor, a continued answer.  *)
LEMMA SwitchKeeps ==
  ASSUME IInv, SwitchSession
  PROVE  IInv'
<1>1. /\ At("switch") /\ Return("answered") /\ SameRows /\ current' = candidate /\ candidate' = candidate
  BY DEF SwitchSession, SameRows, journal, handoff, machine
<1>2. stack # <<>> /\ Top.at = "switch" /\ Holds(Top) /\ \A d \in Dispatch : op[d] # "in_progress"
  BY <1>1, AtTop DEF Turn
<1>3. Nesting' /\ Calls' /\ (stack' # <<>> => Top'.at \in Waiting /\ (Top'.at = "accepting" => Top.kind = "acceptance"))
  BY <1>1, <1>2, AllKept, ReturnStep DEF SameRows
<1>4. Top.kind # "acceptance"
  BY <1>2 DEF Holds, Located, Early
<1>5. Innermost'
  BY <1>3, <1>4 DEF Innermost, Waiting
<1>6. Rows' /\ InProgress' /\ Lineages' /\ TransferExclusive'
  BY <1>1, <1>2, RowsKept
<1>7. TypeOK'
  BY <1>1, <1>2, ReturnFrames, SameType DEF IInv, TypeOK
<1> QED
  BY <1>3, <1>5, <1>6, <1>7 DEF IInv

LEMMA GoingOn ==
  ASSUME IInv, RejectSuccessor \/ Continued
  PROVE  IInv'
<1>1. ASSUME NEW now \in Steps \ Turn, At(now), SameRows, UNCHANGED <<current, candidate>>,
             NEW next \in Steps, Goto(next),
             <<now, next>> \in {<<"accepting", "transfer">>, <<"continuing", "complete">>}
      PROVE  IInv'
  <2>1. \/ now = "accepting" /\ next = "transfer"
        \/ now = "continuing" /\ next = "complete"
    BY <1>1
  <2>2. stack # <<>> /\ Top.at = now /\ Holds(Top) /\ \A d \in Dispatch : op[d] # "in_progress"
    BY <1>1, AtTop
  <2>3. /\ Top'.at = next /\ Top'.kind = Top.kind /\ Top'.dispatch = Top.dispatch
        /\ Top'.parent = Top.parent /\ stack' \in Seq(Frame) /\ reply' = reply
    BY <1>1, <2>2, GotoFrames DEF IInv, d0
  <2>4. Holds(Top)'
    BY <1>1, <2>1, <2>2, <2>3, SMT DEF SameRows, Holds, Located, Journalled, Processed, Inherited, Early, Late,
       Turn, Unsettled, Handing, Wrapped
  <2>5. Nesting' /\ Calls'
    BY <1>1, <2>1, <2>2, <2>4, AllKept, GotoStep DEF SameRows
  <2>6. Innermost'
    BY <2>1, <2>3 DEF Innermost
  <2>7. Rows' /\ InProgress' /\ Lineages' /\ TransferExclusive'
    BY <1>1, <2>2, RowsKept
  <2>8. TypeOK'
    BY <1>1, <2>3, SameType DEF IInv, TypeOK
  <2> QED
    BY <2>5, <2>6, <2>7, <2>8 DEF IInv
<1>2. ASSUME NEW now \in Steps \ Turn, At(now), SameRows, UNCHANGED <<current, candidate>>, PostThrows
      PROVE  IInv'
  BY <1>2, PostThrowsStep
<1>3. CASE RejectSuccessor
  BY <1>1, <1>2, <1>3 DEF RejectSuccessor, SameRows, journal, handoff, machine, Steps, Turn
<1>4. CASE Continued
  BY <1>1, <1>2, <1>4 DEF Continued, SameRows, journal, handoff, machine, transfer, Steps, Turn
<1> QED
  BY <1>3, <1>4

-----------------------------------------------------------------------------
(* The steps of a turn: an operation is planned, sealed, sent, answered.    *)

LEMMA OwnRow ==
  ASSUME \A d \in Dispatch \ {d0} : op'[d] = op[d] /\ kind'[d] = kind[d] /\ processing'[d] = processing[d],
         published \subseteq published',
         \A p \in Dispatch : /\ lineage'[p].continuation = lineage[p].continuation
                             /\ lineage[p].state = "acceptance-pending" => lineage'[p].state = "acceptance-pending"
  PROVE  OthersKept
BY DEF OthersKept, Kept

(* What an operation has before it is sealed.                               *)
LEMMA NotYetSent ==
  ASSUME IInv, NEW d \in Dispatch, op[d] \in {"unplanned", "planned"}
  PROVE  answer[d] = "none" /\ claim[d] = "none" /\ processing[d] # "pending" /\ d \notin Consumed
BY DEF IInv, Rows, Consumed

(* An admitted dispatch finds every answer published and no transfer but    *)
(* its own.                                                                 *)
LEMMA Admitted ==
  ASSUME IInv, At("admission"), ToDrain = {},
         assertStructuredDispatchAdmission(d0, Top.kind, Top.parent)
  PROVE  /\ Pending = {}
         /\ Transfers # {} => Transfers = {Top.parent}
         /\ Top.kind = "acceptance" \/ \A p \in Transfers : lineage[p].continuation = d0
<1>1. /\ stack # <<>> /\ Top.at = "admission" /\ Top \in Frame /\ Holds(Top) /\ Top.dispatch = d0
      /\ Top.kind \in {"work", "continuation", "acceptance", "drain", "host"} /\ Top.kind # "host"
      /\ Len(stack) \in 1 .. Len(stack)
  BY AtTop
<1>2. Pending \subseteq {Top.parent} /\ (Transfers # {} => Transfers = {Top.parent})
  BY DEF assertStructuredDispatchAdmission
<1>3. Top.parent \notin Pending
  <2>1. CASE Top.kind = "work"
    BY <1>1, <2>1, DispatchAssumption DEF Holds, Located, Pending
  <2>2. CASE Top.kind = "continuation"
    BY <1>1, <2>2 DEF Holds, Inherited
  <2>3. CASE Top.kind = "acceptance"
    <3> DEFINE n == Len(stack) - 1
    <3>1. Len(stack) # 1
      BY <1>1, <2>3 DEF IInv, Nesting, Top
    <3>2. n \in 1 .. n /\ n \in 1 .. Len(stack) /\ n + 1 = Len(stack)
      <4>1. Len(stack) \in Nat \ {0}
        BY <1>1, TopFrame DEF IInv
      <4>2. \A k \in Nat \ {0} : k # 1 => k - 1 \in 1 .. k - 1 /\ k - 1 \in 1 .. k /\ k - 1 + 1 = k
        BY SMT
      <4> QED
        BY <3>1, <4>1, <4>2
    <3>3. Waits(stack[n], Top) /\ Holds(stack[n]) /\ stack[n] \in Frame
      <4>1. Waits(stack[n], stack[n + 1])
        BY <3>2 DEF IInv, Nesting
      <4>2. Holds(stack[n])
        BY <3>2 DEF IInv, Calls
      <4>3. stack[n] \in Frame
        BY <1>1, <3>2, AtTop, SMT
      <4> QED
        BY <3>2, <4>1, <4>2, <4>3 DEF Top
    <3>4. stack[n].at = "accepting" /\ Top.parent = stack[n].dispatch
      BY <2>3, <3>3 DEF Waits, Wrapped
    <3>5. CASE stack[n].kind = "host"
      BY <3>3, <3>4, <3>5, FrameKinds, DispatchAssumption DEF Pending
    <3>6. CASE stack[n].kind # "host"
      BY <3>3, <3>4, <3>6 DEF Holds, Processed, Handing, Pending
    <3> QED
      BY <3>5, <3>6
  <2>4. CASE Top.kind = "drain"
    BY <1>1, <2>4 DEF Holds, Located, Late, Unsettled, Handing
  <2> QED
    BY <1>1, <2>1, <2>2, <2>3, <2>4
<1>4. Top.kind # "acceptance" => \A p \in Transfers : lineage[p].continuation = d0
  BY DEF assertStructuredDispatchAdmission
<1> QED
  BY <1>2, <1>3, <1>4

LEMMA PlanOperationKeeps ==
  ASSUME IInv, PlanOperation
  PROVE  IInv'
<1>1. /\ At("admission") /\ Goto("prepare")
      /\ op' = [op EXCEPT ![d0] = "planned"] /\ kind' = [kind EXCEPT ![d0] = Top.kind]
      /\ UNCHANGED <<sess, claim, answer, processing, published, lineage, lease, accepted, host, current, candidate>>
  BY DEF PlanOperation, handoff, machine, transfer
<1>2. /\ stack # <<>> /\ Top.at = "admission" /\ Top \in Frame /\ Holds(Top) /\ Top.dispatch = d0
      /\ d0 \in Dispatch /\ \A d \in Dispatch : op[d] # "in_progress"
  BY <1>1, AtTop DEF Turn
<1>3. op[d0] = "unplanned" /\ Top.kind \in Kinds
  BY <1>1, <1>2, AtTop DEF Holds, Journalled, Located, Kinds, Wrapped, Late, Unsettled, Handing
<1>4. answer[d0] = "none" /\ claim[d0] = "none" /\ processing[d0] # "pending"
  BY <1>2, <1>3, NotYetSent
<1>5. /\ Top'.at = "prepare" /\ Top'.kind = Top.kind /\ Top'.dispatch = d0
      /\ Top'.parent = Top.parent /\ stack' \in Seq(Frame) /\ d0' = d0
  BY <1>1, <1>2, GotoFrames DEF IInv, Steps, d0
<1>6. /\ op'[d0] = "planned" /\ kind'[d0] = Top.kind
      /\ \A d \in Dispatch \ {d0} : op'[d] = op[d] /\ kind'[d] = kind[d]
  BY <1>1, <1>2 DEF IInv, TypeOK
<1>7. OthersKept
  BY <1>1, <1>6, OwnRow
<1>8. Holds(Top)'
  BY <1>1, <1>2, <1>5, <1>6, SMT DEF Holds, Located, Journalled, Processed, Inherited, Early, Late, Turn,
     Unsettled, Handing, Wrapped, Pending
<1>9. Nesting' /\ Calls'
  BY <1>1, <1>2, <1>7, <1>8, GotoStep DEF Steps
<1>10. Innermost'
  <2>1. /\ Pending = {}
        /\ Transfers # {} => Transfers = {Top.parent}
        /\ Top.kind = "acceptance" \/ \A p \in Transfers : lineage[p].continuation = d0
    BY Admitted DEF PlanOperation
  <2>2. Pending' = Pending /\ Transfers' = Transfers
    BY <1>1 DEF Pending, Transfers
  <2> QED
    BY <1>1, <1>5, <2>1, <2>2 DEF Innermost
<1>11. Rows'
  <2>1. Consumed' \cap Unresolved' \subseteq Consumed \cap Unresolved
    BY <1>1, <1>6 DEF Consumed, Unresolved
  <2> QED
    BY <1>1, <1>4, <1>6, <2>1 DEF IInv, Rows
<1>12. InProgress' /\ TransferExclusive'
  BY <1>2, <1>6 DEF InProgress, TransferExclusive
<1>13. Lineages'
  BY <1>1, <1>2, <1>3, <1>6 DEF IInv, Lineages, CompletedTransferContinued, Sent
<1>14. TypeOK'
  BY <1>1, <1>3, <1>5 DEF IInv, TypeOK, OpStatus
<1> QED
  BY <1>9, <1>10, <1>11, <1>12, <1>13, <1>14 DEF IInv

LEMMA FailPreparationKeeps ==
  ASSUME IInv, FailPreparation
  PROVE  IInv'
<1>1. /\ At("prepare") /\ Return("threw") /\ op' = [op EXCEPT ![d0] = "failed"]
      /\ UNCHANGED <<kind, sess, claim, answer, processing, published, lineage, lease, accepted, host, current, candidate>>
  BY DEF FailPreparation, Throw, handoff, machine, transfer
<1>2. /\ stack # <<>> /\ Top.at = "prepare" /\ Holds(Top) /\ Top.dispatch = d0
      /\ d0 \in Dispatch /\ \A d \in Dispatch : op[d] # "in_progress"
  BY <1>1, AtTop DEF Turn
<1>3. op[d0] = "planned"
  BY <1>2 DEF Holds, Journalled
<1>4. answer[d0] = "none" /\ claim[d0] = "none" /\ processing[d0] # "pending"
  BY <1>2, <1>3, NotYetSent
<1>5. op'[d0] = "failed" /\ \A d \in Dispatch \ {d0} : op'[d] = op[d]
  BY <1>1, <1>2 DEF IInv, TypeOK
<1>6. Nesting' /\ Calls' /\ Innermost'
  BY <1>1, <1>2, <1>5, OwnRow, ReturnStep
<1>7. Rows'
  <2>1. Consumed' \cap Unresolved' \subseteq Consumed \cap Unresolved
    BY <1>1, <1>5 DEF Consumed, Unresolved
  <2> QED
    BY <1>1, <1>4, <1>5, <2>1 DEF IInv, Rows
<1>8. InProgress' /\ TransferExclusive'
  BY <1>2, <1>5 DEF InProgress, TransferExclusive
<1>9. Lineages'
  BY <1>1, <1>2, <1>3, <1>5 DEF IInv, Lineages, CompletedTransferContinued, Sent
<1>10. TypeOK'
  BY <1>1, <1>2, ReturnFrames DEF IInv, TypeOK, OpStatus
<1> QED
  BY <1>6, <1>7, <1>8, <1>9, <1>10 DEF IInv

(* A sealed continuation is sealed for the successor that was accepted.     *)
LEMMA SealDispatchKeeps ==
  ASSUME IInv, SealDispatch
  PROVE  IInv'
<1> DEFINE to == IF Top.kind = "acceptance" THEN candidate ELSE current
           own == Top.kind = "acceptance" /\ Top.parent # None
<1>1. /\ At("prepare") /\ Goto("sealed")
      /\ op' = [op EXCEPT ![d0] = "in_progress"] /\ sess' = [sess EXCEPT ![d0] = to]
      /\ lineage' = IF own THEN [lineage EXCEPT ![Top.parent].acceptance = d0] ELSE lineage
      /\ UNCHANGED <<kind, claim, answer, processing, published, lease, accepted, host, current, candidate>>
  BY DEF SealDispatch, machine, transfer
<1>2. /\ stack # <<>> /\ Top.at = "prepare" /\ Top \in Frame /\ Holds(Top) /\ Top.dispatch = d0
      /\ Top.kind \in {"work", "continuation", "acceptance", "drain", "host"} /\ Top.kind # "host"
      /\ Top.parent \in Dispatch \cup {None}
      /\ d0 \in Dispatch /\ host = "up" /\ \A d \in Dispatch : op[d] # "in_progress"
  BY <1>1, AtTop DEF Turn
<1>3. op[d0] = "planned" /\ kind[d0] = Top.kind
  BY <1>2 DEF Holds, Journalled
<1>4. answer[d0] = "none" /\ claim[d0] = "none" /\ processing[d0] # "pending"
  BY <1>2, <1>3, NotYetSent
<1>5. /\ Top'.at = "sealed" /\ Top'.kind = Top.kind /\ Top'.dispatch = d0
      /\ Top'.parent = Top.parent /\ stack' \in Seq(Frame) /\ stack' # <<>> /\ d0' = d0
  BY <1>1, <1>2, GotoFrames DEF IInv, Steps, d0
<1>6. /\ op'[d0] = "in_progress" /\ sess'[d0] = to
      /\ \A d \in Dispatch \ {d0} : op'[d] = op[d] /\ sess'[d] = sess[d]
  BY <1>1, <1>2 DEF IInv, TypeOK
<1>7. /\ lineage' \in [Dispatch -> Lineage]
      /\ \A p \in Dispatch : /\ lineage'[p].state = lineage[p].state
                             /\ lineage'[p].continuation = lineage[p].continuation
                             /\ lineage'[p].successor = lineage[p].successor
                             /\ own /\ p = Top.parent => lineage'[p].acceptance = d0
  <2>1. lineage \in [Dispatch -> Lineage]
    BY DEF IInv, TypeOK
  <2>2. CASE own
    <3>1. Top.parent \in Dispatch /\ lineage' = [lineage EXCEPT ![Top.parent].acceptance = d0]
      BY <1>1, <1>2, <2>2
    <3>2. PICK q, d : q = Top.parent /\ d = d0
      OBVIOUS
    <3>3. q \in Dispatch /\ d \in Dispatch /\ lineage' = [lineage EXCEPT ![q] = [lineage[q] EXCEPT !.acceptance = d]]
      BY <1>2, <3>1, <3>2
    <3>4. \A l \in Lineage : /\ [l EXCEPT !.acceptance = d] \in Lineage
                             /\ [l EXCEPT !.acceptance = d].acceptance = d
                             /\ [l EXCEPT !.acceptance = d].state = l.state
                             /\ [l EXCEPT !.acceptance = d].continuation = l.continuation
                             /\ [l EXCEPT !.acceptance = d].successor = l.successor
      BY <3>3, SMT DEF Lineage
    <3> HIDE DEF own
    <3> QED
      BY <2>1, <3>2, <3>3, <3>4
  <2>3. CASE ~ own
    BY <1>1, <2>1, <2>3
  <2> QED
    BY <2>2, <2>3
<1>8. OthersKept
  BY <1>1, <1>6, <1>7, OwnRow
<1>9. Holds(Top)'
  BY <1>1, <1>2, <1>3, <1>5, <1>6, <1>7, SMT DEF Holds, Located, Journalled, Processed, Inherited, Early, Late,
     Turn, Unsettled, Handing, Wrapped, Pending
<1>10. Nesting' /\ Calls'
  BY <1>1, <1>2, <1>8, <1>9, GotoStep DEF Steps
<1>11. Innermost'
  BY <1>5 DEF Innermost
<1>12. Rows'
  <2>1. Consumed' \cap Unresolved' \subseteq Consumed \cap Unresolved
    BY <1>1, <1>4, <1>6 DEF Consumed, Unresolved
  <2> QED
    BY <1>1, <1>4, <1>6, <2>1 DEF IInv, Rows
<1>13. InProgress'
  BY <1>1, <1>2, <1>5, <1>6 DEF IInv, Innermost, InProgress, Pending, Turn
<1>14. Lineages'
  <2>1. \A p \in Dispatch : lineage[p].continuation = d0 => to = lineage[p].successor
    <3>1. CASE Top.kind = "continuation"
      <4>1. /\ Top.parent \in Dispatch /\ lineage[Top.parent].continuation = d0
            /\ current = lineage[Top.parent].successor
        BY <1>2, <3>1 DEF Holds, Inherited
      <4>2. d0 # None
        BY <1>2, DispatchAssumption
      <4> QED
        BY <3>1, <4>1, <4>2 DEF IInv, Lineages
    <3>2. CASE Top.kind \in {"work", "acceptance"}
      BY <1>2, <3>2 DEF Holds, Inherited
    <3>3. CASE Top.kind = "drain"
      BY <1>2, <3>3 DEF Holds, Located, Late, Unsettled, Handing
    <3> QED
      BY <1>2, <3>1, <3>2, <3>3
  <2>2. \A p \in Dispatch : lineage'[p].state = "completed" => lineage[p].continuation # d0
    BY <1>3, <1>7 DEF IInv, Lineages, CompletedTransferContinued
  <2>3. CompletedTransferContinued'
    <3> SUFFICES ASSUME NEW p \in Dispatch, lineage'[p].state = "completed"
                 PROVE  LET c == lineage'[p].continuation
                        IN  /\ op'[c] = "confirmed" /\ c \in published'
                            /\ sess'[c] = lineage'[p].successor /\ sess'[c] \in accepted'
      BY DEF CompletedTransferContinued
    <3>1. PICK c : c = lineage[p].continuation
      OBVIOUS
    <3>2. /\ op[c] = "confirmed" /\ c \in published
          /\ sess[c] = lineage[p].successor /\ sess[c] \in accepted
      BY <1>7, <3>1 DEF IInv, Lineages, CompletedTransferContinued
    <3>3. c \in Dispatch \ {d0}
      <4>1. c \in Dispatch \cup {None}
        BY <3>1, SMT DEF IInv, TypeOK, Lineage
      <4>2. c # None
        BY <1>7, <3>1 DEF IInv, Lineages
      <4> QED
        BY <2>2, <3>1, <4>1, <4>2
    <3> QED
      BY <1>1, <1>6, <1>7, <3>1, <3>2, <3>3
  <2>4. ASSUME NEW p \in Dispatch, NEW c, c = lineage[p].continuation
        PROVE  /\ lineage'[p].state \in {"none", "acceptance-pending"} <=> c = None
               /\ c # None => /\ lineage'[p].successor \in accepted'
                              /\ op'[c] \in Sent => sess'[c] = lineage'[p].successor
                              /\ \A q \in Dispatch : lineage'[q].continuation = c => q = p
    <3>1. c \in Dispatch \cup {None}
      BY <2>4, SMT DEF IInv, TypeOK, Lineage
    <3>2. c = d0 \/ c = None \/ c \in Dispatch \ {d0}
      BY <3>1
    <3> HIDE DEF to
    <3> QED
      BY <1>1, <1>6, <1>7, <2>1, <2>4, <3>2 DEF IInv, Lineages
  <2> QED
    BY <1>7, <2>3, <2>4 DEF Lineages
<1>15. TransferExclusive'
  <2> SUFFICES ASSUME NEW p \in Dispatch, p \in Transfers'
               PROVE  d0 \in {lineage'[p].acceptance, lineage'[p].continuation}
    BY <1>2, <1>6 DEF TransferExclusive, Transfers
  <2>1. p \in Transfers
    BY <1>7 DEF Transfers
  <2>2. p = Top.parent /\ (Top.kind = "acceptance" \/ lineage[p].continuation = d0)
    BY <1>2, <2>1 DEF IInv, Innermost
  <2>3. p # None
    BY DispatchAssumption
  <2> QED
    BY <1>7, <2>2, <2>3
<1>16. TypeOK'
  BY <1>1, <1>5, <1>7 DEF IInv, TypeOK, OpStatus
<1> QED
  BY <1>10, <1>11, <1>12, <1>13, <1>14, <1>15, <1>16 DEF IInv

(* The turn that is under way is the only one.                              *)
LEMMA InTurn ==
  ASSUME IInv, NEW step \in Turn, At(step)
  PROVE  /\ stack # <<>> /\ Top.at = step /\ Top \in Frame /\ Holds(Top) /\ Top.dispatch = d0
         /\ Top.kind \in Kinds /\ d0 \in Dispatch /\ host = "up" /\ d0 # None
         /\ op[d0] = "in_progress" /\ kind[d0] = Top.kind /\ answer[d0] = "none" /\ processing[d0] # "pending"
         /\ Pending = {} /\ \A d \in Dispatch : op[d] = "in_progress" => d = d0
         /\ \A p \in Dispatch : lineage[p].continuation = d0 => /\ lineage[p].state # "completed"
                                                               /\ lineage[p].state # "acceptance-pending"
<1>1. /\ stack # <<>> /\ Top.at = step /\ Top \in Frame /\ Holds(Top) /\ Top.dispatch = d0
      /\ d0 \in Dispatch /\ host = "up" /\ Top.kind # "host"
      /\ Top.kind \in {"work", "continuation", "acceptance", "drain", "host"}
  BY AtTop DEF Turn
<1>2. op[d0] = "in_progress" /\ kind[d0] = Top.kind
  BY <1>1 DEF Holds, Journalled
<1>3. Top.kind \in Kinds
  BY <1>1 DEF Holds, Located, Turn, Late, Unsettled, Handing, Kinds, Wrapped
<1>4. answer[d0] = "none" /\ processing[d0] # "pending"
  BY <1>1, <1>2 DEF IInv, Rows
<1>5. Pending = {} /\ \A d \in Dispatch : op[d] = "in_progress" => d = d0
  BY <1>1, <1>2 DEF IInv, InProgress
<1>6. d0 # None
  BY <1>1, DispatchAssumption
<1>7. ASSUME NEW p \in Dispatch, lineage[p].continuation = d0
      PROVE  lineage[p].state # "completed" /\ lineage[p].state # "acceptance-pending"
  BY <1>2, <1>6, <1>7 DEF IInv, Lineages, CompletedTransferContinued
<1> QED
  BY <1>1, <1>2, <1>3, <1>4, <1>5, <1>6, <1>7

LEMMA LineagesMoved ==
  ASSUME TypeOK, NEW d, NEW st \in {"continuation-claimed", "completed"},
         lineage' = [p \in Dispatch |-> IF lineage[p].continuation = d
                       THEN [lineage[p] EXCEPT !.state = st] ELSE lineage[p]]
  PROVE  /\ lineage' \in [Dispatch -> Lineage]
         /\ \A p \in Dispatch : /\ lineage'[p].continuation = lineage[p].continuation
                                /\ lineage'[p].successor = lineage[p].successor
                                /\ lineage'[p].acceptance = lineage[p].acceptance
                                /\ lineage'[p].state = IF lineage[p].continuation = d THEN st ELSE lineage[p].state
<1>1. \A l \in Lineage : /\ [l EXCEPT !.state = st] \in Lineage
                         /\ [l EXCEPT !.state = st].state = st
                         /\ [l EXCEPT !.state = st].continuation = l.continuation
                         /\ [l EXCEPT !.state = st].successor = l.successor
                         /\ [l EXCEPT !.state = st].acceptance = l.acceptance
  BY SMT DEF Lineage
<1>2. \A p \in Dispatch : lineage[p] \in Lineage
  BY DEF TypeOK
<1> QED
  BY <1>1, <1>2

LEMMA ClaimKeeps ==
  ASSUME IInv, claimStructuredSubmission
  PROVE  IInv'
<1>1. /\ At("sealed") /\ Goto("claimed") /\ claim' = [claim EXCEPT ![d0] = "claimed"]
      /\ lineage' = [p \in Dispatch |-> IF lineage[p].continuation = d0
                       THEN [lineage[p] EXCEPT !.state = "continuation-claimed"] ELSE lineage[p]]
      /\ UNCHANGED <<op, kind, sess, answer, processing, published, lease, accepted, host, current, candidate>>
  BY DEF claimStructuredSubmission, machine, transfer
<1>2. /\ stack # <<>> /\ Top.at = "sealed" /\ Top \in Frame /\ Holds(Top) /\ Top.dispatch = d0
      /\ d0 \in Dispatch /\ host = "up" /\ d0 # None
      /\ op[d0] = "in_progress" /\ Pending = {} /\ \A d \in Dispatch : op[d] = "in_progress" => d = d0
      /\ \A p \in Dispatch : lineage[p].continuation = d0 => /\ lineage[p].state # "completed"
                                                            /\ lineage[p].state # "acceptance-pending"
  BY <1>1, InTurn DEF Turn
<1>3. /\ Top'.at = "claimed" /\ Top'.kind = Top.kind /\ Top'.dispatch = d0
      /\ Top'.parent = Top.parent /\ stack' \in Seq(Frame) /\ stack' # <<>> /\ d0' = d0
  BY <1>1, <1>2, GotoFrames DEF IInv, Steps, d0
<1>4. /\ lineage' \in [Dispatch -> Lineage]
      /\ \A p \in Dispatch :
           /\ lineage'[p].continuation = lineage[p].continuation
           /\ lineage'[p].successor = lineage[p].successor
           /\ lineage'[p].acceptance = lineage[p].acceptance
           /\ lineage'[p].state = IF lineage[p].continuation = d0 THEN "continuation-claimed" ELSE lineage[p].state
  BY <1>1, LineagesMoved DEF IInv
<1>5. OthersKept
  BY <1>1, <1>2, <1>4, OwnRow
<1>6. Holds(Top)'
  BY <1>1, <1>2, <1>3, <1>4, SMT DEF Holds, Located, Journalled, Processed, Inherited, Early, Late, Turn,
     Unsettled, Handing, Wrapped, Pending
<1>7. Nesting' /\ Calls'
  BY <1>1, <1>2, <1>5, <1>6, GotoStep DEF Steps
<1>8. Innermost'
  BY <1>3 DEF Innermost
<1>9. claim'[d0] = "claimed" /\ \A d \in Dispatch \ {d0} : claim'[d] = claim[d]
  BY <1>1, <1>2 DEF IInv, TypeOK
<1>10. Rows'
  <2>1. Consumed' \cap Unresolved' \subseteq Consumed \cap Unresolved
    BY <1>1, <1>9 DEF Consumed, Unresolved
  <2> QED
    BY <1>1, <1>2, <1>9, <2>1 DEF IInv, Rows
<1>11. InProgress'
  BY <1>1, <1>2, <1>3 DEF InProgress, Pending, Turn
<1>12. Lineages'
  <2>1. CompletedTransferContinued'
    BY <1>1, <1>4 DEF IInv, Lineages, CompletedTransferContinued
  <2> QED
    BY <1>1, <1>2, <1>4, <2>1 DEF IInv, Lineages
<1>13. TransferExclusive'
  <2>1. \A p \in Transfers' : lineage[p].continuation = d0 \/ p \in Transfers
    BY <1>4 DEF Transfers
  <2> QED
    BY <1>1, <1>2, <1>4, <2>1 DEF IInv, TransferExclusive, Transfers
<1>14. TypeOK'
  BY <1>1, <1>3, <1>4 DEF IInv, TypeOK
<1> QED
  BY <1>7, <1>8, <1>10, <1>11, <1>12, <1>13, <1>14 DEF IInv

LEMMA ConsumeKeeps ==
  ASSUME IInv, consumeStructuredSubmission
  PROVE  IInv'
<1>1. /\ At("claimed") /\ Goto("sent") /\ MaySend /\ claim' = [claim EXCEPT ![d0] = "consumed"]
      /\ UNCHANGED <<op, kind, sess, answer, processing, published, lineage, lease, accepted, host, current, candidate>>
  BY DEF consumeStructuredSubmission, handoff, machine, transfer
<1>2. /\ stack # <<>> /\ Top.at = "claimed" /\ Top \in Frame /\ Holds(Top) /\ Top.dispatch = d0
      /\ d0 \in Dispatch /\ op[d0] = "in_progress" /\ kind[d0] = Top.kind
      /\ Pending = {} /\ \A d \in Dispatch : op[d] = "in_progress" => d = d0
  BY <1>1, InTurn DEF Turn
<1>3. /\ Top'.at = "sent" /\ Top'.kind = Top.kind /\ Top'.dispatch = d0
      /\ Top'.parent = Top.parent /\ stack' \in Seq(Frame) /\ stack' # <<>> /\ d0' = d0
  BY <1>1, <1>2, GotoFrames DEF IInv, Steps, d0
<1>4. OthersKept
  BY <1>1, AllKept
<1>5. Holds(Top)'
  BY <1>1, <1>2, <1>3, SMT DEF Holds, Located, Journalled, Processed, Inherited, Early, Late, Turn,
     Unsettled, Handing, Wrapped, Pending
<1>6. Nesting' /\ Calls'
  BY <1>1, <1>2, <1>4, <1>5, GotoStep DEF Steps
<1>7. Innermost'
  BY <1>3 DEF Innermost
<1>8. claim'[d0] = "consumed" /\ \A d \in Dispatch \ {d0} : claim'[d] = claim[d]
  BY <1>1, <1>2 DEF IInv, TypeOK
<1>9. Rows'
  <2>1. CASE Top.kind \in Wrapped
    <3>1. Unresolved' = {d0}
      BY <1>1, <2>1 DEF MaySend, Unresolved
    <3> QED
      BY <1>1, <1>2, <1>8, <3>1 DEF IInv, Rows
  <2>2. CASE Top.kind \notin Wrapped
    <3>1. Consumed' = Consumed \ {d0} /\ Unresolved' = Unresolved
      BY <1>1, <1>2, <1>8, <2>2 DEF Consumed, Unresolved
    <3> QED
      BY <1>1, <1>2, <1>8, <3>1 DEF IInv, Rows
  <2> QED
    BY <2>1, <2>2
<1>10. InProgress'
  BY <1>1, <1>2, <1>3 DEF InProgress, Pending, Turn
<1>11. Lineages' /\ TransferExclusive'
  BY <1>1 DEF IInv, Lineages, CompletedTransferContinued, TransferExclusive, Transfers
<1>12. TypeOK'
  BY <1>1, <1>3 DEF IInv, TypeOK
<1> QED
  BY <1>6, <1>7, <1>9, <1>10, <1>11, <1>12 DEF IInv

(* A turn that is refused, or whose answer is lost.                         *)
LEMMA TurnFails ==
  ASSUME IInv, RefuseSubmission \/ LoseAnswer
  PROVE  IInv'
<1>1. PICK now \in Turn, status \in {"failed", "uncertain"}, how \in {"isError", "threw"} :
        At(now) /\ Return(how) /\ op' = [op EXCEPT ![d0] = status]
  <2>1. CASE RefuseSubmission
    <3>1. At("claimed") /\ Return("threw") /\ op' = [op EXCEPT ![d0] = "failed"]
      BY <2>1 DEF RefuseSubmission, Throw
    <3> QED
      BY <3>1 DEF Turn
  <2>2. CASE LoseAnswer
    BY <2>2 DEF LoseAnswer, Turn
  <2> QED
    BY <2>1, <2>2
<1>2. UNCHANGED <<kind, sess, claim, answer, processing, published, lineage, lease, accepted, host, current, candidate>>
  BY DEF RefuseSubmission, LoseAnswer, handoff, machine, transfer
<1>3. /\ stack # <<>> /\ d0 \in Dispatch /\ d0 # None /\ host = "up"
      /\ op[d0] = "in_progress" /\ answer[d0] = "none" /\ processing[d0] # "pending"
      /\ \A d \in Dispatch : op[d] = "in_progress" => d = d0
      /\ \A p \in Dispatch : lineage[p].continuation = d0 => lineage[p].state # "completed"
  BY <1>1, InTurn
<1>4. op'[d0] = status /\ \A d \in Dispatch \ {d0} : op'[d] = op[d]
  BY <1>1, <1>3 DEF IInv, TypeOK
<1>5. Nesting' /\ Calls' /\ Innermost'
  BY <1>1, <1>2, <1>3, <1>4, OwnRow, ReturnStep
<1>6. Rows'
  <2>1. Consumed' \cap Unresolved' \subseteq Consumed \cap Unresolved
    BY <1>2, <1>3, <1>4 DEF Consumed, Unresolved
  <2> QED
    BY <1>2, <1>3, <1>4, <2>1 DEF IInv, Rows
<1>7. \A d \in Dispatch : op'[d] # "in_progress"
  BY <1>3, <1>4
<1>8. InProgress' /\ TransferExclusive'
  BY <1>7 DEF InProgress, TransferExclusive
<1>9. Lineages'
  <2>1. \A p \in Dispatch : lineage[p].continuation \in Dispatch \cup {None}
    BY SMT DEF IInv, TypeOK, Lineage
  <2>2. \A d \in Dispatch : (op'[d] \in Sent => op[d] \in Sent) /\ (op[d] = "confirmed" => op'[d] = "confirmed")
    BY <1>3, <1>4 DEF Sent
  <2>3. CompletedTransferContinued'
    BY <1>2, <2>1, <2>2 DEF IInv, Lineages, CompletedTransferContinued
  <2> QED
    BY <1>2, <2>1, <2>2, <2>3 DEF IInv, Lineages
<1>10. TypeOK'
  BY <1>1, <1>2, <1>3, ReturnFrames DEF IInv, TypeOK, OpStatus
<1> QED
  BY <1>5, <1>6, <1>8, <1>9, <1>10 DEF IInv

LEMMA ConfirmAnswerKeeps ==
  ASSUME IInv, NEW a, ConfirmAnswer(a)
  PROVE  IInv'
<1>1. /\ At("sent") /\ a \in Answers(Top.kind)
      /\ op' = [op EXCEPT ![d0] = "confirmed"] /\ answer' = [answer EXCEPT ![d0] = a]
      /\ UNCHANGED <<kind, sess, claim, published, lineage, lease, accepted, host, current, candidate>>
  BY DEF ConfirmAnswer, handoff, machine, transfer
<1>2. /\ stack # <<>> /\ Top.at = "sent" /\ Top \in Frame /\ Holds(Top) /\ Top.dispatch = d0
      /\ Top.kind \in Kinds /\ d0 \in Dispatch /\ d0 # None /\ host = "up"
      /\ op[d0] = "in_progress" /\ kind[d0] = Top.kind
      /\ Pending = {} /\ \A d \in Dispatch : op[d] = "in_progress" => d = d0
      /\ \A p \in Dispatch : lineage[p].continuation = d0 => lineage[p].state # "completed"
  BY <1>1, InTurn DEF Turn
<1>3. /\ op'[d0] = "confirmed" /\ answer'[d0] = a
      /\ \A d \in Dispatch \ {d0} : op'[d] = op[d] /\ answer'[d] = answer[d]
  BY <1>1, <1>2 DEF IInv, TypeOK
<1>4. \A d \in Dispatch : op'[d] # "in_progress"
  BY <1>2, <1>3
<1>5. InProgress' /\ TransferExclusive'
  BY <1>4 DEF InProgress, TransferExclusive
<1>6. Lineages'
  BY <1>1, <1>2, <1>3 DEF IInv, Lineages, CompletedTransferContinued, Sent
<1>7. Consumed' \cap Unresolved' \subseteq Consumed \cap Unresolved
  BY <1>1, <1>2, <1>3 DEF Consumed, Unresolved
<1>8. a \in {"final", "handoff", "ack", "refusal"}
  BY <1>1 DEF Answers
<1>9. CASE Top.kind \in Wrapped
  <2>1. processing' = [processing EXCEPT ![d0] = "pending"] /\ Goto("publish")
    BY <1>9 DEF ConfirmAnswer
  <2>2. processing'[d0] = "pending" /\ \A d \in Dispatch \ {d0} : processing'[d] = processing[d]
    BY <1>2, <2>1 DEF IInv, TypeOK
  <2>3. /\ Top'.at = "publish" /\ Top'.kind = Top.kind /\ Top'.dispatch = d0
        /\ Top'.parent = Top.parent /\ stack' \in Seq(Frame)
    BY <1>2, <2>1, GotoFrames DEF IInv, Steps, d0
  <2>4. OthersKept
    BY <1>1, <1>3, <2>2, OwnRow
  <2>5. Holds(Top)'
    BY <1>1, <1>2, <1>3, <1>9, <2>2, <2>3, SMT DEF Holds, Located, Journalled, Processed, Inherited, Early, Late,
       Turn, Unsettled, Handing, Wrapped
  <2>6. Nesting' /\ Calls'
    BY <1>1, <1>2, <2>1, <2>4, <2>5, GotoStep DEF Steps
  <2>7. Innermost'
    BY <2>3 DEF Innermost
  <2>8. Rows'
    BY <1>1, <1>2, <1>3, <1>7, <1>9, <2>2 DEF IInv, Rows
  <2>9. TypeOK'
    BY <1>1, <1>8, <2>1, <2>3 DEF IInv, TypeOK, OpStatus
  <2> QED
    BY <1>5, <1>6, <2>6, <2>7, <2>8, <2>9 DEF IInv
<1>10. CASE Top.kind \notin Wrapped
  <2>1. processing' = processing /\ Return("answered")
    BY <1>10 DEF ConfirmAnswer
  <2>2. Top.kind = "acceptance"
    BY <1>2, <1>10 DEF Kinds
  <2>3. /\ Nesting' /\ Calls'
        /\ stack' # <<>> => Top'.at \in Waiting /\ (Top'.at = "accepting" => Top.kind = "acceptance")
    BY <1>1, <1>2, <1>3, <2>1, OwnRow, ReturnStep
  <2>4. Innermost'
    <3>1. sess[d0] = candidate
      BY <1>2, <2>2 DEF Holds, Journalled, Turn
    <3>2. Pending' = {} /\ kind'[d0] = "acceptance" /\ sess'[d0] = candidate'
      BY <1>1, <1>2, <2>1, <2>2, <3>1 DEF Pending
    <3> QED
      BY <1>2, <2>3, <3>2 DEF Innermost, Waiting
  <2>5. Rows'
    BY <1>1, <1>2, <1>3, <1>7, <1>10, <2>1 DEF IInv, Rows
  <2>6. TypeOK'
    BY <1>1, <1>2, <1>8, <2>1, ReturnFrames DEF IInv, TypeOK, OpStatus
  <2> QED
    BY <1>5, <1>6, <2>3, <2>4, <2>5, <2>6 DEF IInv
<1> QED
  BY <1>9, <1>10

-----------------------------------------------------------------------------
(* What follows a confirmed answer.                                         *)

LEMMA PublishCheckpointKeeps ==
  ASSUME IInv, PublishCheckpoint
  PROVE  IInv'
<1>1. /\ At("publish") /\ published' = published \cup {d0}
      /\ UNCHANGED <<op, kind, sess, claim, answer, processing, lineage, lease, accepted, host, current, candidate>>
  BY DEF PublishCheckpoint, journal, handoff, machine, transfer
<1>2. PICK next \in {"begin", "complete"} : Goto(next)
  BY DEF PublishCheckpoint
<1>3. /\ stack # <<>> /\ Top.at = "publish" /\ Top \in Frame /\ Holds(Top) /\ Top.dispatch = d0
      /\ d0 \in Dispatch /\ Top.kind # "host" /\ \A d \in Dispatch : op[d] # "in_progress"
  BY <1>1, AtTop DEF Turn
<1>4. /\ Top'.at = next /\ Top'.kind = Top.kind /\ Top'.dispatch = d0
      /\ Top'.parent = Top.parent /\ stack' \in Seq(Frame)
  BY <1>2, <1>3, GotoFrames DEF IInv, Steps, d0
<1>5. OthersKept
  BY <1>1, OwnRow
<1>6. Holds(Top)'
  BY <1>1, <1>2, <1>3, <1>4, SMT DEF Holds, Located, Journalled, Processed, Inherited, Early, Late, Turn,
     Unsettled, Handing, Wrapped
<1>7. Nesting' /\ Calls'
  BY <1>1, <1>2, <1>3, <1>5, <1>6, GotoStep DEF Steps
<1>8. Innermost'
  BY <1>4 DEF Innermost
<1>9. Rows'
  BY <1>1 DEF IInv, Rows, Consumed, Unresolved
<1>10. InProgress' /\ TransferExclusive'
  BY <1>1, <1>3 DEF InProgress, TransferExclusive
<1>11. Lineages'
  BY <1>1 DEF IInv, Lineages, CompletedTransferContinued
<1>12. TypeOK'
  BY <1>1, <1>3, <1>4 DEF IInv, TypeOK
<1> QED
  BY <1>7, <1>8, <1>9, <1>10, <1>11, <1>12 DEF IInv

LEMMA BeginHandoffKeeps ==
  ASSUME IInv, beginStructuredHandoff
  PROVE  IInv'
<1>1. /\ At("begin") /\ Goto("settle") /\ lineage[d0].state = "none"
      /\ lineage' = [lineage EXCEPT ![d0].state = "acceptance-pending"]
      /\ UNCHANGED <<op, kind, sess, claim, answer, processing, published, lease, accepted, host, current, candidate>>
  BY DEF beginStructuredHandoff, journal, machine, transfer
<1>2. /\ stack # <<>> /\ Top.at = "begin" /\ Top \in Frame /\ Holds(Top) /\ Top.dispatch = d0
      /\ d0 \in Dispatch /\ Top.kind # "host" /\ \A d \in Dispatch : op[d] # "in_progress"
  BY <1>1, AtTop DEF Turn
<1>3. /\ Top'.at = "settle" /\ Top'.kind = Top.kind /\ Top'.dispatch = d0
      /\ Top'.parent = Top.parent /\ stack' \in Seq(Frame)
  BY <1>1, <1>2, GotoFrames DEF IInv, Steps, d0
<1>4. /\ lineage' \in [Dispatch -> Lineage] /\ lineage'[d0].state = "acceptance-pending"
      /\ \A p \in Dispatch \ {d0} : lineage'[p].state = lineage[p].state
      /\ \A p \in Dispatch : lineage'[p].continuation = lineage[p].continuation
                             /\ lineage'[p].successor = lineage[p].successor
  <2>1. \A l \in Lineage : /\ [l EXCEPT !.state = "acceptance-pending"] \in Lineage
                           /\ [l EXCEPT !.state = "acceptance-pending"].state = "acceptance-pending"
                           /\ [l EXCEPT !.state = "acceptance-pending"].continuation = l.continuation
                           /\ [l EXCEPT !.state = "acceptance-pending"].successor = l.successor
    BY SMT DEF Lineage
  <2>2. lineage \in [Dispatch -> Lineage]
    BY DEF IInv, TypeOK
  <2>3. lineage' = [lineage EXCEPT ![d0] = [lineage[d0] EXCEPT !.state = "acceptance-pending"]]
    BY <1>1
  <2> QED
    BY <1>2, <2>1, <2>2, <2>3
<1>5. OthersKept
  BY <1>1, <1>4, OwnRow
<1>6. Holds(Top)'
  BY <1>1, <1>2, <1>3, <1>4, SMT DEF Holds, Located, Journalled, Processed, Inherited, Early, Late, Turn,
     Unsettled, Handing, Wrapped
<1>7. Nesting' /\ Calls'
  BY <1>1, <1>2, <1>5, <1>6, GotoStep DEF Steps
<1>8. Innermost'
  BY <1>3 DEF Innermost
<1>9. Rows'
  BY <1>1 DEF IInv, Rows, Consumed, Unresolved
<1>10. InProgress' /\ TransferExclusive'
  BY <1>1, <1>2 DEF InProgress, TransferExclusive
<1>11. Lineages'
  <2>1. \A p \in Dispatch : (lineage'[p].state \in {"none", "acceptance-pending"})
                             <=> (lineage[p].state \in {"none", "acceptance-pending"})
    BY <1>1, <1>4
  <2>2. CompletedTransferContinued'
    BY <1>1, <1>4 DEF IInv, Lineages, CompletedTransferContinued
  <2> QED
    BY <1>1, <1>4, <2>1, <2>2 DEF IInv, Lineages
<1>12. TypeOK'
  BY <1>1, <1>3, <1>4 DEF IInv, TypeOK
<1> QED
  BY <1>7, <1>8, <1>9, <1>10, <1>11, <1>12 DEF IInv

LEMMA SettleKeeps ==
  ASSUME IInv, SettlePublication \/ completeStructuredPostprocessing
  PROVE  IInv'
<1>1. PICK now, next : /\ now \in {"settle", "complete"} /\ next \in {"transfer", "finish"}
                       /\ At(now) /\ Goto(next) /\ (now = "settle" <=> next = "transfer")
  BY DEF SettlePublication, completeStructuredPostprocessing
<1>2. /\ processing' = [processing EXCEPT ![d0] = "completed"]
      /\ UNCHANGED <<op, kind, sess, claim, answer, published, lineage, lease, accepted, host, current, candidate>>
  BY DEF SettlePublication, completeStructuredPostprocessing, journal, handoff, machine, transfer
<1>3. /\ stack # <<>> /\ Top.at = now /\ Top \in Frame /\ Holds(Top) /\ Top.dispatch = d0
      /\ d0 \in Dispatch /\ Top.kind # "host" /\ \A d \in Dispatch : op[d] # "in_progress"
  BY <1>1, AtTop DEF Turn
<1>4. /\ Top'.at = next /\ Top'.kind = Top.kind /\ Top'.dispatch = d0
      /\ Top'.parent = Top.parent /\ stack' \in Seq(Frame)
  BY <1>1, <1>3, GotoFrames DEF IInv, Steps, d0
<1>5. processing'[d0] = "completed" /\ \A d \in Dispatch \ {d0} : processing'[d] = processing[d]
  BY <1>2, <1>3 DEF IInv, TypeOK
<1>6. OthersKept
  BY <1>2, <1>5, OwnRow
<1>7. Holds(Top)'
  BY <1>1, <1>2, <1>3, <1>4, <1>5, SMT DEF Holds, Located, Journalled, Processed, Inherited, Early, Late, Turn,
     Unsettled, Handing, Wrapped
<1>8. Nesting' /\ Calls'
  BY <1>1, <1>2, <1>3, <1>6, <1>7, GotoStep DEF Steps
<1>9. Innermost'
  BY <1>1, <1>4 DEF Innermost
<1>10. Rows'
  <2>1. d0 \in published
    BY <1>1, <1>3 DEF Holds, Processed, Late, Unsettled
  <2> QED
    BY <1>2, <1>5, <2>1 DEF IInv, Rows, Consumed, Unresolved
<1>11. InProgress' /\ TransferExclusive'
  BY <1>2, <1>3 DEF InProgress, TransferExclusive
<1>12. Lineages'
  BY <1>2 DEF IInv, Lineages, CompletedTransferContinued
<1>13. TypeOK'
  BY <1>2, <1>3, <1>4 DEF IInv, TypeOK
<1> QED
  BY <1>8, <1>9, <1>10, <1>11, <1>12, <1>13 DEF IInv

(* A transfer is complete when the continuation it planned is done.         *)
LEMMA FinishKeeps ==
  ASSUME IInv, finishStructuredContinuation
  PROVE  IInv'
<1>1. /\ At("finish") /\ Return("answered")
      /\ lineage' = [p \in Dispatch |-> IF lineage[p].continuation = d0
                       THEN [lineage[p] EXCEPT !.state = "completed"] ELSE lineage[p]]
      /\ UNCHANGED <<op, kind, sess, claim, answer, processing, published, lease, accepted, host, current, candidate>>
  BY DEF finishStructuredContinuation, journal, machine, transfer
<1>2. /\ stack # <<>> /\ Top.at = "finish" /\ Top \in Frame /\ Holds(Top) /\ Top.dispatch = d0
      /\ d0 \in Dispatch /\ Top.kind # "host" /\ \A d \in Dispatch : op[d] # "in_progress"
  BY <1>1, AtTop DEF Turn
<1>3. op[d0] = "confirmed" /\ d0 \in published /\ Top.kind # "acceptance" /\ d0 # None
  BY <1>2, DispatchAssumption DEF Holds, Located, Journalled, Processed, Early, Late, Unsettled
<1>4. /\ lineage' \in [Dispatch -> Lineage]
      /\ \A p \in Dispatch :
           /\ lineage'[p].continuation = lineage[p].continuation
           /\ lineage'[p].successor = lineage[p].successor
           /\ lineage'[p].acceptance = lineage[p].acceptance
           /\ lineage'[p].state = IF lineage[p].continuation = d0 THEN "completed" ELSE lineage[p].state
  BY <1>1, LineagesMoved DEF IInv
<1>5. \A p \in Dispatch : lineage[p].continuation = d0 => lineage[p].state \notin {"none", "acceptance-pending"}
  BY <1>3 DEF IInv, Lineages
<1>6. OthersKept
  BY <1>1, <1>4, <1>5, OwnRow
<1>7. /\ Nesting' /\ Calls'
      /\ stack' # <<>> => Top'.at \in Waiting /\ (Top'.at = "accepting" => Top.kind = "acceptance")
  BY <1>1, <1>2, <1>6, ReturnStep
<1>8. Innermost'
  BY <1>3, <1>7 DEF Innermost, Waiting
<1>9. Rows'
  BY <1>1 DEF IInv, Rows, Consumed, Unresolved
<1>10. InProgress' /\ TransferExclusive'
  BY <1>1, <1>2 DEF InProgress, TransferExclusive
<1>11. Lineages'
  <2>1. CompletedTransferContinued'
    <3> SUFFICES ASSUME NEW p \in Dispatch, lineage'[p].state = "completed"
                 PROVE  LET c == lineage'[p].continuation
                        IN  /\ op'[c] = "confirmed" /\ c \in published'
                            /\ sess'[c] = lineage'[p].successor /\ sess'[c] \in accepted'
      BY DEF CompletedTransferContinued
    <3>1. CASE lineage[p].continuation = d0
      BY <1>1, <1>3, <1>4, <3>1 DEF IInv, Lineages, Sent
    <3>2. CASE lineage[p].continuation # d0
      BY <1>1, <1>4, <3>2 DEF IInv, Lineages, CompletedTransferContinued
    <3> QED
      BY <3>1, <3>2
  <2> QED
    BY <1>1, <1>4, <1>5, <2>1 DEF IInv, Lineages
<1>12. TypeOK'
  BY <1>1, <1>2, <1>4, ReturnFrames DEF IInv, TypeOK
<1> QED
  BY <1>7, <1>8, <1>9, <1>10, <1>11, <1>12 DEF IInv

-----------------------------------------------------------------------------
(* The transfer of the role.                                                *)

LEMMA AcceptanceExists ==
  ASSUME IInv, At("accepting"), reply = "answered"
  PROVE  /\ Pending = {}
         /\ LastAcceptance \in Dispatch /\ kind[LastAcceptance] = "acceptance" /\ sess[LastAcceptance] = candidate
<1>1. Pending = {} /\ \E d \in Dispatch : kind[d] = "acceptance" /\ sess[d] = candidate
  BY DEF At, IInv, Innermost
<1> QED
  BY <1>1 DEF LastAcceptance

LEMMA AcceptHandoffKeeps ==
  ASSUME IInv, acceptHandoff
  PROVE  IInv'
<1>1. /\ At("accepting") /\ reply = "answered"
      /\ published' = published \cup {LastAcceptance} /\ accepted' = accepted \cup {candidate}
      /\ lease' = candidate
      /\ UNCHANGED <<op, kind, sess, claim, answer, processing, lineage, host, current, candidate>>
  BY DEF acceptHandoff, Acknowledged, journal, machine, transfer
<1>2. PICK next \in {"switch", "plan"} : Goto(next) /\ (next = "switch" <=> Top.kind = "host")
  BY DEF acceptHandoff
<1>3. /\ stack # <<>> /\ Top.at = "accepting" /\ Top \in Frame /\ Holds(Top) /\ Top.dispatch = d0
      /\ \A d \in Dispatch : op[d] # "in_progress"
  BY <1>1, AtTop DEF Turn
<1>4. /\ Top'.at = next /\ Top'.kind = Top.kind /\ Top'.dispatch = d0
      /\ Top'.parent = Top.parent /\ stack' \in Seq(Frame)
  BY <1>2, <1>3, GotoFrames DEF IInv, Steps, d0
<1>5. Pending = {} /\ LastAcceptance \in Dispatch
  BY <1>1, AcceptanceExists
<1>6. OthersKept
  BY <1>1, OwnRow
<1>7. Holds(Top)'
  BY <1>1, <1>2, <1>3, <1>4, SMT DEF Holds, Located, Journalled, Processed, Inherited, Early, Late, Turn,
     Unsettled, Handing, Wrapped
<1>8. Nesting' /\ Calls'
  BY <1>1, <1>2, <1>3, <1>6, <1>7, GotoStep DEF Steps
<1>9. Innermost'
  BY <1>1, <1>4, <1>5 DEF Innermost, Pending
<1>10. Rows'
  BY <1>1 DEF IInv, Rows, Consumed, Unresolved
<1>11. InProgress' /\ TransferExclusive'
  BY <1>1, <1>3 DEF InProgress, TransferExclusive
<1>12. Lineages'
  BY <1>1 DEF IInv, Lineages, CompletedTransferContinued
<1>13. TypeOK'
  BY <1>1, <1>4, <1>5 DEF IInv, TypeOK
<1> QED
  BY <1>8, <1>9, <1>10, <1>11, <1>12, <1>13 DEF IInv

LEMMA PlanContinuationKeeps ==
  ASSUME IInv, NEW c \in Dispatch, planStructuredContinuation(c)
  PROVE  IInv'
<1>1. /\ At("plan") /\ Goto("adopt") /\ c \in Free
      /\ lineage' = [lineage EXCEPT ![d0].state = "continuation-planned",
                                    ![d0].successor = candidate, ![d0].continuation = c]
      /\ UNCHANGED <<op, kind, sess, claim, answer, processing, published, lease, accepted, host, current, candidate>>
  BY DEF planStructuredContinuation, journal, machine, transfer
<1>2. /\ stack # <<>> /\ Top.at = "plan" /\ Top \in Frame /\ Holds(Top) /\ Top.dispatch = d0
      /\ d0 \in Dispatch /\ Top.kind # "host" /\ Len(stack) \in 1 .. Len(stack)
      /\ \A d \in Dispatch : op[d] # "in_progress"
  BY <1>1, AtTop DEF Turn
<1>3. /\ op[c] = "unplanned" /\ \A i \in 1 .. Len(stack) : stack[i].dispatch # c
      /\ \A p \in Dispatch : lineage[p].continuation # c
      /\ c # d0 /\ c # None
  <2>1. op[c] = "unplanned" /\ (\A i \in 1 .. Len(stack) : stack[i].dispatch # c)
        /\ \A p \in Dispatch : lineage[p].continuation # c
    BY <1>1 DEF Free
  <2> QED
    BY <1>2, <2>1, DispatchAssumption DEF Top
<1>4. Pending = {} /\ candidate \in accepted
  BY <1>2 DEF IInv, Innermost
<1>5. lineage[d0].state = "acceptance-pending" /\ lineage[d0].continuation = None
  BY <1>2 DEF Holds, Inherited, IInv, Lineages
<1>6. /\ Top'.at = "adopt" /\ Top'.kind = Top.kind /\ Top'.dispatch = d0 /\ d0' = d0
      /\ Top'.parent = Top.parent /\ stack' \in Seq(Frame)
  BY <1>1, <1>2, GotoFrames DEF IInv, Steps, d0
<1>7. /\ lineage' \in [Dispatch -> Lineage] /\ lineage'[d0].state = "continuation-planned"
      /\ lineage'[d0].successor = candidate /\ lineage'[d0].continuation = c
      /\ \A p \in Dispatch \ {d0} : lineage'[p] = lineage[p]
  <2>1. PICK d, s : d = d0 /\ s = candidate
    OBVIOUS
  <2>2. d \in Dispatch /\ s \in Session \cup {None} /\ lineage \in [Dispatch -> Lineage]
    BY <1>2, <2>1 DEF IInv, TypeOK
  <2>3. lineage' = [lineage EXCEPT ![d] = [lineage[d] EXCEPT !.state = "continuation-planned",
                                              !.successor = s, !.continuation = c]]
    BY <1>1, <2>1, <2>2
  <2>4. \A l \in Lineage :
          LET m == [l EXCEPT !.state = "continuation-planned", !.successor = s, !.continuation = c]
          IN  m \in Lineage /\ m.state = "continuation-planned" /\ m.successor = s /\ m.continuation = c
    <3> SUFFICES ASSUME NEW l \in Lineage,
                        NEW m, m = [l EXCEPT !.state = "continuation-planned", !.successor = s, !.continuation = c]
                 PROVE  m \in Lineage /\ m.state = "continuation-planned" /\ m.successor = s /\ m.continuation = c
      OBVIOUS
    <3>1. m.state = "continuation-planned" /\ m.successor = s /\ m.continuation = c
      BY SMT DEF Lineage
    <3>2. m = [[[l EXCEPT !.state = "continuation-planned"] EXCEPT !.successor = s] EXCEPT !.continuation = c]
      OBVIOUS
    <3>3. \A k \in Lineage : /\ [k EXCEPT !.state = "continuation-planned"] \in Lineage
                             /\ [k EXCEPT !.successor = s] \in Lineage
                             /\ [k EXCEPT !.continuation = c] \in Lineage
      BY <2>2, SMT DEF Lineage
    <3> QED
      BY <3>1, <3>2, <3>3
  <2> QED
    BY <2>1, <2>2, <2>3, <2>4
<1>8. OthersKept
  <2> SUFFICES ASSUME NEW d \in Dispatch, d # d0, d # c PROVE Kept(d)
    BY <1>3 DEF OthersKept
  <2>1. d # None
    BY DispatchAssumption
  <2>2. \A p \in Dispatch : (lineage'[p].continuation = d) <=> (lineage[p].continuation = d)
    BY <1>5, <1>7, <2>1
  <2> QED
    BY <1>1, <1>7, <2>2 DEF Kept
<1>9. Holds(Top)'
  <2>1. Located(Top)' /\ Journalled(Top)' /\ Processed(Top)'
    BY <1>1, <1>2, <1>6, SMT DEF Holds, Located, Journalled, Processed, Early, Late, Turn,
       Unsettled, Handing, Wrapped
  <2>2. \A p \in Dispatch : lineage[p].continuation # d0 => lineage'[p].continuation # d0
    BY <1>3, <1>7
  <2>3. Top.kind = "continuation" => /\ Top.parent \in Dispatch /\ Top.parent # d0
                                     /\ lineage'[Top.parent].continuation = d0
    <3>1. d0 # None
      BY <1>2, DispatchAssumption
    <3> QED
      BY <1>2, <1>5, <1>7, <3>1 DEF Holds, Inherited
  <2>4. Inherited(Top)'
    <3>1. Top.kind \in {"work", "acceptance"} => \A p \in Dispatch : lineage'[p].continuation # d0
      BY <1>2, <2>2 DEF Holds, Inherited
    <3> QED
      BY <1>1, <1>6, <1>7, <2>3, <3>1 DEF Inherited
  <2> QED
    BY <2>1, <2>4 DEF Holds
<1>10. /\ Nesting' /\ Calls' /\ Len(stack') = Len(stack)
       /\ \A i \in 1 .. Len(stack) : stack'[i].dispatch = stack[i].dispatch
  BY <1>1, <1>2, <1>8, <1>9, GotoStep DEF Steps
<1>11. Innermost'
  <2>1. \A i \in 1 .. Len(stack') : stack'[i].dispatch # c
    BY <1>3, <1>10
  <2> QED
    BY <1>1, <1>3, <1>4, <1>6, <1>7, <2>1 DEF Innermost, Pending
<1>12. Rows'
  BY <1>1 DEF IInv, Rows, Consumed, Unresolved
<1>13. InProgress' /\ TransferExclusive'
  BY <1>1, <1>2 DEF InProgress, TransferExclusive
<1>14. Lineages'
  <2>1. CompletedTransferContinued'
    BY <1>1, <1>7 DEF IInv, Lineages, CompletedTransferContinued
  <2>2. ASSUME NEW p \in Dispatch, NEW e, e = lineage'[p].continuation
        PROVE  /\ lineage'[p].state \in {"none", "acceptance-pending"} <=> e = None
               /\ e # None => /\ lineage'[p].successor \in accepted'
                              /\ op'[e] \in Sent => sess'[e] = lineage'[p].successor
                              /\ \A q \in Dispatch : lineage'[q].continuation = e => q = p
    <3>1. CASE p = d0
      BY <1>1, <1>3, <1>4, <1>7, <2>2, <3>1 DEF Sent
    <3>2. CASE p # d0
      BY <1>1, <1>3, <1>7, <2>2, <3>2 DEF IInv, Lineages
    <3> QED
      BY <3>1, <3>2
  <2> QED
    BY <2>1, <2>2 DEF Lineages
<1>15. TypeOK'
  BY <1>1, <1>6, <1>7 DEF IInv, TypeOK
<1> QED
  BY <1>10, <1>11, <1>12, <1>13, <1>14, <1>15 DEF IInv

-----------------------------------------------------------------------------
(* The host process.                                                        *)

LEMMA StartHostKeeps ==
  ASSUME IInv, StartHost
  PROVE  IInv'
<1>1. /\ host = "down" /\ host' = "up" /\ stack' = stack /\ current' \in Session \cup {None}
      /\ lease' \in Session \cup {None}
      /\ op' = [d \in Dispatch |-> IF d \in Unresolved THEN "failed" ELSE op[d]]
      /\ UNCHANGED <<kind, sess, claim, answer, processing, published, lineage, accepted, candidate>>
  BY DEF StartHost, FreshSessions, IInv, TypeOK
<1>2. stack' = <<>>
  BY <1>1 DEF IInv, Nesting
<1>3. Nesting' /\ Calls' /\ Innermost' /\ stack' \in Seq(Frame)
  BY <1>2, NoCall
<1>4. \A d \in Dispatch : /\ op'[d] = op[d] \/ (op[d] \in {"in_progress", "uncertain"} /\ op'[d] = "failed")
                          /\ op'[d] \notin {"in_progress", "uncertain"}
  BY <1>1 DEF Unresolved
<1>5. Rows'
  BY <1>1, <1>4 DEF IInv, Rows, Consumed, Unresolved
<1>6. InProgress' /\ TransferExclusive'
  BY <1>4 DEF InProgress, TransferExclusive
<1>7. Lineages'
  <2>1. \A p \in Dispatch : lineage[p].continuation \in Dispatch \cup {None}
    BY SMT DEF IInv, TypeOK, Lineage
  <2>2. \A d \in Dispatch : (op'[d] \in Sent => op[d] \in Sent) /\ (op[d] = "confirmed" => op'[d] = "confirmed")
    BY <1>4 DEF Sent
  <2>3. CompletedTransferContinued'
    BY <1>1, <2>1, <2>2 DEF IInv, Lineages, CompletedTransferContinued
  <2> QED
    BY <1>1, <2>1, <2>2, <2>3 DEF IInv, Lineages
<1>8. TypeOK'
  BY <1>1, <1>3 DEF IInv, TypeOK, OpStatus
<1> QED
  BY <1>3, <1>5, <1>6, <1>7, <1>8 DEF IInv

LEMMA CrashKeeps ==
  ASSUME IInv, Crash
  PROVE  IInv'
<1>1. /\ host' = "down" /\ stack' = <<>> /\ current' = None /\ candidate' = None
      /\ UNCHANGED <<op, kind, sess, claim, answer, processing, published, lineage, lease, accepted>>
  BY DEF Crash, journal, handoff
<1>2. Nesting' /\ Calls' /\ Innermost' /\ stack' \in Seq(Frame)
  BY <1>1, NoCall
<1>3. Rows' /\ Lineages' /\ TransferExclusive'
  BY <1>1 DEF IInv, Rows, Consumed, Unresolved, Lineages, CompletedTransferContinued, TransferExclusive, Transfers
<1>4. InProgress'
  BY <1>1 DEF IInv, InProgress, Pending
<1>5. TypeOK'
  BY <1>1, <1>2 DEF IInv, TypeOK
<1> QED
  BY <1>2, <1>3, <1>4, <1>5 DEF IInv

-----------------------------------------------------------------------------
(* The invariant, and what follows from it.                                 *)

LEMMA InitInv == Init => IInv
<1> SUFFICES ASSUME Init PROVE IInv
  OBVIOUS
<1>1. stack \in Seq(Frame) /\ Len(stack) = 0
  BY SMT DEF Init
<1>2. ~ (\E i \in 1 .. 0 : TRUE) /\ ~ (\E i \in 1 .. 0 - 1 : TRUE)
  BY SMT
<1>3. Nesting /\ Calls /\ Innermost
  BY <1>1, <1>2 DEF Init, Nesting, Calls, Innermost
<1>4. \A d \in Dispatch : lineage[d] = [state |-> "none", acceptance |-> None,
                                        continuation |-> None, successor |-> None]
  BY DEF Init
<1>5. lineage \in [Dispatch -> Lineage]
  BY SMT DEF Init, Lineage
<1>6. TypeOK
  BY <1>1, <1>5 DEF Init, TypeOK, OpStatus
<1>7. Rows /\ InProgress /\ TransferExclusive
  BY SMT DEF Init, Rows, InProgress, TransferExclusive, Consumed, Unresolved
<1>8. Lineages
  <2>1. \A p \in Dispatch : lineage[p].state = "none" /\ lineage[p].continuation = None
    BY <1>4
  <2> QED
    BY <2>1 DEF Lineages, CompletedTransferContinued
<1> QED
  BY <1>3, <1>6, <1>7, <1>8 DEF IInv

LEMMA StutterKeeps ==
  ASSUME IInv, UNCHANGED vars
  PROVE  IInv'
<1>1. UNCHANGED <<op, kind, sess, claim, answer, processing, published, lineage, lease, accepted,
                  host, current, candidate, stack, reply>>
  BY DEF vars, journal, handoff, machine, transfer
<1>2. TypeOK'
  BY <1>1 DEF IInv, TypeOK
<1>3. Nesting' /\ Innermost'
  BY <1>1 DEF IInv, Nesting, Waits, Innermost, Top, d0, Pending, Transfers
<1>4. Calls'
  BY <1>1 DEF IInv, Calls, Holds, Located, Journalled, Processed, Inherited, Pending
<1>5. Rows' /\ Lineages' /\ TransferExclusive' /\ InProgress'
  BY <1>1 DEF IInv, Rows, Consumed, Unresolved, Lineages, CompletedTransferContinued,
     TransferExclusive, Transfers, InProgress, Pending, Top, d0
<1> QED
  BY <1>2, <1>3, <1>4, <1>5 DEF IInv

LEMMA InvStep ==
  ASSUME IInv, [Next]_vars
  PROVE  IInv'
<1>1. CASE Send
  <2>1. CASE \E d \in Dispatch : StartWork(d) \/ DrainPublication(d)
    BY <2>1, BeginningCalls, DrainPublicationKeeps
  <2>2. CASE PlanOperation \/ RefuseAdmission \/ FailPreparation \/ SealDispatch
    BY <2>2, PlanOperationKeeps, GivingUp, FailPreparationKeeps, SealDispatchKeeps
  <2>3. CASE claimStructuredSubmission \/ consumeStructuredSubmission \/ RefuseSubmission \/ LoseAnswer
    BY <2>3, ClaimKeeps, ConsumeKeeps, TurnFails
  <2>4. CASE \E a \in {"final", "handoff", "ack", "refusal"} : ConfirmAnswer(a)
    BY <2>4, ConfirmAnswerKeeps
  <2> QED
    BY <1>1, <2>1, <2>2, <2>3, <2>4 DEF Send
<1>2. CASE Process
  BY <1>2, PublishCheckpointKeeps, BeginHandoffKeeps, GivingUp, SettleKeeps, FinishKeeps DEF Process
<1>3. CASE Transfer
  <2>1. CASE \E d \in Dispatch, s \in Session : OfferHandoff(d, s)
    BY <2>1, OfferHandoffKeeps
  <2>2. CASE \E c \in Dispatch : planStructuredContinuation(c)
    BY <2>2, PlanContinuationKeeps
  <2>3. CASE StartTransfer \/ acceptHandoff \/ SwitchSession \/ adoptValidatedSuccessor
    BY <2>3, BeginningCalls, AcceptHandoffKeeps, SwitchKeeps, AdoptKeeps
  <2>4. CASE FailTransfer \/ RejectSuccessor \/ FailAcceptance \/ FailAccepted \/ RefuseSuccessor \/ Continued
    BY <2>4, GivingUp, GoingOn
  <2> QED
    BY <1>3, <2>1, <2>2, <2>3, <2>4 DEF Transfer
<1>4. CASE StartHost \/ Crash
  BY <1>4, StartHostKeeps, CrashKeeps
<1>5. CASE UNCHANGED vars
  BY <1>5, StutterKeeps
<1> QED
  BY <1>1, <1>2, <1>3, <1>4, <1>5 DEF Next

(* The calls in progress and the rows agree in every reachable state.       *)
THEOREM DispatchInvariant == Spec => []IInv
<1>1. Init => IInv
  BY InitInv
<1>2. IInv /\ [Next]_vars => IInv'
  BY InvStep
<1> QED
  BY <1>1, <1>2, PTL DEF Spec

(* No instruction is submitted while it is unknown whether an earlier one   *)
(* was carried out: a turn is consumed only when it alone is unresolved.    *)
THEOREM UnknownWorkIsOne == Spec => []OneUnknownWork
<1>1. IInv => OneUnknownWork
  <2> SUFFICES ASSUME IInv PROVE OneUnknownWork
    OBVIOUS
  <2>1. \A d, e \in Consumed \cap Unresolved : d = e
    BY DEF IInv, Rows
  <2>2. CASE Consumed \cap Unresolved = {}
    BY <2>2, FS_EmptySet, SMT DEF OneUnknownWork
  <2>3. CASE Consumed \cap Unresolved # {}
    <3>1. PICK d : Consumed \cap Unresolved = {d}
      BY <2>1, <2>3
    <3>2. Cardinality({d}) = 1
      BY FS_Singleton
    <3>3. Cardinality(Consumed \cap Unresolved) = 1
      BY <3>1, <3>2
    <3> QED
      BY <3>3, SMT DEF OneUnknownWork
  <2> QED
    BY <2>2, <2>3
<1> QED
  BY <1>1, DispatchInvariant, PTL

(* Whatever dispatch is in progress, every answer confirmed before it has   *)
(* its checkpoint, also after a crash between the answer and the checkpoint. *)
THEOREM AnswersArePublished == Spec => []AllPublishedBeforeDispatch
<1>1. IInv => AllPublishedBeforeDispatch
  BY DEF IInv, Rows, InProgress, Pending, AllPublishedBeforeDispatch
<1> QED
  BY <1>1, DispatchInvariant, PTL

(* While a handoff is open, nothing is in progress except its own           *)
(* acceptance and its own continuation.                                     *)
THEOREM TransfersExclude == Spec => []TransferExclusive
<1>1. IInv => TransferExclusive
  BY DEF IInv
<1> QED
  BY <1>1, DispatchInvariant, PTL

(* A handoff is recorded as complete only after its frozen action was       *)
(* carried on by the accepted successor and its answer was published.       *)
THEOREM TransfersComplete == Spec => []CompletedTransferContinued
<1>1. IInv => CompletedTransferContinued
  BY DEF IInv, Lineages
<1> QED
  BY <1>1, DispatchInvariant, PTL

(* The role leaves a session only for one whose own acceptance turn was     *)
(* confirmed with an acknowledgement.                                       *)
THEOREM LeaseMoves == Spec => LeaseMovesByAcknowledgement
<1> DEFINE Moves == lease' # lease /\ lease # None =>
                      \E a \in Dispatch : /\ kind[a] = "acceptance" /\ op[a] = "confirmed"
                                          /\ answer[a] = "ack" /\ sess[a] = lease'
<1>1. IInv /\ [Next]_vars => [Moves]_vars
  <2> SUFFICES ASSUME IInv, Next, lease' # lease, lease # None PROVE Moves
    OBVIOUS
  <2>1. acceptHandoff \/ StartHost
    BY SMT DEF Next, Send, Process, Transfer, StartWork, DrainPublication, PlanOperation, RefuseAdmission,
       FailPreparation, SealDispatch, claimStructuredSubmission, consumeStructuredSubmission, RefuseSubmission,
       ConfirmAnswer, LoseAnswer, PublishCheckpoint, beginStructuredHandoff, RefuseHandoff, SettlePublication,
       completeStructuredPostprocessing, finishStructuredContinuation, Rethrow, StartTransfer, OfferHandoff,
       FailTransfer, RejectSuccessor, FailAcceptance, FailAccepted, SwitchSession, planStructuredContinuation,
       adoptValidatedSuccessor, RefuseSuccessor, Continued, Crash, handoff
  <2>2. acceptHandoff
    BY <2>1 DEF StartHost
  <2>3. /\ At("accepting") /\ reply = "answered" /\ answer[LastAcceptance] = "ack" /\ lease' = candidate
    BY <2>2 DEF acceptHandoff, Acknowledged
  <2>4. /\ LastAcceptance \in Dispatch /\ kind[LastAcceptance] = "acceptance"
        /\ sess[LastAcceptance] = candidate
    BY <2>3, AcceptanceExists
  <2>5. op[LastAcceptance] = "confirmed"
    BY <2>3, <2>4 DEF IInv, Rows
  <2> QED
    BY <2>3, <2>4, <2>5
<1> QED
  BY <1>1, DispatchInvariant, PTL DEF Spec, LeaseMovesByAcknowledgement
===============================================================================
