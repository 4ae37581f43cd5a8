-------------------------- MODULE MCTicketDelivery --------------------------
(* Instances of TicketDelivery: two tickets, apart or one after the other.      *)
EXTENDS TicketDelivery, TLC

CONSTANTS t1, t2

InOrder == <<t1, t2>>
Apart == t1 :> {} @@ t2 :> {}
Chained == t1 :> {} @@ t2 :> {t1}
Runs(ways, checked, dependencies, invocations, byHand) ==
    {[completion |-> c, qa |-> q, deps |-> dependencies, starts |-> invocations,
      touches |-> byHand] :
        c \in ways, q \in checked}
EveryRun == Runs({"merge"}, {TRUE}, Chained, 3, 1) \cup Runs({"merge"}, {TRUE}, Apart, 1, 2)
            \cup Runs({"review"}, {TRUE}, Chained, 2, 1) \cup Runs({"none"}, {TRUE}, Chained, 2, 1)
            \cup Runs({"review"}, {FALSE}, Chained, 2, 1) \cup Runs({"merge"}, {FALSE}, Chained, 2, 2)
=============================================================================
