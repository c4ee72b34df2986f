---------------------------- MODULE OrderLedger ----------------------------
(***************************************************************************)
(* What the shop promises about the money of an order, with no webhook,    *)
(* handler or queue in sight: an order is opened once, it is settled only  *)
(* after it is opened and never becomes pending again, it is settled as    *)
(* paid only if the gateway captured the money, and a receipt is mailed    *)
(* only for captured money.  A settlement may still change between PAID    *)
(* and FAILED: the code allows it when two notices race.                   *)
(***************************************************************************)
CONSTANT Order

VARIABLES status, captured, receipted

vars == <<status, captured, receipted>>

OrderStatus == {"NONE", "PENDING", "PAID", "FAILED"}

Init ==
    /\ status = [o \in Order |-> "NONE"]
    /\ captured = {}
    /\ receipted = {}

Open(o) ==
    /\ status[o] = "NONE"
    /\ status' = [status EXCEPT ![o] = "PENDING"]
    /\ UNCHANGED <<captured, receipted>>

Capture(o) ==
    /\ status[o] # "NONE"
    /\ captured' = captured \cup {o}
    /\ UNCHANGED <<status, receipted>>

Settle(o, outcome) ==
    /\ status[o] # "NONE"
    /\ outcome = "PAID" => o \in captured
    /\ status' = [status EXCEPT ![o] = outcome]
    /\ UNCHANGED <<captured, receipted>>

SendReceipt(o) ==
    /\ o \in captured
    /\ receipted' = receipted \cup {o}
    /\ UNCHANGED <<status, captured>>

Next == \E o \in Order :
    \/ Open(o)
    \/ Capture(o)
    \/ \E outcome \in {"PAID", "FAILED"} : Settle(o, outcome)
    \/ SendReceipt(o)

Spec == Init /\ [][Next]_vars

=============================================================================
