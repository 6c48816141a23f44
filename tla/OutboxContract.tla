--------------------------- MODULE OutboxContract ---------------------------
(***************************************************************************)
(* What is left of DeliveryContract when nobody counts failed attempts: a  *)
(* transaction is accepted at most once per key and together with its      *)
(* event, what is delivered is stored, an event is delivered before it     *)
(* counts as published, and a settled event stays settled.                 *)
(***************************************************************************)
CONSTANTS Keys, Events, NoId

VARIABLES
    ledger,   \* ledger[k]: the ID under which key k was accepted
    status,   \* status[e]: state of event e
    topic     \* events consumers can see

contractVars == <<ledger, status, topic>>

Init ==
    /\ ledger = [k \in Keys |-> NoId]
    /\ status = [e \in Events |-> "absent"]
    /\ topic = {}

Accept(k, e) ==
    /\ ledger[k] = NoId
    /\ status[e] = "absent"
    /\ ledger' = [ledger EXCEPT ![k] = e]
    /\ status' = [status EXCEPT ![e] = "pending"]
    /\ UNCHANGED topic

(* At least once, and possibly after the event was settled.                *)
Deliver(e) ==
    /\ status[e] # "absent"
    /\ topic' = topic \cup {e}
    /\ UNCHANGED <<ledger, status>>

Complete(e) ==
    /\ status[e] = "pending"
    /\ e \in topic
    /\ status' = [status EXCEPT ![e] = "published"]
    /\ UNCHANGED <<ledger, topic>>

GiveUp(e) ==
    /\ status[e] = "pending"
    /\ status' = [status EXCEPT ![e] = "failed"]
    /\ UNCHANGED <<ledger, topic>>

Next ==
    \/ \E k \in Keys, e \in Events : Accept(k, e)
    \/ \E e \in Events : Deliver(e) \/ Complete(e) \/ GiveUp(e)

Spec == Init /\ [][Next]_contractVars

=============================================================================
