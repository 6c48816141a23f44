-------------------------- MODULE DeliveryContract --------------------------
(***************************************************************************)
(* What the service promises about accepted transactions, without stores,  *)
(* leases, tokens, workers or time: a transaction is accepted at most once *)
(* per identity and together with its event, an event is delivered at      *)
(* least once before it counts as published, every failed attempt counts   *)
(* once, and an event is given up exactly after MaxAttempts of them.       *)
(***************************************************************************)
EXTENDS Naturals

CONSTANTS Identities, Events, NoId, MaxAttempts

VARIABLES
    ledger,     \* ledger[i]: the ID under which identity i was accepted
    delivery,   \* delivery[e]: state and failed attempts of event e
    topic       \* events consumers can see

contractVars == <<ledger, delivery, topic>>

Init ==
    /\ ledger = [i \in Identities |-> NoId]
    /\ delivery = [e \in Events |-> [status |-> "absent", attempts |-> 0]]
    /\ topic = {}

(* The first acceptance of an identity creates its one event.              *)
Accept(i, e) ==
    /\ ledger[i] = NoId
    /\ delivery[e].status = "absent"
    /\ ledger' = [ledger EXCEPT ![i] = e]
    /\ delivery' = [delivery EXCEPT ![e].status = "pending"]
    /\ UNCHANGED topic

(* At least once: a slow worker may deliver what is settled already, but   *)
(* only events of committed transactions are ever delivered.               *)
Deliver(e) ==
    /\ delivery[e].status # "absent"
    /\ topic' = topic \cup {e}
    /\ UNCHANGED <<ledger, delivery>>

Complete(e) ==
    /\ delivery[e].status = "pending"
    /\ e \in topic
    /\ delivery' = [delivery EXCEPT ![e].status = "published"]
    /\ UNCHANGED <<ledger, topic>>

FailAttempt(e) ==
    /\ delivery[e].status = "pending"
    /\ delivery' = [delivery EXCEPT
          ![e] = [attempts |-> @.attempts + 1,
                  status   |-> IF @.attempts + 1 = MaxAttempts
                               THEN "failed" ELSE "pending"]]
    /\ UNCHANGED <<ledger, topic>>

Next ==
    \/ \E i \in Identities, e \in Events : Accept(i, e)
    \/ \E e \in Events : Deliver(e) \/ Complete(e) \/ FailAttempt(e)

Spec == Init /\ [][Next]_contractVars

=============================================================================
