------------------------------ MODULE MCDynamo ------------------------------
(* Constants for the DynamoDB service; bodies as in MCPostgres.            *)
EXTENDS DynamoService, TLC

CONSTANTS b1, b1x, b2, bad, BaseDelay, MaxDelay

B == INSTANCE Backoff

MCValid == Bodies \ {bad}

MCCanonical == [b \in Bodies |-> IF b = b1x THEN b1 ELSE b]

MCRetryDelay == [n \in 1..MaxAttempts |-> B!retryDelay(n, BaseDelay, MaxDelay)]

MCTokens == 1..5

(* Requests are numbers; one ID sorts before the other.                    *)
MCRank == [e \in Requests |-> e]

MCKey == [i \in Identities |-> i]

OwnIdentity ==
    CHOOSE f \in [Requests -> Identities] :
        \A d, e \in Requests : f[d] = f[e] => d = e

(* All requests have just been submitted: Submit is all that led here.     *)
SubmittedInit ==
    /\ request = [r \in Requests |->
                    [pc |-> "accepting", identity |-> OwnIdentity[r], body |-> b1,
                     occurred_at |-> 0, reply |-> NoReply]]
    /\ DispatcherInit
    /\ transactions = [k \in Keys |-> NoItem]
    /\ outbox = [e \in Requests |-> AbsentEvent]
    /\ index = [e \in Requests |-> AbsentEvent]
    /\ session = [r \in Requests |-> [Closed EXCEPT !.pc = "read"]]
    /\ claim = [w \in Workers |-> NoClaim]
    /\ faults = 0

SpecFromSubmitted == SubmittedInit /\ [][Next]_vars

(* All requests have been accepted and answered, and the index knows.  A   *)
(* worker has failed twice to publish the first event, at times 0 and 1,   *)
(* which is not due before time 3 and leads the first page of each query;  *)
(* it has not claimed the others.  Reached from Init without a fault.      *)
Deferred == {e \in Requests : e = 1}

BacklogInit ==
    /\ request = [r \in Requests |->
                    [pc |-> "answered", identity |-> OwnIdentity[r], body |-> b1,
                     occurred_at |-> 0, reply |-> [code |-> "created", id |-> r]]]
    /\ transactions = [k \in Keys |->
                         LET r == CHOOSE r \in Requests : Key[OwnIdentity[r]] = k
                         IN  [id |-> r, fingerprint |-> Acceptance(r).fingerprint]]
    /\ outbox = [e \in Requests |->
                   IF e \in Deferred
                   THEN [AbsentEvent EXCEPT !.status = "pending", !.attempts = 2,
                                            !.retry_at = 1 + RetryDelay[2]]
                   ELSE [AbsentEvent EXCEPT !.status = "pending"]]
    /\ index = outbox
    /\ session = [r \in Requests |-> Closed]
    /\ claim = [w \in Workers |-> NoClaim]
    /\ worker = [w \in Workers |-> Idle]
    /\ topic = {}
    /\ clock = 1
    /\ faults = 0

FairSpecFromBacklog == BacklogInit /\ [][Next]_vars /\ Fairness

IdentitySymmetry == Permutations(Identities)

WorkerSymmetry == Permutations(Workers)

ServiceSymmetry == IdentitySymmetry \cup WorkerSymmetry

=============================================================================
