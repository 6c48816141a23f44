----------------------------- MODULE MCPostgres -----------------------------
(* Constants for the PostgreSQL service: bodies b1 and b1x differ only in  *)
(* what canonicalisation removes, b2 is other content, bad is invalid.     *)
EXTENDS PostgresService, TLC

CONSTANTS b1, b1x, b2, bad, BaseDelay, MaxDelay

B == INSTANCE Backoff

MCValid == Bodies \ {bad}

MCCanonical == [b \in Bodies |-> IF b = b1x THEN b1 ELSE b]

MCRetryDelay == [n \in 1..MaxAttempts |-> B!retryDelay(n, BaseDelay, MaxDelay)]

MCTokens == 1..4

(* Contents of two requests up to a renaming that no step can tell: the    *)
(* same, other or invalid content for one identity, or two identities,     *)
(* whose contents are never compared.  An invalid request, which never     *)
(* reaches the store, comes with a valid one of the same identity only.    *)
ContentsInit ==
    /\ Init
    /\ \E r \in Requests : request[r].body = b1
    /\ \A r, s \in Requests :
          request[r].identity # request[s].identity => request[r].body = b1

SpecUpToRenaming == ContentsInit /\ [][Next]_vars

(* All requests have been accepted and answered, and no worker has         *)
(* started.  Reached from Init by requests only.                           *)
OwnIdentity ==
    CHOOSE f \in [Requests -> Identities] :
        \A d, e \in Requests : f[d] = f[e] => d = e

BacklogInit ==
    /\ request = [r \in Requests |->
                    [pc |-> "answered", identity |-> OwnIdentity[r], body |-> b1,
                     occurred_at |-> 0, reply |-> [code |-> "created", id |-> r]]]
    /\ transactions = [i \in Identities |->
                         LET r == CHOOSE r \in Requests : OwnIdentity[r] = i
                         IN  [id |-> r, fingerprint |-> Acceptance(r).fingerprint]]
    /\ writing = [i \in Identities |-> NoId]
    /\ outbox = [e \in Requests |-> [AbsentEvent EXCEPT !.status = "pending"]]
    /\ session = [r \in Requests |-> Closed]
    /\ DispatcherInit
    /\ faults = 0

FairSpecFromBacklog == BacklogInit /\ [][Next]_vars /\ Fairness

RequestSymmetry == Permutations(Requests) \cup Permutations(Identities)

ServiceSymmetry == RequestSymmetry \cup Permutations(Workers)

=============================================================================
