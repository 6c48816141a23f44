------------------------------- MODULE Ports -------------------------------
(***************************************************************************)
(* The values that cross the ports of the application core: what the HTTP  *)
(* handler hands to IntakeService.Accept, what that hands to a store, and  *)
(* what a store hands to the Dispatcher.                                   *)
(*                                                                         *)
(* A request r draws two fresh IDs (event ID and transaction ID, newID).   *)
(* They are drawn by that request only and are stored and returned         *)
(* together, so both are named by the request: the set Requests is also    *)
(* the set of transaction IDs and of event IDs.                            *)
(***************************************************************************)
EXTENDS Integers, Sequences

CONSTANTS
    Requests,     \* HTTP requests; a client's retry is another request
    Identities,   \* pairs (source, source_reference)
    Bodies,       \* the other fields of a transaction
    ValidBodies,  \* bodies that Transaction.Validate accepts
    Canonical,    \* Canonical[b]: what canonicalisation keeps of body b
    NoId,         \* the empty ID
    Tokens,       \* claim tokens (rand.Text)
    NoToken       \* the NULL or empty token

ASSUME BodiesAssumption ==
    /\ ValidBodies \subseteq Bodies
    /\ Canonical \in [Bodies -> Bodies]

ASSUME NullAssumption ==
    /\ NoId \notin Requests
    /\ NoToken \notin Tokens

(* Transaction.Validate with the configured transaction types.             *)
Validate(body) == body \in ValidBodies

Ids == Requests \cup {NoId}

(* SHA-256 of the canonical JSON of every field but the system ID: equal   *)
(* exactly when source, reference and canonical body are.                  *)
Fingerprint(identity, body) == <<identity, Canonical[body]>>

Fingerprints == Identities \X Bodies

(* Acceptance: the transaction, its fingerprint and its outbox event, the  *)
(* argument of TransactionStore.Accept.                                    *)
Acceptances == [id: Requests, identity: Identities,
                fingerprint: Fingerprints, occurred_at: Nat]

(* StoreOutcome, with "error" for a non-nil error.                         *)
Outcomes == [kind: {"accepted", "replay", "conflict", "error"}, id: Ids]

StoreAccepted(id) == [kind |-> "accepted", id |-> id]
StoreReplay(id)   == [kind |-> "replay", id |-> id]
StoreConflict     == [kind |-> "conflict", id |-> NoId]
StoreError        == [kind |-> "error", id |-> NoId]

(* PendingEvent: the event, the attempts it had, the token of the claim.   *)
PendingEvents == [event: Requests, attempts: Nat, token: Tokens]

(* PublishFailure.                                                         *)
Failures == [event: Requests, token: Tokens, attempts: Nat,
             terminal: BOOLEAN, retry_at: Nat]

=============================================================================
