----------------------------- MODULE DynamoStore -----------------------------
(***************************************************************************)
(* The DynamoDB store: one table with a transaction item per identity and  *)
(* an outbox item per event, and the index outbox-dispatch, an eventually  *)
(* consistent copy of the pending outbox items.  Every call of the client  *)
(* is a step; Accept and ClaimPending make several of them.                *)
(***************************************************************************)
EXTENDS Dispatcher, FiniteSets, Timestamps

CONSTANTS
    Keys,   \* strings "TX#" + source + "#" + source_reference
    Key,    \* Key[i]: the string of identity i
    Rank    \* Rank[e]: place of event ID e in string order

ASSUME DynamoStoreAssumption ==
    /\ Key \in [Identities -> Keys]
    /\ Rank \in [Requests -> Nat]
    /\ \A d, e \in Requests : Rank[d] = Rank[e] => d = e

VARIABLES
    transactions,   \* the transaction item of each identity key
    outbox,         \* the outbox item of each event
    index,          \* the copy of the outbox item that the index holds
    session,        \* session[r]: where the Accept of request r has got to
    claim           \* claim[w]: progress of the ClaimPending of worker w

tableVars == <<transactions, outbox>>
storeVars == <<tableVars, index, session, claim>>

NoItem == [id |-> NoId, fingerprint |-> <<>>]

(* A time attribute that is not there.                                     *)
NoTime == -1

(* The dispatch key is there as long as the status is "pending": both are  *)
(* written by the same updates.                                            *)
AbsentEvent == [status |-> "absent", occurred_at |-> 0, attempts |-> 0,
                retry_at |-> NoTime, lease_until |-> NoTime, claim_token |-> NoToken]

OutboxItems == [status: {"absent", "pending", "published", "failed"},
                occurred_at: Nat, attempts: Nat, retry_at: Nat \cup {NoTime},
                lease_until: Nat \cup {NoTime}, claim_token: Tokens \cup {NoToken}]

Closed == [pc |-> "closed", outcome |-> StoreError]

(* The locals of ClaimPending before its first query: the page still to be *)
(* leased, the cursor, whether to query again, and the events claimed.     *)
NoClaim == [page |-> {}, cursor |-> NoId, more |-> TRUE, claimed |-> <<>>]

StoreType ==
    /\ transactions \in [Keys ->
                          [id: Requests, fingerprint: Fingerprints] \cup {NoItem}]
    /\ outbox \in [Requests -> OutboxItems]
    /\ index \in [Requests -> OutboxItems]
    /\ session \in [Requests ->
                     [pc: {"closed", "read", "write", "reread", "returned"},
                      outcome: Outcomes]]
    /\ claim \in [Workers ->
                   [page: SUBSET [event: Requests, attempts: Nat], cursor: Ids,
                    more: BOOLEAN, claimed: Seq(PendingEvents)]]

StoreInit ==
    /\ transactions = [k \in Keys |-> NoItem]
    /\ outbox = [e \in Requests |-> AbsentEvent]
    /\ index = [e \in Requests |-> AbsentEvent]
    /\ session = [r \in Requests |-> Closed]
    /\ claim = [w \in Workers |-> NoClaim]

-----------------------------------------------------------------------------
(* Accept(a), call by call.                                                *)

Goto(a, pc) ==
    session' = [session EXCEPT ![a.id].pc = pc]

Return(a, outcome) ==
    session' = [session EXCEPT ![a.id] = [pc |-> "returned", outcome |-> outcome]]

Item(a) == transactions[Key[a.identity]]

Begin(a) ==
    /\ session[a.id].pc = "closed"
    /\ Goto(a, "read")
    /\ UNCHANGED <<tableVars, index, claim>>

Classified(a) ==
    IF Item(a).fingerprint = a.fingerprint THEN StoreReplay(Item(a).id)
                                           ELSE StoreConflict

(* The strongly consistent readIdentity that opens Accept.                 *)
ReadIdentity(a) ==
    /\ session[a.id].pc = "read"
    /\ IF Item(a) # NoItem THEN Return(a, Classified(a)) ELSE Goto(a, "write")
    /\ UNCHANGED <<tableVars, index, claim>>

(* Both items, or none.                                                    *)
PutItems(a) ==
    /\ transactions' = [transactions EXCEPT ![Key[a.identity]] =
                          [id |-> a.id, fingerprint |-> a.fingerprint]]
    /\ outbox' = [outbox EXCEPT ![a.id] =
                    [AbsentEvent EXCEPT !.status = "pending",
                                        !.occurred_at = a.occurred_at]]

(* Mutant of TransactWriteItems: no attribute_not_exists condition.        *)
TransactWriteItemsUnconditional(a) ==
    /\ session[a.id].pc = "write"
    /\ PutItems(a)
    /\ Return(a, StoreAccepted(a.id))
    /\ UNCHANGED <<index, claim>>

(* The conditional transactional write.                                    *)
TransactWriteItems(a) ==
    /\ session[a.id].pc = "write"
    /\ IF Item(a) = NoItem
       THEN PutItems(a) /\ Return(a, StoreAccepted(a.id))
       ELSE Goto(a, "reread") /\ UNCHANGED tableVars
    /\ UNCHANGED <<index, claim>>

(* Cancelled although nothing exists: it met another transaction.          *)
WriteCancelled(a) ==
    /\ session[a.id].pc = "write"
    /\ Goto(a, "reread")
    /\ UNCHANGED <<tableVars, index, claim>>

(* The write took effect but no answer came.                               *)
WriteUnknown(a) ==
    /\ session[a.id].pc = "write"
    /\ Item(a) = NoItem
    /\ PutItems(a)
    /\ Return(a, StoreError)
    /\ UNCHANGED <<index, claim>>

(* Mutant of Reclassify: a missing item passes for other content.          *)
ReclassifyUnchecked(a) ==
    /\ session[a.id].pc = "reread"
    /\ Return(a, Classified(a))
    /\ UNCHANGED <<tableVars, index, claim>>

(* readIdentity after TransactionCanceledException: if there is still no   *)
(* item, the cancellation is the error.                                    *)
Reclassify(a) ==
    /\ session[a.id].pc = "reread"
    /\ Return(a, IF Item(a) = NoItem THEN StoreError ELSE Classified(a))
    /\ UNCHANGED <<tableVars, index, claim>>

(* A call fails without effect.                                            *)
CallError(a) ==
    /\ session[a.id].pc \in {"read", "write", "reread"}
    /\ Return(a, StoreError)
    /\ UNCHANGED <<tableVars, index, claim>>

Disconnect(a) ==
    /\ session' = [session EXCEPT ![a.id] = Closed]
    /\ UNCHANGED <<tableVars, index, claim>>

-----------------------------------------------------------------------------
(* The index follows the table in its own time.                            *)
Propagate(e) ==
    /\ index[e] # outbox[e]
    /\ index' = [index EXCEPT ![e] = outbox[e]]
    /\ UNCHANGED <<tableVars, session, claim>>

(* The order of the index: dispatch_sk = timestamp(OccurredAt) + "#" + ID. *)
Precedes(d, e) ==
    LET t == outbox[d].occurred_at
        u == outbox[e].occurred_at
    IN  \/ timestamp(t) # timestamp(u) /\ NotAfter(t, u)
        \/ timestamp(t) = timestamp(u) /\ Rank[d] < Rank[e]

(* Mutant of Due: the lease is not looked at.                              *)
DueDespiteLease(item, now) ==
    /\ item.status = "pending"
    /\ item.retry_at = NoTime \/ NotAfter(item.retry_at, now)

(* FilterExpression of the query and ConditionExpression of the lease.     *)
Due(item, now) ==
    /\ item.status = "pending"
    /\ item.retry_at = NoTime \/ NotAfter(item.retry_at, now)
    /\ item.lease_until = NoTime \/ NotAfter(item.lease_until, now)

(* Limit - len(claimed) items of the index are read from the cursor on,    *)
(* and the filter is applied to those.                                     *)
Unread(w) ==
    {e \in Requests :
        /\ index[e].status = "pending"
        /\ claim[w].cursor = NoId \/ Precedes(claim[w].cursor, e)}

Read(w) ==
    {e \in Unread(w) :
        Cardinality({d \in Unread(w) : Precedes(d, e)}) < BatchSize - Len(claim[w].claimed)}

Exhausted(w) ==
    claim[w].page = {} /\ (~ claim[w].more \/ Len(claim[w].claimed) = BatchSize)

(* Mutant of Query: LastEvaluatedKey is not followed.                      *)
QueryOnce(w) ==
    /\ claim[w].page = {}
    /\ ~ Exhausted(w)
    /\ claim' = [claim EXCEPT
          ![w].page = {[event |-> e, attempts |-> index[e].attempts] :
                         e \in {d \in Read(w) : Due(index[d], worker[w].now)}},
          ![w].more = FALSE]
    /\ UNCHANGED <<tableVars, index, session>>

(* A page; LastEvaluatedKey is set if the limit ended it.                  *)
Query(w) ==
    LET read == Read(w)
    IN  /\ claim[w].page = {}
        /\ ~ Exhausted(w)
        /\ claim' = [claim EXCEPT
              ![w].page = {[event |-> e, attempts |-> index[e].attempts] :
                             e \in {d \in read : Due(index[d], worker[w].now)}},
              ![w].cursor = IF read = {} THEN @
                            ELSE CHOOSE e \in read : \A d \in read : ~ Precedes(e, d),
              ![w].more = (Cardinality(read) = BatchSize - Len(claim[w].claimed))]
        /\ UNCHANGED <<tableVars, index, session>>

(* The next item of the page.                                              *)
IsNext(w, item) ==
    /\ item \in claim[w].page
    /\ \A other \in claim[w].page \ {item} : Precedes(item.event, other.event)

WriteLease(w, item, token) ==
    /\ Due(outbox[item.event], worker[w].now)
    /\ outbox' = [outbox EXCEPT ![item.event].lease_until = worker[w].now + Lease,
                                ![item.event].claim_token = token]
    /\ UNCHANGED <<transactions, index, session>>

(* The conditional update took the item.  The claim counts the attempts of *)
(* the page, not those of the item (decodePending).                        *)
LeaseItem(w, item, token) ==
    /\ WriteLease(w, item, token)
    /\ LET claimed == Append(claim[w].claimed,
                             [event |-> item.event, attempts |-> item.attempts,
                              token |-> token])
       IN  claim' = [claim EXCEPT
              ![w].page = IF Len(claimed) = BatchSize THEN {} ELSE @ \ {item},
              ![w].claimed = claimed]

Skip(w, item) ==
    claim' = [claim EXCEPT ![w].page = @ \ {item}]

(* ConditionalCheckFailedException: somebody else was faster.              *)
SkipItem(w, item) ==
    /\ ~ Due(outbox[item.event], worker[w].now)
    /\ Skip(w, item)
    /\ UNCHANGED <<tableVars, index, session>>

(* The update took effect, its answer was lost, and the client's own retry *)
(* fails the condition: the item is leased, but passed over.               *)
LeaseForgotten(w, item, token) ==
    /\ WriteLease(w, item, token)
    /\ Skip(w, item)

EndClaim(w) ==
    /\ claim' = [claim EXCEPT ![w] = NoClaim]
    /\ UNCHANGED <<tableVars, index, session>>

-----------------------------------------------------------------------------
(* The condition of updateOutcome; if it fails, ErrLeaseLost.              *)
ClaimHeld(event, token) ==
    /\ outbox[event].status = "pending"
    /\ outbox[event].claim_token = token

(* Mutant of MarkPublished: the update has no condition.                   *)
MarkPublishedUnfenced(pending) ==
    /\ outbox' = [outbox EXCEPT ![pending.event].status = "published",
                                ![pending.event].retry_at = NoTime,
                                ![pending.event].lease_until = NoTime,
                                ![pending.event].claim_token = NoToken]
    /\ UNCHANGED <<transactions, index, session, claim>>

MarkPublished(pending) ==
    /\ ClaimHeld(pending.event, pending.token)
    /\ outbox' = [outbox EXCEPT ![pending.event].status = "published",
                                ![pending.event].retry_at = NoTime,
                                ![pending.event].lease_until = NoTime,
                                ![pending.event].claim_token = NoToken]
    /\ UNCHANGED <<transactions, index, session, claim>>

(* Mutant of RecordFailure: the update has no condition.                   *)
RecordFailureUnfenced(failure) ==
    /\ outbox' = [outbox EXCEPT
          ![failure.event].status = IF failure.terminal THEN "failed" ELSE "pending",
          ![failure.event].attempts = failure.attempts,
          ![failure.event].retry_at = IF failure.terminal THEN NoTime ELSE failure.retry_at,
          ![failure.event].lease_until = NoTime,
          ![failure.event].claim_token = NoToken]
    /\ UNCHANGED <<transactions, index, session, claim>>

RecordFailure(failure) ==
    /\ ClaimHeld(failure.event, failure.token)
    /\ outbox' = [outbox EXCEPT
          ![failure.event].status = IF failure.terminal THEN "failed" ELSE "pending",
          ![failure.event].attempts = failure.attempts,
          ![failure.event].retry_at = IF failure.terminal THEN NoTime ELSE failure.retry_at,
          ![failure.event].lease_until = NoTime,
          ![failure.event].claim_token = NoToken]
    /\ UNCHANGED <<transactions, index, session, claim>>

=============================================================================
