---------------------------- MODULE PostgresStore ----------------------------
(***************************************************************************)
(* The PostgreSQL store: the two tables and, for every Accept in progress, *)
(* the statement its serializable transaction has reached.  Statements of  *)
(* one Accept interleave with everything else; a claim, a mark and a       *)
(* failure are single UPDATE statements and single steps.                  *)
(*                                                                         *)
(* SELECT ... FOR UPDATE locks a row of transactions, which nothing ever   *)
(* updates: the lock only delays another lookup and is left out.           *)
(***************************************************************************)
EXTENDS Ports

VARIABLES
    transactions,   \* committed row of each (source, source_reference)
    writing,        \* the uncommitted insert that holds the unique index entry
    outbox,         \* committed row of each event
    session         \* session[r]: where the Accept of request r has got to

storeVars == <<transactions, writing, outbox, session>>

NoRow == [id |-> NoId, fingerprint |-> <<>>]

AbsentEvent == [status |-> "absent", occurred_at |-> 0, attempts |-> 0,
                retry_at |-> 0, lease_until |-> 0, claim_token |-> NoToken]

(* NULL times are 0, which is never later than the clock.                  *)
OutboxRows == [status: {"absent", "pending", "published", "failed"},
               occurred_at: Nat, attempts: Nat, retry_at: Nat,
               lease_until: Nat, claim_token: Tokens \cup {NoToken}]

Closed == [pc |-> "closed", outcome |-> StoreError]

InTransaction == {"lookup", "found", "insert", "outbox", "commit"}

StoreType ==
    /\ transactions \in [Identities ->
                          [id: Requests, fingerprint: Fingerprints] \cup {NoRow}]
    /\ writing \in [Identities -> Ids]
    /\ outbox \in [Requests -> OutboxRows]
    /\ session \in [Requests ->
                     [pc: InTransaction \cup {"closed", "classify", "returned"},
                      outcome: Outcomes]]

StoreInit ==
    /\ transactions = [i \in Identities |-> NoRow]
    /\ writing = [i \in Identities |-> NoId]
    /\ outbox = [e \in Requests |-> AbsentEvent]
    /\ session = [r \in Requests |-> Closed]

-----------------------------------------------------------------------------
(* Accept(a), statement by statement.                                      *)

Goto(a, pc) ==
    session' = [session EXCEPT ![a.id].pc = pc]

Return(a, outcome) ==
    session' = [session EXCEPT ![a.id] = [pc |-> "returned", outcome |-> outcome]]

(* Commit and rollback both give up the unique index entry.                *)
EndTransaction(a) ==
    writing' = [writing EXCEPT ![a.identity] = IF @ = a.id THEN NoId ELSE @]

BeginTx(a) ==
    /\ session[a.id].pc = "closed"
    /\ Goto(a, "lookup")
    /\ UNCHANGED <<transactions, writing, outbox>>

(* selectIdentitySQL: a committed row is found or not.                     *)
Lookup(a) ==
    /\ session[a.id].pc = "lookup"
    /\ Goto(a, IF transactions[a.identity] = NoRow THEN "insert" ELSE "found")
    /\ UNCHANGED <<transactions, writing, outbox>>

(* Compare the stored fingerprint with the new one.                        *)
Classified(a) ==
    IF transactions[a.identity].fingerprint = a.fingerprint
    THEN StoreReplay(transactions[a.identity].id)
    ELSE StoreConflict

CommitLookup(a) ==
    /\ session[a.id].pc = "found"
    /\ Return(a, Classified(a))
    /\ UNCHANGED <<transactions, writing, outbox>>

(* Mutant of InsertTransaction: no UNIQUE (source, source_reference).      *)
InsertTransactionNotUnique(a) ==
    /\ session[a.id].pc = "insert"
    /\ writing' = [writing EXCEPT ![a.identity] = a.id]
    /\ Goto(a, "outbox")
    /\ UNCHANGED <<transactions, outbox>>

(* insertTransactionSQL waits for an uncommitted insert of the same        *)
(* identity.  If that committed, this one fails (23505 or 40001) and its   *)
(* transaction is rolled back.                                             *)
InsertTransaction(a) ==
    /\ session[a.id].pc = "insert"
    /\ writing[a.identity] = NoId
    /\ IF transactions[a.identity] = NoRow
       THEN /\ writing' = [writing EXCEPT ![a.identity] = a.id]
            /\ Goto(a, "outbox")
       ELSE /\ Goto(a, "classify")
            /\ UNCHANGED writing
    /\ UNCHANGED <<transactions, outbox>>

InsertOutbox(a) ==
    /\ session[a.id].pc = "outbox"
    /\ Goto(a, "commit")
    /\ UNCHANGED <<transactions, writing, outbox>>

(* Both rows become visible at once.                                       *)
Rows(a) ==
    /\ transactions' = [transactions EXCEPT ![a.identity] =
                          [id |-> a.id, fingerprint |-> a.fingerprint]]
    /\ outbox' = [outbox EXCEPT ![a.id] =
                    [AbsentEvent EXCEPT !.status = "pending",
                                        !.occurred_at = a.occurred_at]]
    /\ EndTransaction(a)

Commit(a) ==
    /\ session[a.id].pc = "commit"
    /\ Rows(a)
    /\ Return(a, StoreAccepted(a.id))

(* The commit took effect but its answer was lost: reported as an error.   *)
CommitUnknown(a) ==
    /\ session[a.id].pc = "commit"
    /\ Rows(a)
    /\ Return(a, StoreError)

(* PostgreSQL may refuse any statement of a serializable transaction with  *)
(* 40001.  The insert of the transaction and the commit classify it; the   *)
(* insert of the event returns it as an error.                             *)
SerializationFailure(a) ==
    /\ session[a.id].pc \in {"insert", "outbox", "commit"}
    /\ IF session[a.id].pc = "outbox" THEN Return(a, StoreError)
                                      ELSE Goto(a, "classify")
    /\ EndTransaction(a)
    /\ UNCHANGED <<transactions, outbox>>

(* Mutant of ClassifyExisting: a missing row passes for other content.     *)
ClassifyExistingUnchecked(a) ==
    /\ session[a.id].pc = "classify"
    /\ Return(a, Classified(a))
    /\ UNCHANGED <<transactions, writing, outbox>>

(* classifyExisting: a read outside of any transaction; a missing row is   *)
(* an error.                                                               *)
ClassifyExisting(a) ==
    /\ session[a.id].pc = "classify"
    /\ Return(a, IF transactions[a.identity] = NoRow THEN StoreError
                                                     ELSE Classified(a))
    /\ UNCHANGED <<transactions, writing, outbox>>

(* Any statement fails otherwise: rolled back, error returned.             *)
StatementError(a) ==
    /\ session[a.id].pc \in InTransaction \cup {"classify"}
    /\ Return(a, StoreError)
    /\ EndTransaction(a)
    /\ UNCHANGED <<transactions, outbox>>

(* Accept is over, or its connection ends with the process: an open        *)
(* transaction is rolled back.                                             *)
Disconnect(a) ==
    /\ session' = [session EXCEPT ![a.id] = Closed]
    /\ EndTransaction(a)
    /\ UNCHANGED <<transactions, outbox>>

-----------------------------------------------------------------------------
(* The outbox port: each operation is one UPDATE.                          *)

(* Mutants of Due: the lease is not looked at; an expired one still counts. *)
DueDespiteLease(now) ==
    {e \in Requests : /\ outbox[e].status = "pending"
                      /\ outbox[e].retry_at <= now}

DueUnclaimed(now) ==
    {e \in Requests : /\ outbox[e].status = "pending"
                      /\ outbox[e].retry_at <= now
                      /\ outbox[e].claim_token = NoToken}

Due(now) ==
    {e \in Requests : /\ outbox[e].status = "pending"
                      /\ outbox[e].retry_at <= now
                      /\ outbox[e].lease_until <= now}

(* What claimPendingSQL may return: at most limit due rows, the oldest of  *)
(* those that SKIP LOCKED leaves, in any order (RETURNING promises none).  *)
Candidates(now, limit, locked) ==
    LET free == Due(now) \ locked
    IN  UNION {{events \in [1..n -> free] :
                  LET taken == {events[k] : k \in 1..n}
                  IN  /\ \A j, k \in 1..n : events[j] = events[k] => j = k
                      /\ n = limit \/ taken = free
                      /\ \A t \in taken, e \in free \ taken :
                            outbox[t].occurred_at <= outbox[e].occurred_at}
               : n \in 0..limit}

ClaimPending(now, lease, token, events) ==
    LET claimed == {events[k] : k \in DOMAIN events}
    IN  /\ outbox' = [e \in Requests |->
                        IF e \in claimed
                        THEN [outbox[e] EXCEPT !.lease_until = now + lease,
                                               !.claim_token = token]
                        ELSE outbox[e]]
        /\ UNCHANGED <<transactions, writing, session>>

(* The PendingEvents the claim returns.                                    *)
PendingOf(events, token) ==
    [k \in DOMAIN events |-> [event    |-> events[k],
                              attempts |-> outbox[events[k]].attempts,
                              token    |-> token]]

(* The WHERE clause of both outcome statements; no row is ErrLeaseLost.    *)
ClaimHeld(event, token) ==
    /\ outbox[event].status = "pending"
    /\ outbox[event].claim_token = token

MarkPublished(pending) ==
    /\ ClaimHeld(pending.event, pending.token)
    /\ outbox' = [outbox EXCEPT ![pending.event].status = "published",
                                ![pending.event].lease_until = 0,
                                ![pending.event].claim_token = NoToken]
    /\ UNCHANGED <<transactions, writing, session>>

(* Mutant of RecordFailure: the statement has no fencing condition.        *)
RecordFailureUnfenced(failure) ==
    /\ outbox' = [outbox EXCEPT
          ![failure.event].status = IF failure.terminal THEN "failed" ELSE "pending",
          ![failure.event].attempts = failure.attempts,
          ![failure.event].retry_at = failure.retry_at,
          ![failure.event].lease_until = 0,
          ![failure.event].claim_token = NoToken]
    /\ UNCHANGED <<transactions, writing, session>>

RecordFailure(failure) ==
    /\ ClaimHeld(failure.event, failure.token)
    /\ outbox' = [outbox EXCEPT
          ![failure.event].status = IF failure.terminal THEN "failed" ELSE "pending",
          ![failure.event].attempts = failure.attempts,
          ![failure.event].retry_at = failure.retry_at,
          ![failure.event].lease_until = 0,
          ![failure.event].claim_token = NoToken]
    /\ UNCHANGED <<transactions, writing, session>>

=============================================================================
