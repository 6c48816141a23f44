--------------------------- MODULE PostgresProofs ---------------------------
(***************************************************************************)
(* Proofs about the service on PostgreSQL, for every set of requests,      *)
(* identities, bodies, workers and tokens and every setting of the         *)
(* Dispatcher.                                                             *)
(***************************************************************************)
EXTENDS PostgresService, CoreProofs

USE BodiesAssumption, NullAssumption, DispatcherAssumption, FaultsAssumption

-----------------------------------------------------------------------------
(* Type correctness.                                                       *)

(* Every statement of Accept keeps the types of the store's state.         *)
LEMMA AcceptType ==
    ASSUME StoreType, NEW a \in Acceptances,
           \/ BeginTx(a) \/ Lookup(a) \/ CommitLookup(a) \/ InsertTransaction(a)
           \/ InsertOutbox(a) \/ Commit(a) \/ ClassifyExisting(a)
           \/ CommitUnknown(a) \/ SerializationFailure(a) \/ StatementError(a)
           \/ Disconnect(a)
    PROVE  StoreType'
  <1> USE DEF StoreType, Acceptances, Return
  <1>0. ASSUME NEW pc \in InTransaction \cup {"classify"}, Goto(a, pc)
        PROVE  session' \in [Requests ->
                     [pc: InTransaction \cup {"closed", "classify", "returned"},
                      outcome: Outcomes]]
    <2> DEFINE S == [pc: InTransaction \cup {"closed", "classify", "returned"},
                     outcome: Outcomes]
    <2>1. session \in [Requests -> S] /\ session[a.id] \in S
      OBVIOUS
    <2>2. [session[a.id] EXCEPT !.pc = pc] \in S
      BY <2>1, Zenon
    <2>3. session' = [session EXCEPT ![a.id] = [session[a.id] EXCEPT !.pc = pc]]
      BY <1>0, Zenon DEF Goto
    <2>4. session' \in [Requests -> S]
      <3> HIDE DEF S
      <3> QED
        BY <2>1, <2>2, <2>3
    <2> QED
      BY <2>4
  <1>1. StoreError \in Outcomes /\ StoreAccepted(a.id) \in Outcomes
    BY DEF StoreError, StoreAccepted, Outcomes, Ids
  <1>2. transactions[a.identity] # NoRow => Classified(a) \in Outcomes
    BY DEF Classified, StoreReplay, StoreConflict, Outcomes, Ids, NoRow
  <1>3. Classified(a) \in Outcomes
    BY <1>2 DEF Classified, StoreReplay, StoreConflict, Outcomes, Ids, NoRow
  <1>4. EndTransaction(a) => writing' \in [Identities -> Ids]
    BY DEF EndTransaction, Ids
  <1>5. Rows(a) => /\ transactions' \in [Identities ->
                        [id: Requests, fingerprint: Fingerprints] \cup {NoRow}]
                   /\ outbox' \in [Requests -> OutboxRows]
                   /\ writing' \in [Identities -> Ids]
    <2>1. [AbsentEvent EXCEPT !.status = "pending",
                              !.occurred_at = a.occurred_at] \in OutboxRows
      BY DEF AbsentEvent, OutboxRows
    <2>2. [id |-> a.id, fingerprint |-> a.fingerprint]
            \in [id: Requests, fingerprint: Fingerprints]
      OBVIOUS
    <2> QED
      BY <1>4, <2>1, <2>2 DEF Rows
  <1>6. CASE BeginTx(a) \/ Lookup(a) \/ InsertOutbox(a)
    BY <1>0, <1>6 DEF BeginTx, Lookup, InsertOutbox, InTransaction
  <1>7. CASE CommitLookup(a)
    BY <1>3, <1>7 DEF CommitLookup
  <1>8. CASE InsertTransaction(a)
    BY <1>0, <1>8 DEF InsertTransaction, InTransaction, Ids
  <1>9. CASE Commit(a) \/ CommitUnknown(a)
    BY <1>1, <1>5, <1>9 DEF Commit, CommitUnknown
  <1>10. CASE ClassifyExisting(a)
    BY <1>1, <1>3, <1>10 DEF ClassifyExisting
  <1>11. CASE SerializationFailure(a)
    <2>1. CASE session[a.id].pc = "outbox"
      <3>1. Return(a, StoreError) /\ EndTransaction(a) /\ UNCHANGED <<transactions, outbox>>
        BY <1>11, <2>1 DEF SerializationFailure
      <3> QED
        BY <1>1, <1>4, <3>1
    <2>2. CASE session[a.id].pc # "outbox"
      <3>1. Goto(a, "classify") /\ EndTransaction(a) /\ UNCHANGED <<transactions, outbox>>
        BY <1>11, <2>2 DEF SerializationFailure
      <3> QED
        BY <1>0, <1>4, <3>1
    <2> QED
      BY <2>1, <2>2
  <1>12. CASE StatementError(a)
    BY <1>1, <1>4, <1>12 DEF StatementError
  <1>13. CASE Disconnect(a)
    BY <1>1, <1>4, <1>13 DEF Disconnect, Closed
  <1> QED
    BY <1>6, <1>7, <1>8, <1>9, <1>10, <1>11, <1>12, <1>13

(* A claimed batch consists of due rows and is returned as PendingEvents.  *)
LEMMA ClaimedBatch ==
    ASSUME StoreType, NEW now, NEW locked, NEW token \in Tokens,
           NEW events \in Candidates(now, BatchSize, locked)
    PROVE  /\ PendingOf(events, token) \in Seq(PendingEvents)
           /\ DOMAIN PendingOf(events, token) = DOMAIN events
           /\ \A k \in DOMAIN events :
                 /\ events[k] \in Due(now)
                 /\ PendingOf(events, token)[k] =
                      [event |-> events[k], attempts |-> outbox[events[k]].attempts,
                       token |-> token]
           /\ \A j, k \in DOMAIN events : events[j] = events[k] => j = k
  <1>1. PICK n \in 0..BatchSize :
          /\ events \in [1..n -> Due(now) \ locked]
          /\ \A j, k \in 1..n : events[j] = events[k] => j = k
    BY DEF Candidates
  <1>2. \A k \in 1..n : events[k] \in Requests
    BY <1>1 DEF Due
  <1>3. \A k \in 1..n : [event |-> events[k], attempts |-> outbox[events[k]].attempts,
                         token |-> token] \in PendingEvents
    BY <1>2 DEF StoreType, OutboxRows, PendingEvents
  <1>4. PendingOf(events, token) \in [1..n -> PendingEvents]
    BY <1>1, <1>3 DEF PendingOf
  <1>5. PendingOf(events, token) \in Seq(PendingEvents)
    BY <1>1, <1>4
  <1> QED
    BY <1>1, <1>5 DEF PendingOf

(* The next claim token exists, and nobody knows it.                       *)
LEMMA FreshTokenIsFresh ==
    ASSUME UsedTokens # Tokens
    PROVE  FreshToken \in Tokens /\ FreshToken \notin UsedTokens
  <1>1. \E t \in Tokens : t \notin UsedTokens
    BY DEF UsedTokens
  <1> QED
    BY <1>1 DEF FreshToken

(* The rows the three outbox statements write.                             *)
LEMMA ClaimedRowType ==
    ASSUME NEW row \in OutboxRows, NEW token \in Tokens, NEW lease \in Nat
    PROVE  [row EXCEPT !.lease_until = lease, !.claim_token = token] \in OutboxRows
  BY Zenon DEF OutboxRows

(* The row that markPublishedSQL writes is a row.                          *)
LEMMA PublishedRowType ==
    ASSUME NEW row \in OutboxRows
    PROVE  [row EXCEPT !.status = "published", !.lease_until = 0,
                       !.claim_token = NoToken] \in OutboxRows
  <1>1. 0 \in Nat
    OBVIOUS
  <1> QED
    BY <1>1, Zenon DEF OutboxRows

(* The row that recordFailureSQL writes is a row.                          *)
LEMMA FailedRowType ==
    ASSUME NEW row \in OutboxRows, NEW status \in {"pending", "failed"},
           NEW attempts \in Nat, NEW retry_at \in Nat
    PROVE  [row EXCEPT !.status = status, !.attempts = attempts,
                       !.retry_at = retry_at, !.lease_until = 0,
                       !.claim_token = NoToken] \in OutboxRows
  <1>1. 0 \in Nat
    OBVIOUS
  <1> QED
    BY <1>1, Zenon DEF OutboxRows

(* recordFailureSQL changes one claimed row and gives its claim up.        *)
LEMMA RecordedRow ==
    ASSUME StoreType, NEW f, f.event \in Requests, RecordFailure(f)
    PROVE  /\ outbox[f.event].status = "pending"
           /\ outbox'[f.event].status \in {"pending", "failed"}
           /\ outbox'[f.event].claim_token = NoToken
           /\ \A e \in Requests \ {f.event} : outbox'[e] = outbox[e]
  <1> DEFINE row == [outbox[f.event] EXCEPT
                       !.status = IF f.terminal THEN "failed" ELSE "pending",
                       !.attempts = f.attempts, !.retry_at = f.retry_at,
                       !.lease_until = 0, !.claim_token = NoToken]
  <1>1. outbox' = [outbox EXCEPT ![f.event] = row] /\ outbox[f.event].status = "pending"
    BY DEF RecordFailure, ClaimHeld
  <1>2. row.status \in {"pending", "failed"} /\ row.claim_token = NoToken
    BY DEF StoreType, OutboxRows
  <1>3. outbox \in [Requests -> OutboxRows]
    BY DEF StoreType
  <1> HIDE DEF row
  <1> QED
    BY <1>1, <1>2, <1>3

(* A statement of the outbox port leaves the other tables alone.           *)
LEMMA OutboxType ==
    ASSUME StoreType, outbox' \in [Requests -> OutboxRows],
           UNCHANGED <<transactions, writing, session>>
    PROVE  StoreType'
  BY DEF StoreType

(* Only the claim, mark and record statements change the outbox for a      *)
(* worker, and only its claim and outcome columns.                         *)
LEMMA WorkerType ==
    ASSUME TypeOK, NEW w \in Workers, WorkerNext(w) \/ CrashWorker(w),
           worker[w].pc \in {"publish", "mark", "record"} => worker[w].batch # <<>>
    PROVE  TypeOK'
  <1> USE DEF TypeOK
  <1>1. CASE WorkerStep(w)
    <2>1. DispatcherType'
      BY <1>1, RunType DEF WorkerStep
    <2> QED
      BY <1>1, <2>1 DEF WorkerStep, intakeVars, storeVars, StoreType
  <1>2. CASE Claim(w)
    <2>1. PICK skipped \in SUBSET Locked(w) :
            \E events \in Candidates(worker[w].now, BatchSize, skipped) :
              /\ ClaimPending(worker[w].now, Lease, FreshToken, events)
              /\ \/ Claimed(w, PendingOf(events, FreshToken)) /\ UNCHANGED faults
                 \/ Halt(w) /\ Fault
      BY <1>2 DEF Claim
    <2>2. PICK events \in Candidates(worker[w].now, BatchSize, skipped) :
              /\ ClaimPending(worker[w].now, Lease, FreshToken, events)
              /\ \/ Claimed(w, PendingOf(events, FreshToken)) /\ UNCHANGED faults
                 \/ Halt(w) /\ Fault
      BY <2>1
    <2>3. FreshToken \in Tokens
      BY <1>2, FreshTokenIsFresh DEF Claim
    <2>4. PendingOf(events, FreshToken) \in Seq(PendingEvents)
      BY <2>3, ClaimedBatch
    <2>5. DispatcherType' /\ faults' \in Nat
      BY <2>2, <2>4, ContinueType, HaltType DEF Claimed, Fault
    <2>6. worker[w].now + Lease \in Nat
      BY DEF DispatcherType
    <2>7. \A e \in Requests :
            [outbox[e] EXCEPT !.lease_until = worker[w].now + Lease,
                              !.claim_token = FreshToken] \in OutboxRows
      BY <2>3, <2>6, ClaimedRowType DEF StoreType
    <2>8. outbox' \in [Requests -> OutboxRows]
      BY <2>2, <2>7 DEF ClaimPending, StoreType
    <2>9. StoreType'
      BY <2>2, <2>8, OutboxType DEF ClaimPending
    <2> QED
      BY <1>2, <2>5, <2>9 DEF Claim, intakeVars
  <1>3. ASSUME worker[w].pc \in {"mark", "record"}, Confirmed(w)
        PROVE  DispatcherType' /\ faults' \in Nat
    <2>1. Tail(worker[w].batch) \in Seq(PendingEvents)
      BY <1>3, TailOfBatch DEF DispatcherType
    <2> QED
      <3>1. CASE Advance(w) /\ UNCHANGED faults
        BY <2>1, <3>1, ContinueType DEF Advance
      <3>2. CASE Halt(w) /\ Fault
        BY <3>2, HaltType DEF Fault
      <3> QED
        BY <1>3, <3>1, <3>2 DEF Confirmed
  <1>4. CASE Mark(w)
    <2>1. Pending(w) \in PendingEvents
      BY <1>4, TailOfBatch DEF Mark, DispatcherType, Pending
    <2>2. outbox' \in [Requests -> OutboxRows]
      <3>1. [outbox[Pending(w).event] EXCEPT
               !.status = "published", !.lease_until = 0, !.claim_token = NoToken]
              \in OutboxRows
        BY <2>1, PublishedRowType DEF StoreType, PendingEvents
      <3> QED
        BY <1>4, <3>1 DEF Mark, MarkPublished, StoreType
    <2>3. StoreType'
      BY <1>4, <2>2, OutboxType DEF Mark, MarkPublished
    <2> QED
      BY <1>3, <1>4, <2>3 DEF Mark, intakeVars
  <1>5. CASE Record(w)
    <2>1. Failure(w) \in Failures
      BY <1>5, FailureType DEF Record
    <2>2. outbox' \in [Requests -> OutboxRows]
      <3> DEFINE f == Failure(w)
      <3>1. [outbox[f.event] EXCEPT
               !.status = IF f.terminal THEN "failed" ELSE "pending",
               !.attempts = f.attempts, !.retry_at = f.retry_at,
               !.lease_until = 0, !.claim_token = NoToken] \in OutboxRows
        <4>1. /\ outbox[f.event] \in OutboxRows
              /\ f.attempts \in Nat /\ f.retry_at \in Nat
          BY <2>1 DEF StoreType, Failures
        <4>2. (IF f.terminal THEN "failed" ELSE "pending") \in {"pending", "failed"}
          OBVIOUS
        <4> HIDE DEF f
        <4> QED
          BY <4>1, <4>2, FailedRowType
      <3> QED
        BY <1>5, <3>1 DEF Record, RecordFailure, StoreType
    <2>3. StoreType'
      BY <1>5, <2>2, OutboxType DEF Record, RecordFailure
    <2> QED
      BY <1>3, <1>5, <2>3 DEF Record, intakeVars
  <1>6. CASE LeaseLost(w)
    BY <1>6, HaltType, OutboxType DEF LeaseLost, StoreType, intakeVars, storeVars
  <1>7. CASE CrashWorker(w)
    BY <1>7, HaltType DEF CrashWorker, StoreType, intakeVars, storeVars, Fault
  <1> QED
    BY <1>1, <1>2, <1>4, <1>5, <1>6, <1>7 DEF WorkerNext

TypeInv == TypeOK /\ BusyInv

(* A busy worker has an event at the head of its batch.                    *)
LEMMA HeadOfBatch ==
    ASSUME TypeInv, NEW w \in Workers, worker[w].pc \in {"publish", "mark", "record"}
    PROVE  /\ worker[w].batch # <<>>
           /\ Pending(w) \in PendingEvents
           /\ Pending(w) = worker[w].batch[1]
           /\ 1 \in DOMAIN worker[w].batch
  <1>1. worker[w].batch # <<>> /\ worker[w].batch \in Seq(PendingEvents)
    BY DEF TypeInv, TypeOK, DispatcherType, BusyInv
  <1> QED
    BY <1>1, TailOfBatch DEF Pending

(* The initial state is typed.                                             *)
LEMMA TypeInit == Init => TypeInv
  <1> SUFFICES ASSUME Init PROVE TypeInv
    OBVIOUS
  <1> USE DEF Init
  <1>1. request \in RequestType
    <2>1. NoReply \in Replies
      BY DEF NoReply, Replies, Ids
    <2> QED
      BY <2>1 DEF IntakeInit, RequestType
  <1>2. DispatcherType /\ BusyInv
    BY DEF DispatcherInit, DispatcherType, BusyInv, Idle
  <1>3. StoreType
    <2>1. AbsentEvent \in OutboxRows
      BY DEF AbsentEvent, OutboxRows
    <2>2. Closed \in [pc: InTransaction \cup {"closed", "classify", "returned"},
                      outcome: Outcomes]
      BY DEF Closed, StoreError, Outcomes, Ids
    <2> QED
      BY <2>1, <2>2 DEF StoreInit, StoreType, Ids
  <1> QED
    BY <1>1, <1>2, <1>3 DEF TypeInv, TypeOK

(* Every step of a request, of a worker and of the clock stays typed.      *)
LEMMA TypeStep == TypeInv /\ [Next]_vars => TypeInv'
  <1> SUFFICES ASSUME TypeInv, [Next]_vars PROVE TypeInv'
    OBVIOUS
  <1> USE DEF TypeInv
  <1>1. ASSUME NEW r \in Requests, RequestNext(r) PROVE TypeInv'
    <2>1. Acceptance(r) \in Acceptances
      BY AcceptanceType DEF TypeOK
    <2>2. UNCHANGED dispatcherVars
      BY <1>1 DEF RequestNext, Invalid, Submit, AcceptStep, AcceptTrouble,
                  Respond, CrashRequest
    <2>3. DispatcherType' /\ BusyInv'
      BY <2>2 DEF TypeOK, DispatcherType, BusyInv, dispatcherVars
    <2>4. faults' \in Nat
      BY <1>1 DEF RequestNext, Invalid, Submit, AcceptStep, AcceptTrouble,
                  Respond, CrashRequest, Fault, TypeOK
    <2>5. request' \in RequestType
      <3>1. session[r].outcome \in Outcomes /\ clock \in Nat
        BY DEF TypeOK, StoreType, DispatcherType
      <3>2. \/ RejectInvalid(r) \/ BeginAccept(r, clock)
            \/ FinishAccept(r, session[r].outcome) \/ LoseRequest(r)
            \/ UNCHANGED request
        BY <1>1 DEF RequestNext, Invalid, Submit, AcceptStep, AcceptTrouble, Respond,
                    CrashRequest, intakeVars
      <3> QED
        BY <3>1, <3>2, IntakeType DEF TypeOK
    <2>6. StoreType'
      <3>1. CASE Invalid(r)
        BY <3>1 DEF Invalid, TypeOK, StoreType, storeVars
      <3> QED
        BY <1>1, <2>1, <3>1, AcceptType DEF RequestNext, Submit, AcceptStep,
           AcceptTrouble, Respond, CrashRequest, TypeOK
    <2> QED
      BY <2>3, <2>4, <2>5, <2>6 DEF TypeOK
  <1>2. ASSUME NEW w \in Workers, WorkerNext(w) \/ CrashWorker(w) PROVE TypeInv'
    <2>1. worker[w].pc \in {"publish", "mark", "record"} => worker[w].batch # <<>>
      BY DEF BusyInv
    <2>2. TypeOK'
      BY <1>2, <2>1, WorkerType
    <2>3. \/ StartBatch(w) \/ PublishOk(w) \/ PublishError(w) \/ Restart(w)
          \/ Halt(w) \/ \E batch : Continue(w, batch)
      BY <1>2 DEF WorkerNext, CrashWorker, WorkerStep, Claim, Mark, Record,
         LeaseLost, Confirmed, Claimed, Advance
    <2> QED
      BY <2>2, <2>3, BusyStep DEF TypeOK
  <1>3. CASE PassTime
    BY <1>3 DEF PassTime, Tick, TypeOK, DispatcherType, StoreType, BusyInv,
       intakeVars, storeVars
  <1>4. CASE UNCHANGED vars
    BY <1>4 DEF vars, TypeOK, DispatcherType, StoreType, BusyInv,
       intakeVars, dispatcherVars, storeVars
  <1> QED
    BY <1>1, <1>2, <1>3, <1>4 DEF Next

(* Every variable keeps its type, for all constants: in particular no      *)
(* reply and no stored time or counter is ever undefined.                  *)
THEOREM TypeCorrect == Spec => []TypeOK
  <1>1. TypeInv => TypeOK
    BY DEF TypeInv
  <1> QED
    BY TypeInit, TypeStep, <1>1, PTL DEF Spec

-----------------------------------------------------------------------------
(* The inductive invariant of acceptance.                                  *)

(* An Accept is open only while its request waits for it, and nothing is   *)
(* answered before.                                                        *)
SessionInv ==
    \A r \in Requests :
        /\ session[r].pc # "closed" => request[r].pc = "accepting"
        /\ request[r].pc # "answered" => request[r].reply = NoReply

(* The unique index entry belongs to the one Accept between its insert and *)
(* the end of its transaction, and guards an identity without a row.       *)
WritingInv ==
    /\ \A r \in Requests :
          session[r].pc \in {"outbox", "commit"} => writing[request[r].identity] = r
    /\ \A i \in Identities : writing[i] # NoId => transactions[i] = NoRow

(* What the store is about to return already agrees with the tables.       *)
OutcomesAgree ==
    \A r \in Requests :
        /\ session[r].pc = "found" => transactions[request[r].identity] # NoRow
        /\ session[r].pc = "returned" =>
             LET outcome == session[r].outcome
             IN  /\ outcome.kind = "accepted" => IsStored(r, r)
                 /\ outcome.kind = "replay"   => IsStored(r, outcome.id)
                 /\ outcome.kind = "conflict" => IsContradicted(r)

AcceptanceInv ==
    /\ SessionInv
    /\ WritingInv
    /\ OutcomesAgree
    /\ RepliesAgree
    /\ OneEventPerIdentity

(* A request's contents never change, and a committed row is for ever.     *)
LEMMA RequestFixed ==
    ASSUME TypeOK, NEW r \in Requests, RequestNext(r)
    PROVE  \A q \in Requests :
              /\ request'[q].identity = request[q].identity
              /\ request'[q].body = request[q].body
              /\ Acceptance(q).fingerprint' = Acceptance(q).fingerprint
              /\ q # r => request'[q] = request[q]
  <1>1. \/ RejectInvalid(r) \/ BeginAccept(r, clock)
        \/ FinishAccept(r, session[r].outcome) \/ LoseRequest(r)
        \/ UNCHANGED request
    BY DEF RequestNext, Invalid, Submit, AcceptStep, AcceptTrouble,
           Respond, CrashRequest, intakeVars
  <1>2. \A q \in Requests :
              /\ request'[q].identity = request[q].identity
              /\ request'[q].body = request[q].body
              /\ q # r => request'[q] = request[q]
    BY <1>1 DEF RejectInvalid, BeginAccept, FinishAccept, LoseRequest,
                TypeOK, RequestType
  <1> QED
    BY <1>2 DEF Acceptance, Fingerprint

(* What a request step does to the tables: nothing, or the commit of its   *)
(* own rows over an identity that had none.                                *)
Commits(r) ==
    /\ session[r].pc = "commit"
    /\ Rows(Acceptance(r))
    /\ session'[r].pc = "returned"
    /\ session'[r].outcome \in {StoreAccepted(r), StoreError}

(* What a request step may do to the two tables: nothing, or both rows at  *)
(* once by the Accept that holds the unique index entry.                   *)
LEMMA TablesStep ==
    ASSUME TypeOK, AcceptanceInv, NEW r \in Requests, RequestNext(r)
    PROVE  /\ UNCHANGED <<transactions, outbox>> \/ Commits(r)
           /\ \A q \in Requests \ {r} : session'[q] = session[q]
           /\ \A i \in Identities : \/ transactions[i] = NoRow
                                     \/ transactions'[i] = transactions[i]
  <1>1. Acceptance(r).id = r /\ Acceptance(r).identity = request[r].identity
    BY AcceptanceType DEF TypeOK
  <1>2. UNCHANGED <<transactions, outbox>> \/ Commits(r)
    <2>1. CASE AcceptStep(r)
      BY <1>1, <2>1 DEF AcceptStep, Lookup, CommitLookup, InsertTransaction,
         InsertOutbox, Commit, ClassifyExisting, Commits, Return, TypeOK, StoreType
    <2>2. CASE AcceptTrouble(r)
      BY <1>1, <2>2 DEF AcceptTrouble, CommitUnknown, SerializationFailure,
         StatementError, Commits, Return, TypeOK, StoreType
    <2> QED
      BY <2>1, <2>2 DEF RequestNext, Invalid, Submit, Respond, CrashRequest,
         BeginTx, Disconnect, storeVars
  <1>3. \A q \in Requests \ {r} : session'[q] = session[q]
    BY <1>1 DEF RequestNext, Invalid, Submit, AcceptStep, AcceptTrouble, Respond,
       CrashRequest, BeginTx, Lookup, CommitLookup, InsertTransaction,
       InsertOutbox, Commit, ClassifyExisting, CommitUnknown,
       SerializationFailure, StatementError, Disconnect, Goto, Return,
       TypeOK, StoreType, storeVars
  <1>4. Commits(r) => \A i \in Identities : \/ transactions[i] = NoRow
                                            \/ transactions'[i] = transactions[i]
    <2> SUFFICES ASSUME Commits(r), NEW i \in Identities, i = request[r].identity
                 PROVE  transactions[i] = NoRow
      BY <1>1 DEF Commits, Rows, TypeOK, StoreType
    <2> QED
      BY DEF Commits, AcceptanceInv, WritingInv
  <1> QED
    BY <1>2, <1>3, <1>4

(* A request step preserves the invariant of acceptance.                   *)
LEMMA AcceptanceRequestStep ==
    ASSUME TypeOK, TypeOK', AcceptanceInv, NEW r \in Requests, RequestNext(r)
    PROVE  AcceptanceInv'
  <1> USE DEF AcceptanceInv
  <1>0. /\ Acceptance(r).id = r
        /\ Acceptance(r).identity = request[r].identity
        /\ request[r].identity \in Identities
    BY AcceptanceType DEF TypeOK, RequestType
  <1> DEFINE Statement == \/ AcceptStep(r)
                          \/ AcceptTrouble(r)
  <1>1. SessionInv'
    <2>1. SUFFICES /\ session'[r].pc # "closed" => request'[r].pc = "accepting"
                   /\ request'[r].pc # "answered" => request'[r].reply = NoReply
      BY RequestFixed, TablesStep DEF SessionInv
    <2>2. CASE Invalid(r)
      BY <2>2 DEF Invalid, RejectInvalid, SessionInv, TypeOK, RequestType, storeVars
    <2>3. CASE Submit(r)
      BY <2>3 DEF Submit, BeginAccept, SessionInv, TypeOK, RequestType
    <2>4. CASE Statement
      BY <2>4 DEF AcceptStep, AcceptTrouble, SessionInv, intakeVars
    <2>5. CASE Respond(r)
      BY <1>0, <2>5 DEF Respond, FinishAccept, Disconnect, Closed, TypeOK,
         RequestType, StoreType
    <2>6. CASE CrashRequest(r)
      BY <1>0, <2>6 DEF CrashRequest, LoseRequest, Disconnect, Closed,
         SessionInv, TypeOK, RequestType, StoreType
    <2> QED
      BY <2>2, <2>3, <2>4, <2>5, <2>6 DEF RequestNext
  <1>2. WritingInv'
    <2>1. CASE InsertTransaction(Acceptance(r)) /\ UNCHANGED request
      BY <1>0, <2>1 DEF InsertTransaction, Goto, WritingInv, TypeOK, RequestType, StoreType
    <2>2. CASE /\ EndTransaction(Acceptance(r))
               /\ session'[r].pc \notin {"outbox", "commit"}
               /\ UNCHANGED <<transactions, outbox>> \/ Commits(r)
      <3>1. \A i \in Identities \ {request[r].identity} : writing'[i] = writing[i]
        BY <1>0, <2>2 DEF EndTransaction, TypeOK, StoreType
      <3>2. writing'[request[r].identity] = IF writing[request[r].identity] = r
                                            THEN NoId ELSE writing[request[r].identity]
        BY <1>0, <2>2 DEF EndTransaction, TypeOK, StoreType
      <3>3. \A i \in Identities : writing'[i] # NoId => transactions'[i] = NoRow
        BY <1>0, <2>2, <3>1, <3>2 DEF Commits, Rows, WritingInv, TypeOK, StoreType
      <3>4. \A q \in Requests : session'[q].pc \in {"outbox", "commit"}
                                 => writing'[request'[q].identity] = q
        <4> SUFFICES ASSUME NEW q \in Requests,
                            session'[q].pc \in {"outbox", "commit"}
                     PROVE  writing'[request'[q].identity] = q
          OBVIOUS
        <4>1. q # r /\ session'[q] = session[q]
          BY <2>2, TablesStep
        <4>2. writing[request[q].identity] = q /\ request[q].identity \in Identities
          BY <4>1 DEF WritingInv, TypeOK, RequestType
        <4>3. request'[q].identity = request[q].identity
          BY RequestFixed
        <4> QED
          BY <3>1, <3>2, <4>1, <4>2, <4>3
      <3> QED
        BY <3>3, <3>4 DEF WritingInv
    <2>3. CASE /\ UNCHANGED <<transactions, writing>>
               /\ session'[r].pc \in {"outbox", "commit"} =>
                     session[r].pc \in {"outbox", "commit"}
      BY <2>3, RequestFixed, TablesStep DEF WritingInv
    <2>4. CASE Statement
      <3>1. CASE Lookup(Acceptance(r)) \/ CommitLookup(Acceptance(r))
                 \/ InsertOutbox(Acceptance(r)) \/ ClassifyExisting(Acceptance(r))
        BY <1>0, <3>1, <2>3 DEF Lookup, CommitLookup, InsertOutbox,
           ClassifyExisting, Goto, Return, TypeOK, StoreType
      <3>2. CASE Commit(Acceptance(r)) \/ CommitUnknown(Acceptance(r))
        <4>1. EndTransaction(Acceptance(r)) /\ session'[r].pc = "returned"
          BY <1>0, <3>2 DEF Commit, CommitUnknown, Rows, Return, TypeOK, StoreType
        <4> QED
          BY <4>1, <2>2, TablesStep
      <3>3. CASE SerializationFailure(Acceptance(r)) \/ StatementError(Acceptance(r))
        <4>1. /\ EndTransaction(Acceptance(r))
              /\ session'[r].pc \in {"returned", "classify"}
          BY <1>0, <3>3 DEF SerializationFailure, StatementError, Goto, Return,
             TypeOK, StoreType
        <4> QED
          BY <4>1, <2>2, TablesStep
      <3> QED
        BY <2>1, <2>4, <3>1, <3>2, <3>3 DEF AcceptStep, AcceptTrouble, intakeVars
    <2>5. CASE Respond(r) \/ CrashRequest(r)
      <3>1. EndTransaction(Acceptance(r)) /\ session'[r].pc = "closed"
        BY <1>0, <2>5 DEF Respond, CrashRequest, Disconnect, Closed, TypeOK, StoreType
      <3> QED
        BY <2>2, <3>1, TablesStep
    <2>6. CASE Invalid(r) \/ Submit(r)
      BY <1>0, <2>3, <2>6 DEF Invalid, Submit, BeginTx, Goto, TypeOK, StoreType, storeVars
    <2> QED
      BY <2>4, <2>5, <2>6 DEF RequestNext
  <1>3. ASSUME NEW q \in Requests, NEW id
        PROVE  /\ IsStored(q, id) => IsStored(q, id)'
               /\ IsContradicted(q) => IsContradicted(q)'
    <2>1. request[q].identity \in Identities
      BY DEF TypeOK, RequestType
    <2>2. transactions[request[q].identity] # NoRow =>
            transactions'[request'[q].identity] = transactions[request[q].identity]
      BY <2>1, RequestFixed, TablesStep
    <2>3. IsStored(q, id) => transactions[request[q].identity] # NoRow
      <3>1. Acceptance(q).fingerprint # <<>>
        BY DEF Acceptance, Fingerprint
      <3> QED
        BY <3>1 DEF IsStored, NoRow
    <2> QED
      BY <2>2, <2>3, RequestFixed DEF IsStored, IsContradicted
  <1>4. OutcomesAgree'
    <2> DEFINE Agree(q) ==
          /\ session[q].pc = "found" => transactions[request[q].identity] # NoRow
          /\ session[q].pc = "returned" =>
               /\ session[q].outcome.kind = "accepted" => IsStored(q, q)
               /\ session[q].outcome.kind = "replay"
                    => IsStored(q, session[q].outcome.id)
               /\ session[q].outcome.kind = "conflict" => IsContradicted(q)
    <2>1. ASSUME NEW q \in Requests, session'[q] = session[q] PROVE Agree(q)'
      <3>1. Agree(q)
        BY DEF OutcomesAgree
      <3>2. transactions[request[q].identity] # NoRow
              => transactions'[request'[q].identity] # NoRow
        BY RequestFixed, TablesStep DEF TypeOK, RequestType
      <3> QED
        BY <1>3, <2>1, <3>1, <3>2
    <2>2. ASSUME transactions[request[r].identity] # NoRow
          PROVE  \/ Classified(Acceptance(r)).kind = "conflict" /\ IsContradicted(r)
                 \/ /\ Classified(Acceptance(r)).kind = "replay"
                    /\ IsStored(r, Classified(Acceptance(r)).id)
      <3>1. transactions[request[r].identity] \in
              [id: Requests, fingerprint: Fingerprints]
        BY <1>0, <2>2 DEF TypeOK, StoreType
      <3> QED
        BY <1>0, <2>2, <3>1 DEF Classified, StoreReplay, StoreConflict,
           IsStored, IsContradicted
    <2>3. ASSUME session'[r] = [pc |-> "returned", outcome |-> Classified(Acceptance(r))],
                 transactions[request[r].identity] # NoRow
          PROVE  Agree(r)'
      BY <1>3, <2>2, <2>3
    <2>4. ASSUME session'[r].pc = "returned", session'[r].outcome = StoreError
          PROVE  Agree(r)'
      BY <2>4 DEF StoreError
    <2>5. ASSUME session'[r].pc \notin {"found", "returned"} PROVE Agree(r)'
      BY <2>5
    <2>6. Agree(r)'
      <3>1. CASE Lookup(Acceptance(r)) /\ UNCHANGED request
        BY <1>0, <3>1 DEF Lookup, Goto, TypeOK, StoreType
      <3>2. CASE CommitLookup(Acceptance(r))
        BY <1>0, <2>3, <3>2 DEF CommitLookup, Return, OutcomesAgree, TypeOK, StoreType
      <3>3. CASE ClassifyExisting(Acceptance(r))
        BY <1>0, <2>3, <2>4, <3>3 DEF ClassifyExisting, Return, TypeOK, StoreType
      <3>4. CASE Commit(Acceptance(r)) /\ UNCHANGED request
        <4>1. IsStored(r, r)'
          BY <1>0, <3>4, RequestFixed DEF Commit, Rows, IsStored, TypeOK, StoreType
        <4> QED
          BY <1>0, <3>4, <4>1 DEF Commit, Return, StoreAccepted, TypeOK, StoreType
      <3>5. CASE CommitUnknown(Acceptance(r)) \/ StatementError(Acceptance(r))
        BY <1>0, <2>4, <3>5 DEF CommitUnknown, StatementError, Return, TypeOK, StoreType
      <3>6. CASE SerializationFailure(Acceptance(r))
        BY <1>0, <2>4, <2>5, <3>6 DEF SerializationFailure, Goto, Return, TypeOK, StoreType
      <3>7. CASE InsertTransaction(Acceptance(r)) \/ InsertOutbox(Acceptance(r))
        BY <1>0, <2>5, <3>7 DEF InsertTransaction, InsertOutbox, Goto, TypeOK, StoreType
      <3>8. CASE Respond(r) \/ CrashRequest(r) \/ Submit(r)
        BY <1>0, <2>5, <3>8 DEF Respond, CrashRequest, Submit, Disconnect, Closed,
           BeginTx, Goto, TypeOK, StoreType
      <3>9. CASE Invalid(r)
        BY <2>1, <3>9 DEF Invalid, storeVars
      <3> QED
        BY <3>1, <3>2, <3>3, <3>4, <3>5, <3>6, <3>7, <3>8, <3>9
           DEF RequestNext, AcceptStep, AcceptTrouble, intakeVars
    <2> QED
      BY <2>1, <2>6, TablesStep DEF OutcomesAgree
  <1>5. RepliesAgree'
    <2> DEFINE Agree(q) ==
          /\ request[q].reply.code = "created"  => IsStored(q, q)
          /\ request[q].reply.code = "replayed" => IsStored(q, request[q].reply.id)
          /\ request[q].reply.code = "conflict" => IsContradicted(q)
    <2>1. ASSUME NEW q \in Requests, request'[q].reply = request[q].reply
          PROVE  Agree(q)'
      <3>1. Agree(q)
        BY DEF RepliesAgree
      <3> QED
        BY <1>3, <2>1, <3>1
    <2>2. CASE Invalid(r)
      <3>1. request'[r].reply.code = "invalid"
        BY <2>2 DEF Invalid, RejectInvalid, TypeOK, RequestType
      <3> QED
        BY <2>1, <3>1, RequestFixed DEF RepliesAgree
    <2>3. CASE Respond(r)
      <3>1. request'[r].reply = Reply(r, session[r].outcome)
        BY <2>3 DEF Respond, FinishAccept, TypeOK, RequestType
      <3>2. Agree(r)'
        BY <1>3, <2>3, <3>1 DEF Respond, Reply, OutcomesAgree
      <3> QED
        BY <2>1, <3>2, RequestFixed DEF RepliesAgree
    <2>4. CASE Submit(r) \/ AcceptStep(r) \/ AcceptTrouble(r) \/ CrashRequest(r)
      <3>1. request'[r].reply = request[r].reply
        BY <2>4 DEF Submit, AcceptStep, AcceptTrouble, CrashRequest, BeginAccept,
           LoseRequest, TypeOK, RequestType, intakeVars
      <3> QED
        BY <2>1, <3>1, RequestFixed DEF RepliesAgree
    <2> QED
      BY <2>2, <2>3, <2>4 DEF RequestNext
  <1>6. OneEventPerIdentity'
    <2>1. CASE UNCHANGED <<transactions, outbox>>
      BY <2>1, RequestFixed DEF OneEventPerIdentity
    <2>2. CASE Commits(r)
      <3>1. transactions[request[r].identity] = NoRow
        BY <1>0, <2>2 DEF Commits, WritingInv
      <3>2. /\ transactions'[request[r].identity].id = r
            /\ \A i \in Identities \ {request[r].identity} :
                  transactions'[i] = transactions[i]
            /\ outbox'[r].status = "pending"
            /\ \A e \in Requests \ {r} : outbox'[e] = outbox[e]
        BY <1>0, <2>2 DEF Commits, Rows, AbsentEvent, TypeOK, StoreType
      <3>3. \A e \in Requests : request[e].identity = request[r].identity
                                => outbox[e].status = "absent"
        BY <3>1 DEF OneEventPerIdentity, NoRow
      <3> QED
        BY <3>2, <3>3, RequestFixed DEF OneEventPerIdentity, TypeOK, RequestType
    <2> QED
      BY <2>1, <2>2, TablesStep
  <1> QED
    BY <1>1, <1>2, <1>4, <1>5, <1>6

(* A worker touches neither requests nor transactions, and it inserts or   *)
(* deletes no event.                                                       *)
LEMMA WorkerLeavesRows ==
    ASSUME TypeInv, NEW w \in Workers, WorkerNext(w) \/ CrashWorker(w)
    PROVE  /\ UNCHANGED <<request, transactions, writing, session>>
           /\ \A e \in Requests :
                 outbox'[e].status = "absent" <=> outbox[e].status = "absent"
  <1> USE DEF TypeInv
  <1>1. CASE Claim(w)
    <2>1. PICK skipped \in SUBSET Locked(w) :
            \E events \in Candidates(worker[w].now, BatchSize, skipped) :
              ClaimPending(worker[w].now, Lease, FreshToken, events)
      BY <1>1 DEF Claim
    <2>2. PICK events \in Candidates(worker[w].now, BatchSize, skipped) :
              ClaimPending(worker[w].now, Lease, FreshToken, events)
      BY <2>1
    <2>3. \A e \in Requests : outbox'[e].status = outbox[e].status
      BY ZenonT(60), <2>2 DEF ClaimPending, TypeOK, StoreType, OutboxRows
    <2> QED
      BY <1>1, <2>2, <2>3 DEF Claim, ClaimPending, intakeVars
  <1>2. CASE Mark(w)
    <2>1. Pending(w).event \in Requests
      BY <1>2, HeadOfBatch DEF Mark, PendingEvents
    <2> QED
      BY <1>2, <2>1 DEF Mark, MarkPublished, ClaimHeld, TypeOK, StoreType, intakeVars
  <1>3. CASE Record(w)
    <2>1. Failure(w).event \in Requests
      BY <1>3, FailureType DEF Record, BusyInv, TypeOK, Failures
    <2>2. \A e \in Requests :
             outbox'[e].status = "absent" <=> outbox[e].status = "absent"
      <3>1. /\ outbox[Failure(w).event].status = "pending"
            /\ outbox'[Failure(w).event].status \in {"pending", "failed"}
            /\ \A e \in Requests \ {Failure(w).event} : outbox'[e] = outbox[e]
        BY <1>3, <2>1, RecordedRow DEF Record, TypeOK
      <3> QED
        BY <3>1
    <2> QED
      BY <1>3, <2>2 DEF Record, RecordFailure, intakeVars
  <1>4. CASE WorkerStep(w) \/ LeaseLost(w) \/ CrashWorker(w)
    BY <1>4 DEF WorkerStep, LeaseLost, CrashWorker, intakeVars, storeVars
  <1> QED
    BY <1>1, <1>2, <1>3, <1>4 DEF WorkerNext

(* Empty tables and unsent requests satisfy the acceptance invariant.      *)
LEMMA AcceptanceInit == Init => AcceptanceInv
  BY DEF Init, IntakeInit, StoreInit, AcceptanceInv, SessionInv, WritingInv,
     OutcomesAgree, RepliesAgree, OneEventPerIdentity, Closed, NoRow, NoReply,
     AbsentEvent

(* No step of any actor breaks the acceptance invariant.                   *)
LEMMA AcceptanceStep == TypeInv /\ AcceptanceInv /\ [Next]_vars => AcceptanceInv'
  <1> SUFFICES ASSUME TypeInv, AcceptanceInv, [Next]_vars PROVE AcceptanceInv'
    OBVIOUS
  <1>1. ASSUME NEW r \in Requests, RequestNext(r) PROVE AcceptanceInv'
    <2>1. TypeOK /\ TypeOK'
      BY TypeStep DEF TypeInv
    <2> QED
      BY <1>1, <2>1, AcceptanceRequestStep
  <1>2. ASSUME /\ UNCHANGED <<request, transactions, writing, session>>
               /\ \A e \in Requests :
                     outbox'[e].status = "absent" <=> outbox[e].status = "absent"
        PROVE  AcceptanceInv'
    BY <1>2 DEF AcceptanceInv, SessionInv, WritingInv, OutcomesAgree,
       RepliesAgree, OneEventPerIdentity, IsStored, IsContradicted, Acceptance
  <1>3. ASSUME NEW w \in Workers, WorkerNext(w) \/ CrashWorker(w) PROVE AcceptanceInv'
    BY <1>2, <1>3, WorkerLeavesRows
  <1>4. CASE PassTime \/ UNCHANGED vars
    BY <1>2, <1>4 DEF PassTime, vars, intakeVars, storeVars
  <1> QED
    BY <1>1, <1>3, <1>4 DEF Next

(* No reply is ever wrong about what the database holds: every 201 and 200 *)
(* for one identity carries the one committed ID, for the committed        *)
(* content, through races, refused and lost commits, and crashes.          *)
THEOREM RepliesCorrect == Spec => []RepliesAgree
  <1>1. AcceptanceInv => RepliesAgree
    BY DEF AcceptanceInv
  <1> QED
    BY TypeInit, TypeStep, AcceptanceInit, AcceptanceStep, <1>1, PTL DEF Spec

(* The outbox holds exactly one event for each committed transaction.      *)
THEOREM OutboxCorrect == Spec => []OneEventPerIdentity
  <1>1. AcceptanceInv => OneEventPerIdentity
    BY DEF AcceptanceInv
  <1> QED
    BY TypeInit, TypeStep, AcceptanceInit, AcceptanceStep, <1>1, PTL DEF Spec

-----------------------------------------------------------------------------
(* The inductive invariant of delivery.                                    *)

(* Only pending rows carry a claim; a row not yet inserted is untouched.   *)
RowInv ==
    \A e \in Requests :
        /\ outbox[e].claim_token # NoToken => outbox[e].status = "pending"
        /\ outbox[e].status = "absent" => outbox[e] = AbsentEvent

(* What a worker remembers of the rows it claimed: as long as its token is *)
(* in the row, the row has not changed since the claim.                    *)
BatchInv ==
    \A w \in Workers : \A k \in DOMAIN worker[w].batch :
        LET p == worker[w].batch[k]
        IN  /\ outbox[p.event].status # "absent"
            /\ outbox[p.event].claim_token = p.token =>
                 /\ outbox[p.event].attempts = p.attempts
                 /\ outbox[p.event].lease_until = worker[w].now + Lease

(* A batch holds an event once, and no two workers hold one token.         *)
TokenInv ==
    \A w, v \in Workers : \A j \in DOMAIN worker[w].batch, k \in DOMAIN worker[v].batch :
        /\ worker[w].batch[j].token = worker[v].batch[k].token => w = v
        /\ w = v /\ worker[w].batch[j].event = worker[v].batch[k].event => j = k

(* Clocks do not run backwards, and an event is marked after it is sent.   *)
WorkerInv ==
    \A w \in Workers :
        /\ worker[w].now <= clock
        /\ worker[w].pc = "mark" => Pending(w).event \in topic

DeliveryInv ==
    /\ RowInv
    /\ BatchInv
    /\ TokenInv
    /\ WorkerInv
    /\ LeaseProtects
    /\ FailedAfterMaxAttempts
    /\ PublishedWasDelivered

IInv == TypeInv /\ AcceptanceInv /\ DeliveryInv

(* Worker w drops the first s events of its batch, or all of them; every   *)
(* other batch stays.                                                      *)
Shrinks(w, s) ==
    \A v \in Workers : \A k \in DOMAIN worker'[v].batch :
        LET j == IF v = w THEN k + s ELSE k
        IN  /\ j \in DOMAIN worker[v].batch
            /\ worker'[v].batch[k] = worker[v].batch[j]
            /\ worker'[v].now = worker[v].now

(* The store ends the claim at the head of w's batch.                      *)
Settles(w, e) ==
    /\ worker[w].pc \in {"mark", "record"}
    /\ e = Pending(w).event
    /\ ClaimHeld(e, Pending(w).token)
    /\ outbox'[e].claim_token = NoToken
    /\ outbox'[e].status # "absent"

(* What workers remember of their claims stays right when one of them      *)
(* settles the head of its batch and drops it.                             *)
LEMMA KeepBatches ==
    ASSUME TypeInv, TypeInv', BatchInv, TokenInv, LeaseProtects,
           NEW w \in Workers, NEW s \in {0, 1}, Shrinks(w, s), clock' >= clock,
           \A e \in Requests : outbox'[e] = outbox[e] \/ (s = 1 /\ Settles(w, e))
    PROVE  BatchInv' /\ TokenInv' /\ LeaseProtects'
  <1> DEFINE old(v, k) == IF v = w THEN k + s ELSE k
  <1>1. ASSUME NEW v \in Workers, NEW k \in DOMAIN worker'[v].batch
        PROVE  /\ old(v, k) \in DOMAIN worker[v].batch
               /\ worker'[v].batch[k] = worker[v].batch[old(v, k)]
               /\ worker'[v].now = worker[v].now
               /\ worker[v].batch[old(v, k)] \in PendingEvents
               /\ k \in Nat \ {0}
    <2>1. /\ old(v, k) \in DOMAIN worker[v].batch
          /\ worker'[v].batch[k] = worker[v].batch[old(v, k)]
          /\ worker'[v].now = worker[v].now
      BY <1>1 DEF Shrinks
    <2>2. worker[v].batch \in Seq(PendingEvents) /\ worker'[v].batch \in Seq(PendingEvents)
      BY DEF TypeInv, TypeOK, DispatcherType
    <2> HIDE DEF old
    <2> QED
      BY <1>1, <2>1, <2>2
  <1>2. TokenInv'
    <2> SUFFICES ASSUME NEW x \in Workers, NEW v \in Workers,
                        NEW j \in DOMAIN worker'[x].batch,
                        NEW k \in DOMAIN worker'[v].batch
                 PROVE  /\ worker'[x].batch[j].token = worker'[v].batch[k].token => x = v
                        /\ x = v /\ worker'[x].batch[j].event = worker'[v].batch[k].event
                              => j = k
      BY DEF TokenInv
    <2>1. old(x, j) \in DOMAIN worker[x].batch /\ old(v, k) \in DOMAIN worker[v].batch
      BY <1>1
    <2>2. /\ worker[x].batch[old(x, j)].token = worker[v].batch[old(v, k)].token => x = v
          /\ x = v /\ worker[x].batch[old(x, j)].event = worker[v].batch[old(v, k)].event
                => old(x, j) = old(v, k)
      BY <2>1 DEF TokenInv
    <2>3. j \in Nat /\ k \in Nat /\ (x = v /\ old(x, j) = old(v, k) => j = k)
      BY <1>1
    <2> HIDE DEF old
    <2> QED
      BY <1>1, <2>2, <2>3
  <1>3. ASSUME NEW v \in Workers, NEW k \in DOMAIN worker'[v].batch,
               NEW p, p = worker'[v].batch[k], outbox'[p.event] # outbox[p.event]
        PROVE  /\ outbox'[p.event].claim_token = NoToken
               /\ outbox'[p.event].status # "absent"
               /\ outbox[p.event].claim_token # p.token
    <2>1. p = worker[v].batch[old(v, k)] /\ p \in PendingEvents
      BY <1>1, <1>3
    <2>2. s = 1 /\ Settles(w, p.event)
      BY <1>3, <2>1 DEF PendingEvents
    <2>3. Pending(w) = worker[w].batch[1] /\ 1 \in DOMAIN worker[w].batch
      BY <2>2, HeadOfBatch DEF Settles
    <2>4. outbox[p.event].claim_token = p.token => v = w /\ old(v, k) = 1
      <3>1. /\ p.event = worker[w].batch[1].event
            /\ outbox[p.event].claim_token = worker[w].batch[1].token
        BY <2>2, <2>3 DEF Settles, ClaimHeld
      <3>2. old(v, k) \in DOMAIN worker[v].batch
        BY <1>1, <1>3
      <3>3. /\ worker[w].batch[1].token = worker[v].batch[old(v, k)].token => v = w
            /\ v = w /\ worker[w].batch[1].event = worker[v].batch[old(v, k)].event
                  => old(v, k) = 1
        BY <2>3, <3>2 DEF TokenInv
      <3> HIDE DEF old
      <3> QED
        BY <2>1, <3>1, <3>3
    <2>5. v = w => old(v, k) # 1
      BY <1>1, <2>2
    <2> QED
      BY <2>2, <2>4, <2>5 DEF Settles
  <1>4. ASSUME NEW v \in Workers, NEW k \in DOMAIN worker'[v].batch
        PROVE  LET p == worker'[v].batch[k]
               IN  /\ outbox'[p.event].status # "absent"
                   /\ outbox'[p.event].claim_token = p.token =>
                        /\ outbox'[p.event].attempts = p.attempts
                        /\ outbox'[p.event].lease_until = worker'[v].now + Lease
    <2> DEFINE p == worker'[v].batch[k]
    <2>1. /\ outbox[p.event].status # "absent"
          /\ outbox[p.event].claim_token = p.token =>
               /\ outbox[p.event].attempts = p.attempts
               /\ outbox[p.event].lease_until = worker'[v].now + Lease
      <3>1. /\ old(v, k) \in DOMAIN worker[v].batch
            /\ p = worker[v].batch[old(v, k)]
            /\ worker'[v].now = worker[v].now
        BY <1>1
      <3> HIDE DEF old, p
      <3> QED
        BY <3>1 DEF BatchInv
    <2>2. p.token \in Tokens
      BY <1>1 DEF PendingEvents
    <2> QED
      BY <1>3, <2>1, <2>2
  <1>5. ASSUME NEW v \in Workers, clock' < worker'[v].now + Lease,
               NEW k \in DOMAIN worker'[v].batch
        PROVE  LET p == worker'[v].batch[k]
               IN  /\ outbox'[p.event].status = "pending"
                   /\ outbox'[p.event].claim_token = p.token
                   /\ outbox'[p.event].attempts = p.attempts
    <2> DEFINE p == worker'[v].batch[k]
    <2>1. clock < worker[v].now + Lease
      BY <1>1, <1>5 DEF TypeInv, TypeOK, DispatcherType
    <2>2. ClaimHeld(p.event, p.token) /\ outbox[p.event].attempts = p.attempts
      BY <1>1, <2>1 DEF LeaseProtects
    <2>3. outbox'[p.event] = outbox[p.event]
      BY <1>3, <2>2 DEF ClaimHeld
    <2> QED
      BY <2>2, <2>3 DEF ClaimHeld
  <1>6. BatchInv'
    BY <1>4 DEF BatchInv
  <1>7. LeaseProtects'
    BY <1>5 DEF LeaseProtects, ClaimHeld
  <1> QED
    BY <1>2, <1>6, <1>7

(* Publishing, stopping, restarting and reading the clock settle nothing.  *)
LEMMA IdleStep ==
    ASSUME TypeInv, TypeInv', DeliveryInv, NEW w \in Workers, UNCHANGED outbox,
           \/ StartBatch(w) \/ PublishOk(w) \/ PublishError(w) \/ Restart(w)
           \/ Halt(w)
    PROVE  DeliveryInv'
  <1> USE DEF DeliveryInv
  <1>0. worker \in [Workers -> [pc: {"idle", "claiming", "publish", "mark", "record", "stopped"},
                                now: Nat, batch: Seq(PendingEvents)]]
    BY DEF TypeInv, TypeOK, DispatcherType
  <1>1. Shrinks(w, 0) /\ clock' = clock /\ clock \in Nat
    <2>1. CASE StartBatch(w)
      <3>1. worker[w].batch = <<>>
        BY <2>1 DEF StartBatch, TypeInv, BusyInv
      <3>2. worker'[w].batch = <<>> /\ \A v \in Workers \ {w} : worker'[v] = worker[v]
        BY <1>0, <2>1, <3>1 DEF StartBatch
      <3> QED
        BY <2>1, <3>2 DEF StartBatch, Shrinks, TypeInv, TypeOK, DispatcherType
    <2>2. CASE PublishOk(w) \/ PublishError(w)
      <3>1. \A v \in Workers : /\ worker'[v].batch = worker[v].batch
                               /\ worker'[v].now = worker[v].now
        <4>1. CASE PublishOk(w)
          BY <1>0, <4>1 DEF PublishOk
        <4>2. CASE PublishError(w)
          BY <1>0, <4>2 DEF PublishError
        <4> QED
          BY <2>2, <4>1, <4>2
      <3>2. \A v \in Workers : \A k \in DOMAIN worker[v].batch : k + 0 = k
        BY <1>0
      <3>3. UNCHANGED clock /\ clock \in Nat
        BY <2>2 DEF PublishOk, PublishError, TypeInv, TypeOK, DispatcherType
      <3> QED
        <4>1. Shrinks(w, 0)
          BY <3>1, <3>2, Zenon DEF Shrinks
        <4> QED
          BY <3>3, <4>1
    <2>3. CASE Restart(w) \/ Halt(w)
      <3>1. worker'[w].batch = <<>> /\ \A v \in Workers \ {w} : worker'[v] = worker[v]
        BY <1>0, <2>3 DEF Restart, Halt, Idle, Stopped
      <3>2. UNCHANGED clock /\ clock \in Nat
        BY <2>3 DEF Restart, Halt, TypeInv, TypeOK, DispatcherType
      <3> QED
        BY <3>1, <3>2 DEF Shrinks
    <2> QED
      BY <2>1, <2>2, <2>3
  <1>2. BatchInv' /\ TokenInv' /\ LeaseProtects'
    BY <1>1, KeepBatches
  <1>3. RowInv' /\ FailedAfterMaxAttempts'
    BY DEF RowInv, FailedAfterMaxAttempts
  <1>4. PublishedWasDelivered'
    <2>1. \/ topic' = topic
          \/ topic' = topic \cup {Pending(w).event} /\ worker[w].pc = "publish"
      <3>1. CASE StartBatch(w) \/ Restart(w) \/ Halt(w)
        BY <3>1 DEF StartBatch, Restart, Halt
      <3>2. CASE PublishOk(w)
        BY <3>2 DEF PublishOk
      <3>3. CASE PublishError(w)
        BY <3>3 DEF PublishError
      <3> QED
        BY <3>1, <3>2, <3>3
    <2>2. worker[w].pc = "publish" => outbox[Pending(w).event].status # "absent"
      BY HeadOfBatch DEF BatchInv
    <2> QED
      BY <2>1, <2>2 DEF PublishedWasDelivered
  <1>5. WorkerInv'
    <2>1. CASE StartBatch(w)
      BY <1>0, <1>1, <2>1 DEF StartBatch, WorkerInv, Pending
    <2>2. CASE PublishOk(w)
      BY <1>0, <1>1, <2>2 DEF PublishOk, WorkerInv, Pending
    <2>3. CASE PublishError(w)
      BY <1>0, <1>1, <2>3 DEF PublishError, WorkerInv, Pending
    <2>4. CASE Restart(w)
      BY <1>0, <1>1, <2>4 DEF Restart, WorkerInv, Pending, Idle
    <2>5. CASE Halt(w)
      BY <1>0, <1>1, <2>5 DEF Halt, WorkerInv, Pending, Stopped
    <2> QED
      BY <2>1, <2>2, <2>3, <2>4, <2>5
  <1> QED
    BY <1>2, <1>3, <1>4, <1>5

(* A confirmed outcome: the worker drops the head of its batch or all.     *)
LEMMA ConfirmedStep ==
    ASSUME TypeInv, WorkerInv, NEW w \in Workers,
           worker[w].pc \in {"mark", "record"}, Confirmed(w)
    PROVE  Shrinks(w, 1) /\ WorkerInv' /\ UNCHANGED <<topic, clock>>
  <1>0. worker \in [Workers -> [pc: {"idle", "claiming", "publish", "mark", "record", "stopped"},
                                now: Nat, batch: Seq(PendingEvents)]]
        /\ clock \in Nat
    BY DEF TypeInv, TypeOK, DispatcherType
  <1>1. UNCHANGED <<topic, clock>>
    BY DEF Confirmed, Advance, Continue, Halt
  <1>2. \A v \in Workers \ {w} : worker'[v] = worker[v]
    BY <1>0 DEF Confirmed, Advance, Continue, Halt
  <1>3. \/ worker'[w].batch = <<>> /\ worker'[w].now = 0 /\ worker'[w].pc # "mark"
        \/ /\ worker'[w].batch = Tail(worker[w].batch)
           /\ worker'[w].now = worker[w].now
           /\ worker'[w].pc # "mark"
    <2>1. CASE Halt(w)
      BY <1>0, <2>1 DEF Halt, Stopped
    <2>2. CASE Advance(w)
      <3>1. CASE Tail(worker[w].batch) = <<>>
        BY <1>0, <2>2, <3>1 DEF Advance, Continue, Idle
      <3>2. CASE Tail(worker[w].batch) # <<>>
        BY <1>0, <2>2, <3>2 DEF Advance, Continue
      <3> QED
        BY <3>1, <3>2
    <2> QED
      BY <2>1, <2>2 DEF Confirmed
  <1>4. Shrinks(w, 1)
    <2>1. worker[w].batch # <<>> /\ worker[w].batch \in Seq(PendingEvents)
      BY <1>0, HeadOfBatch
    <2>2. \A k \in DOMAIN Tail(worker[w].batch) :
             /\ k + 1 \in DOMAIN worker[w].batch
             /\ Tail(worker[w].batch)[k] = worker[w].batch[k + 1]
      BY <2>1, TailOfBatch
    <2> SUFFICES ASSUME NEW v \in Workers, NEW k \in DOMAIN worker'[v].batch
                 PROVE  LET j == IF v = w THEN k + 1 ELSE k
                        IN  /\ j \in DOMAIN worker[v].batch
                            /\ worker'[v].batch[k] = worker[v].batch[j]
                            /\ worker'[v].now = worker[v].now
      BY DEF Shrinks
    <2>3. CASE v # w
      BY <1>2, <2>3
    <2>4. CASE v = w
      <3>1. worker'[w].batch # <<>>
        BY <2>4
      <3> QED
        BY <1>3, <2>2, <2>4, <3>1
    <2> QED
      BY <2>3, <2>4
  <1>5. WorkerInv'
    <2> SUFFICES ASSUME NEW v \in Workers
                 PROVE  /\ worker'[v].now <= clock'
                        /\ worker'[v].pc = "mark" => Head(worker'[v].batch).event \in topic'
      BY DEF WorkerInv, Pending
    <2>1. CASE v # w
      BY <1>1, <1>2, <2>1 DEF WorkerInv, Pending
    <2>2. CASE v = w
      BY <1>0, <1>1, <1>3, <2>2 DEF WorkerInv
    <2> QED
      BY <2>1, <2>2
  <1> QED
    BY <1>1, <1>4, <1>5

(* MarkPublished under a held claim keeps the delivery invariant: the event *)
(* is in the topic, and no other worker holds a token for it.              *)
LEMMA MarkStep ==
    ASSUME TypeInv, TypeInv', DeliveryInv, NEW w \in Workers, Mark(w)
    PROVE  DeliveryInv'
  <1> USE DEF DeliveryInv
  <1> DEFINE e == Pending(w).event
  <1>1. e \in Requests
    BY HeadOfBatch DEF Mark, PendingEvents
  <1>2. /\ ClaimHeld(e, Pending(w).token)
        /\ outbox'[e] = [outbox[e] EXCEPT !.status = "published", !.lease_until = 0,
                                           !.claim_token = NoToken]
        /\ \A f \in Requests \ {e} : outbox'[f] = outbox[f]
    BY <1>1 DEF Mark, MarkPublished, TypeInv, TypeOK, StoreType
  <1>3. /\ outbox'[e].status = "published" /\ outbox'[e].claim_token = NoToken
        /\ outbox'[e].attempts = outbox[e].attempts
    BY <1>1, <1>2 DEF TypeInv, TypeOK, StoreType, OutboxRows
  <1>4. Shrinks(w, 1) /\ WorkerInv' /\ UNCHANGED <<topic, clock>>
    BY ConfirmedStep DEF Mark
  <1>5. \A f \in Requests : outbox'[f] = outbox[f] \/ Settles(w, f)
    BY <1>2, <1>3 DEF Settles, Mark
  <1>6. BatchInv' /\ TokenInv' /\ LeaseProtects'
    <2>1. clock' >= clock
      BY <1>4 DEF TypeInv, TypeOK, DispatcherType
    <2> HIDE DEF Mark
    <2> QED
      BY <1>4, <1>5, <2>1, KeepBatches
  <1>7. RowInv' /\ FailedAfterMaxAttempts'
    <2> HIDE DEF e
    <2>1. RowInv'
      <3>1. ASSUME NEW x \in Requests
            PROVE  /\ outbox'[x].claim_token # NoToken => outbox'[x].status = "pending"
                   /\ outbox'[x].status = "absent" => outbox'[x] = AbsentEvent
        <4>1. CASE x = e
          BY <1>3, <4>1
        <4>2. CASE x # e
          BY <1>2, <4>2 DEF RowInv
        <4> QED
          BY <4>1, <4>2
      <3> QED
        BY <3>1 DEF RowInv
    <2>2. outbox[e].attempts <= MaxAttempts /\ outbox[e].attempts # MaxAttempts
      BY <1>1, <1>2 DEF FailedAfterMaxAttempts, ClaimHeld
    <2>3. \A x \in Requests :
             /\ outbox'[x].status = "failed" <=> outbox'[x].attempts = MaxAttempts
             /\ outbox'[x].attempts <= MaxAttempts
      BY <1>2, <1>3, <2>2 DEF FailedAfterMaxAttempts
    <2> QED
      BY <2>1, <2>3 DEF FailedAfterMaxAttempts
  <1>8. PublishedWasDelivered'
    <2>1. e \in topic /\ outbox[e].status = "pending" /\ UNCHANGED topic
      BY <1>2, <1>4 DEF WorkerInv, Mark, ClaimHeld
    <2> HIDE DEF e
    <2> QED
      BY <1>2, <1>3, <2>1 DEF PublishedWasDelivered
  <1> QED
    BY <1>4, <1>6, <1>7, <1>8

(* RecordFailure under a held claim keeps the delivery invariant: it adds one *)
(* to the attempts the claim returned.                                     *)
LEMMA RecordStep ==
    ASSUME TypeInv, TypeInv', DeliveryInv, NEW w \in Workers, Record(w)
    PROVE  DeliveryInv'
  <1> USE DEF DeliveryInv
  <1> DEFINE e == Pending(w).event
             f == Failure(w)
  <1>1. e \in Requests /\ Pending(w) \in PendingEvents
    BY HeadOfBatch DEF Record, PendingEvents
  <1>2. /\ f \in Failures /\ f.event = e /\ f.token = Pending(w).token
        /\ f.attempts = Pending(w).attempts + 1
        /\ f.terminal <=> f.attempts >= MaxAttempts
    <2>1. f \in Failures
      BY HeadOfBatch, FailureType DEF Record, TypeInv, TypeOK
    <2> QED
      BY <2>1 DEF Failure
  <1>3. /\ ClaimHeld(e, Pending(w).token)
        /\ outbox'[e].status = IF f.terminal THEN "failed" ELSE "pending"
        /\ outbox'[e].attempts = f.attempts
        /\ outbox'[e].claim_token = NoToken
        /\ \A x \in Requests \ {e} : outbox'[x] = outbox[x]
    <2> HIDE DEF f, e
    <2> QED
      BY <1>1, <1>2 DEF Record, RecordFailure, TypeInv, TypeOK, StoreType, OutboxRows, f
  <1>4. Shrinks(w, 1) /\ WorkerInv' /\ UNCHANGED <<topic, clock>>
    BY ConfirmedStep DEF Record
  <1>5. \A x \in Requests : outbox'[x] = outbox[x] \/ Settles(w, x)
    BY <1>3 DEF Settles, Record
  <1>6. BatchInv' /\ TokenInv' /\ LeaseProtects'
    <2>1. clock' >= clock
      BY <1>4 DEF TypeInv, TypeOK, DispatcherType
    <2> QED
      BY <1>4, <1>5, <2>1, KeepBatches
  <1>7. RowInv'
    BY <1>3 DEF RowInv
  <1>8. FailedAfterMaxAttempts'
    <2>1. outbox[e].attempts = Pending(w).attempts /\ outbox[e].status = "pending"
      BY <1>3, HeadOfBatch DEF Record, BatchInv, ClaimHeld
    <2>2. outbox[e].attempts \in Nat /\ outbox[e].attempts < MaxAttempts
      BY <1>1, <2>1 DEF FailedAfterMaxAttempts, TypeInv, TypeOK, StoreType, OutboxRows
    <2>3. f.attempts = outbox[e].attempts + 1
      BY <1>2, <2>1
    <2> HIDE DEF f, e
    <2>4. /\ outbox'[e].status = "failed" <=> outbox'[e].attempts = MaxAttempts
          /\ outbox'[e].attempts <= MaxAttempts
      BY <1>2, <1>3, <2>2, <2>3
    <2>5. \A x \in Requests :
             /\ outbox'[x].status = "failed" <=> outbox'[x].attempts = MaxAttempts
             /\ outbox'[x].attempts <= MaxAttempts
      BY <1>3, <2>4 DEF FailedAfterMaxAttempts
    <2> QED
      BY <2>5 DEF FailedAfterMaxAttempts
  <1>9. PublishedWasDelivered'
    BY <1>3, <1>4 DEF PublishedWasDelivered, ClaimHeld
  <1> QED
    BY <1>4, <1>6, <1>7, <1>8, <1>9

(* The claim statement writes two columns.                                 *)
LEMMA ClaimedRowFields ==
    ASSUME NEW row \in OutboxRows, NEW token, NEW lease
    PROVE  LET new == [row EXCEPT !.lease_until = lease, !.claim_token = token]
           IN  /\ new.status = row.status /\ new.attempts = row.attempts
               /\ new.lease_until = lease /\ new.claim_token = token
  BY DEF OutboxRows

(* A claim takes only rows whose lease has run out, under a new token.     *)
LEMMA ClaimStep ==
    ASSUME TypeInv, TypeInv', DeliveryInv, NEW w \in Workers, Claim(w)
    PROVE  DeliveryInv'
  <1> USE DEF DeliveryInv
  <1> DEFINE now == worker[w].now
             token == FreshToken
  <1>0. worker \in [Workers -> [pc: {"idle", "claiming", "publish", "mark", "record", "stopped"},
                                now: Nat, batch: Seq(PendingEvents)]]
        /\ clock \in Nat /\ outbox \in [Requests -> OutboxRows]
    BY DEF TypeInv, TypeOK, DispatcherType, StoreType
  <1>1. PICK skipped \in SUBSET Locked(w) :
          \E events \in Candidates(now, BatchSize, skipped) :
            /\ ClaimPending(now, Lease, token, events)
            /\ \/ Claimed(w, PendingOf(events, token)) /\ UNCHANGED faults
               \/ Halt(w) /\ Fault
    BY DEF Claim
  <1>2. PICK events \in Candidates(now, BatchSize, skipped) :
            /\ ClaimPending(now, Lease, token, events)
            /\ \/ Claimed(w, PendingOf(events, token)) /\ UNCHANGED faults
               \/ Halt(w) /\ Fault
    BY <1>1
  <1>3. token \in Tokens /\ token \notin UsedTokens
    BY FreshTokenIsFresh DEF Claim
  <1> DEFINE taken == {events[k] : k \in DOMAIN events}
             batch == PendingOf(events, token)
  <1>4. /\ batch \in Seq(PendingEvents)
        /\ DOMAIN batch = DOMAIN events
        /\ \A k \in DOMAIN events :
              /\ events[k] \in Due(now)
              /\ batch[k] = [event |-> events[k], attempts |-> outbox[events[k]].attempts,
                             token |-> token]
        /\ \A j, k \in DOMAIN events : events[j] = events[k] => j = k
    BY <1>3, ClaimedBatch DEF TypeInv, TypeOK
  <1>5. \A e \in taken : /\ e \in Requests /\ outbox[e].status = "pending"
                         /\ outbox[e].lease_until <= now
                         /\ outbox'[e].status = "pending"
                         /\ outbox'[e].attempts = outbox[e].attempts
                         /\ outbox'[e].lease_until = now + Lease
                         /\ outbox'[e].claim_token = token
    <2>1. \A e \in taken : /\ e \in Requests /\ outbox[e].status = "pending"
                           /\ outbox[e].lease_until <= now
      BY <1>4 DEF Due
    <2>2. \A e \in taken : outbox'[e] = [outbox[e] EXCEPT !.lease_until = now + Lease,
                                                          !.claim_token = token]
      BY <1>2, <2>1 DEF ClaimPending
    <2> HIDE DEF taken, now, token
    <2> TAKE e \in taken
    <2>3. outbox[e] \in OutboxRows
      BY <1>0, <2>1
    <2>4. /\ outbox'[e].status = outbox[e].status
          /\ outbox'[e].attempts = outbox[e].attempts
          /\ outbox'[e].lease_until = now + Lease
          /\ outbox'[e].claim_token = token
      <3> DEFINE row == outbox[e]
                 lease == now + Lease
      <3>1. row \in OutboxRows
        BY <2>3
      <3>2. outbox'[e] = [row EXCEPT !.lease_until = lease, !.claim_token = token]
        BY <2>2
      <3>3. /\ outbox'[e].status = row.status /\ outbox'[e].attempts = row.attempts
            /\ outbox'[e].lease_until = lease /\ outbox'[e].claim_token = token
        <4> HIDE DEF row, lease
        <4> QED
          BY <3>1, <3>2, ClaimedRowFields
      <3> QED
        BY <3>3
    <2> QED
      BY <2>1, <2>4
  <1>6. \A e \in Requests \ taken : outbox'[e] = outbox[e]
    BY <1>2 DEF ClaimPending
  <1>7. /\ UNCHANGED <<topic, clock>>
        /\ \A v \in Workers \ {w} : worker'[v] = worker[v]
        /\ worker'[w].pc # "mark"
        /\ \/ worker'[w].batch = <<>> /\ worker'[w].now = 0
           \/ worker'[w].batch = batch /\ worker'[w].now = now
    <2>1. CASE Halt(w)
      BY <1>0, <2>1 DEF Halt, Stopped
    <2>2. CASE Continue(w, batch)
      <3> HIDE DEF batch, now
      <3>1. CASE batch = <<>>
        BY <1>0, <2>2, <3>1 DEF Continue, Idle
      <3>2. CASE batch # <<>>
        BY <1>0, <2>2, <3>2 DEF Continue, now
      <3> QED
        BY <3>1, <3>2
    <2> QED
      BY <1>2, <2>1, <2>2 DEF Claimed
  <1>8. \A k \in DOMAIN worker'[w].batch :
          /\ worker'[w].now = now
          /\ k \in DOMAIN events
          /\ events[k] \in taken
          /\ worker'[w].batch[k].event = events[k]
          /\ worker'[w].batch[k].token = token
          /\ worker'[w].batch[k].attempts = outbox[events[k]].attempts
    <2> HIDE DEF batch, now, token
    <2> TAKE k \in DOMAIN worker'[w].batch
    <2>1. worker'[w].batch # <<>>
      OBVIOUS
    <2>2. worker'[w].batch = batch /\ worker'[w].now = now
      BY <1>7, <2>1
    <2>3. /\ k \in DOMAIN events
          /\ batch[k] = [event |-> events[k], attempts |-> outbox[events[k]].attempts,
                         token |-> token]
      BY <1>4, <2>2
    <2> QED
      BY <2>2, <2>3
  <1>9. \A v \in Workers : \A k \in DOMAIN worker[v].batch :
          /\ worker[v].batch[k] \in PendingEvents
          /\ worker[v].batch[k].token # token
    <2>1. \A v \in Workers : \A k \in DOMAIN worker[v].batch :
             worker[v].batch[k] \in PendingEvents
      BY <1>0
    <2> QED
      BY <1>3, <2>1 DEF UsedTokens
  <1> HIDE DEF token, now, taken, batch
  <1>10. BatchInv'
    <2> SUFFICES ASSUME NEW v \in Workers, NEW k \in DOMAIN worker'[v].batch,
                        NEW p, p = worker'[v].batch[k]
                 PROVE  /\ outbox'[p.event].status # "absent"
                        /\ outbox'[p.event].claim_token = p.token =>
                             /\ outbox'[p.event].attempts = p.attempts
                             /\ outbox'[p.event].lease_until = worker'[v].now + Lease
      BY DEF BatchInv
    <2>1. CASE v = w
      <3>1. p.event \in taken /\ p.attempts = outbox[p.event].attempts /\ worker'[v].now = now
        BY <1>8, <2>1
      <3> QED
        BY <1>5, <3>1
    <2>2. CASE v # w
      <3>1. /\ worker'[v] = worker[v] /\ p \in PendingEvents /\ p.token # token
            /\ outbox[p.event].status # "absent"
            /\ outbox[p.event].claim_token = p.token =>
                 /\ outbox[p.event].attempts = p.attempts
                 /\ outbox[p.event].lease_until = worker[v].now + Lease
        BY <1>7, <1>9, <2>2 DEF BatchInv
      <3>2. p.event \in Requests
        BY <3>1 DEF PendingEvents
      <3> QED
        BY <1>5, <1>6, <3>1, <3>2
    <2> QED
      BY <2>1, <2>2
  <1>11. TokenInv'
    <2> SUFFICES ASSUME NEW x \in Workers, NEW v \in Workers,
                        NEW j \in DOMAIN worker'[x].batch,
                        NEW k \in DOMAIN worker'[v].batch
                 PROVE  /\ worker'[x].batch[j].token = worker'[v].batch[k].token => x = v
                        /\ x = v /\ worker'[x].batch[j].event = worker'[v].batch[k].event
                              => j = k
      BY DEF TokenInv
    <2>1. CASE x # w /\ v # w
      BY <1>7, <2>1 DEF TokenInv
    <2>2. CASE x = w /\ v = w
      BY <1>4, <1>8, <2>2
    <2>3. CASE x = w /\ v # w
      BY <1>7, <1>8, <1>9, <2>3
    <2>4. CASE x # w /\ v = w
      BY <1>7, <1>8, <1>9, <2>4
    <2> QED
      BY <2>1, <2>2, <2>3, <2>4
  <1>12. LeaseProtects'
    <2> SUFFICES ASSUME NEW v \in Workers, clock' < worker'[v].now + Lease,
                        NEW k \in DOMAIN worker'[v].batch,
                        NEW p, p = worker'[v].batch[k]
                 PROVE  /\ outbox'[p.event].status = "pending"
                        /\ outbox'[p.event].claim_token = p.token
                        /\ outbox'[p.event].attempts = p.attempts
      BY DEF LeaseProtects, ClaimHeld
    <2>1. CASE v = w
      <3>1. p.event \in taken /\ p.attempts = outbox[p.event].attempts /\ p.token = token
        BY <1>8, <2>1
      <3> QED
        BY <1>5, <3>1
    <2>2. CASE v # w
      <3>1. worker'[v] = worker[v] /\ p \in PendingEvents /\ clock < worker[v].now + Lease
        BY <1>7, <1>9, <2>2
      <3>2. /\ ClaimHeld(p.event, p.token) /\ outbox[p.event].attempts = p.attempts
            /\ outbox[p.event].lease_until = worker[v].now + Lease
        BY <3>1 DEF LeaseProtects, BatchInv, ClaimHeld
      <3>3. p.event \notin taken
        <4>1. now \in Nat /\ now <= clock /\ worker[v].now \in Nat
          BY <1>0 DEF WorkerInv, now
        <4> QED
          BY <1>0, <1>5, <3>1, <3>2, <4>1
      <3>4. outbox'[p.event] = outbox[p.event]
        BY <1>6, <3>1, <3>3 DEF PendingEvents
      <3> QED
        BY <3>2, <3>4 DEF ClaimHeld
    <2> QED
      BY <2>1, <2>2
  <1>13. RowInv'
    BY <1>5, <1>6 DEF RowInv
  <1>14. FailedAfterMaxAttempts'
    BY <1>5, <1>6 DEF FailedAfterMaxAttempts
  <1>15. PublishedWasDelivered'
    BY <1>5, <1>6, <1>7 DEF PublishedWasDelivered
  <1>16. WorkerInv'
    <2>1. worker'[w].now <= clock
      BY <1>0, <1>7 DEF WorkerInv, now
    <2> QED
      BY <1>7, <2>1 DEF WorkerInv, Pending
  <1> QED
    BY <1>10, <1>11, <1>12, <1>13, <1>14, <1>15, <1>16

(* Acceptance adds untouched rows, of which no worker knows.               *)
LEMMA DeliveryRequestStep ==
    ASSUME TypeInv, AcceptanceInv, DeliveryInv, NEW r \in Requests, RequestNext(r)
    PROVE  DeliveryInv'
  <1> USE DEF DeliveryInv
  <1>1. UNCHANGED <<worker, topic, clock>>
    BY DEF RequestNext, Invalid, Submit, AcceptStep, AcceptTrouble,
           Respond, CrashRequest, dispatcherVars
  <1>2. CASE UNCHANGED outbox
    <2>1. RowInv' /\ FailedAfterMaxAttempts' /\ PublishedWasDelivered'
      BY <1>1, <1>2 DEF RowInv, FailedAfterMaxAttempts, PublishedWasDelivered
    <2>2. BatchInv'
      BY <1>1, <1>2 DEF BatchInv
    <2>3. TokenInv'
      BY <1>1 DEF TokenInv
    <2>4. WorkerInv'
      BY <1>1 DEF WorkerInv, Pending
    <2>5. LeaseProtects'
      BY <1>1, <1>2 DEF LeaseProtects, ClaimHeld
    <2> QED
      BY <2>1, <2>2, <2>3, <2>4, <2>5
  <1>3. CASE Commits(r)
    <2>0. TypeOK
      BY DEF TypeInv
    <2>1. outbox[r].status = "absent"
      <3>1. transactions[request[r].identity] = NoRow
        BY <1>3, <2>0 DEF Commits, AcceptanceInv, WritingInv, TypeOK, RequestType
      <3> QED
        BY <3>1 DEF AcceptanceInv, OneEventPerIdentity, NoRow
    <2>2. /\ outbox'[r].status = "pending" /\ outbox'[r].attempts = 0
          /\ outbox'[r].claim_token = NoToken
          /\ \A e \in Requests \ {r} : outbox'[e] = outbox[e]
      BY <1>3, <2>0, AcceptanceType DEF Commits, Rows, AbsentEvent, TypeOK, StoreType
    <2>3. \A v \in Workers : \A k \in DOMAIN worker[v].batch :
             /\ outbox'[worker[v].batch[k].event] = outbox[worker[v].batch[k].event]
             /\ outbox[worker[v].batch[k].event].status # "absent"
      <3>1. \A v \in Workers : worker[v].batch \in Seq(PendingEvents)
        BY <2>0 DEF TypeOK, DispatcherType
      <3>2. \A v \in Workers : \A k \in DOMAIN worker[v].batch :
              worker[v].batch[k] \in PendingEvents
        BY <3>1
      <3>3. \A p \in PendingEvents : p.event \in Requests
        BY DEF PendingEvents
      <3> QED
        BY <2>1, <2>2, <3>2, <3>3 DEF BatchInv
    <2>4. BatchInv' /\ TokenInv' /\ WorkerInv'
      <3>1. BatchInv'
        <4>1. ASSUME NEW v \in Workers, NEW k \in DOMAIN worker[v].batch
              PROVE  LET p == worker[v].batch[k]
                     IN  /\ outbox'[p.event].status # "absent"
                         /\ outbox'[p.event].claim_token = p.token =>
                              /\ outbox'[p.event].attempts = p.attempts
                              /\ outbox'[p.event].lease_until = worker[v].now + Lease
          BY <2>3 DEF BatchInv
        <4> QED
          BY <1>1, <4>1 DEF BatchInv
      <3>2. TokenInv'
        BY <1>1 DEF TokenInv
      <3>3. WorkerInv'
        BY <1>1 DEF WorkerInv, Pending
      <3> QED
        BY <3>1, <3>2, <3>3
    <2>5. LeaseProtects'
      BY <1>1, <2>3 DEF LeaseProtects, ClaimHeld
    <2>6. RowInv' /\ PublishedWasDelivered'
      BY <1>1, <2>1, <2>2 DEF RowInv, PublishedWasDelivered
    <2>7. FailedAfterMaxAttempts'
      BY <2>2 DEF FailedAfterMaxAttempts
    <2> QED
      BY <2>4, <2>5, <2>6, <2>7
  <1> QED
    BY <1>2, <1>3, TablesStep DEF TypeInv

(* Nothing is claimed, published or counted initially.                     *)
LEMMA DeliveryInit == Init => DeliveryInv
  <1> SUFFICES ASSUME Init PROVE DeliveryInv
    OBVIOUS
  <1>1. /\ \A e \in Requests : outbox[e] = AbsentEvent
        /\ \A w \in Workers : worker[w] = Idle
        /\ topic = {} /\ clock = 0
    BY DEF Init, StoreInit, DispatcherInit
  <1>2. RowInv /\ FailedAfterMaxAttempts /\ PublishedWasDelivered
    BY <1>1 DEF RowInv, FailedAfterMaxAttempts, PublishedWasDelivered, AbsentEvent
  <1>3. BatchInv /\ TokenInv /\ WorkerInv /\ LeaseProtects
    BY <1>1 DEF BatchInv, TokenInv, WorkerInv, LeaseProtects, Idle
  <1> QED
    BY <1>2, <1>3 DEF DeliveryInv

(* No step of any actor breaks the delivery invariant.                     *)
LEMMA DeliveryStep == IInv /\ [Next]_vars => DeliveryInv'
  <1> SUFFICES ASSUME IInv, [Next]_vars PROVE DeliveryInv'
    OBVIOUS
  <1> USE DEF IInv
  <1>0. TypeInv'
    BY TypeStep
  <1>1. ASSUME NEW r \in Requests, RequestNext(r) PROVE DeliveryInv'
    BY <1>1, DeliveryRequestStep
  <1>2. ASSUME NEW w \in Workers, WorkerNext(w) \/ CrashWorker(w) PROVE DeliveryInv'
    <2>1. CASE Claim(w)
      BY <1>0, <2>1, ClaimStep
    <2>2. CASE Mark(w)
      BY <1>0, <2>2, MarkStep
    <2>3. CASE Record(w)
      BY <1>0, <2>3, RecordStep
    <2>4. CASE WorkerStep(w) \/ LeaseLost(w) \/ CrashWorker(w)
      <3>1. UNCHANGED outbox
        BY <2>4 DEF WorkerStep, LeaseLost, CrashWorker, storeVars
      <3> QED
        BY <1>0, <2>4, <3>1, IdleStep DEF WorkerStep, LeaseLost, CrashWorker
    <2> QED
      BY <1>2, <2>1, <2>2, <2>3, <2>4 DEF WorkerNext
  <1>3. CASE PassTime \/ UNCHANGED vars
    <2>1. /\ UNCHANGED <<worker, topic, outbox>>
          /\ clock \in Nat /\ clock' \in Nat /\ clock <= clock'
          /\ \A w \in Workers : worker[w].now \in Nat
      BY <1>3 DEF PassTime, Tick, vars, dispatcherVars, storeVars, TypeInv,
         TypeOK, DispatcherType
    <2>2. RowInv' /\ BatchInv' /\ TokenInv' /\ FailedAfterMaxAttempts'
            /\ PublishedWasDelivered'
      BY <2>1 DEF DeliveryInv, RowInv, BatchInv, TokenInv,
         FailedAfterMaxAttempts, PublishedWasDelivered
    <2>3. WorkerInv'
      BY <2>1 DEF DeliveryInv, WorkerInv, Pending
    <2>4. LeaseProtects'
      BY <2>1 DEF DeliveryInv, LeaseProtects, ClaimHeld
    <2> QED
      BY <2>2, <2>3, <2>4 DEF DeliveryInv
  <1> QED
    BY <1>1, <1>2, <1>3 DEF Next

(* The inductive invariant holds in every reachable state.                 *)
LEMMA Inductive == Spec => []IInv
  <1>1. Init => IInv
    BY TypeInit, AcceptanceInit, DeliveryInit DEF IInv
  <1>2. IInv /\ [Next]_vars => IInv'
    BY TypeStep, AcceptanceStep, DeliveryStep DEF IInv
  <1> QED
    BY <1>1, <1>2, PTL DEF Spec

(* For every number of workers, batch size and lease: no event leaves the  *)
(* hands of the worker that claimed it while the lease is running.         *)
THEOREM LeaseCorrect == Spec => []LeaseProtects
  <1>1. IInv => LeaseProtects
    BY DEF IInv, DeliveryInv
  <1> QED
    BY Inductive, <1>1, PTL

(* For every MaxAttempts: an event is given up after exactly that many     *)
(* counted failures, although attempts are counted outside the database.   *)
THEOREM AttemptsCorrect == Spec => []FailedAfterMaxAttempts
  <1>1. IInv => FailedAfterMaxAttempts
    BY DEF IInv, DeliveryInv
  <1> QED
    BY Inductive, <1>1, PTL

(* Nothing is recorded as published that Kafka did not get, and Kafka gets *)
(* nothing that was not committed.                                         *)
THEOREM DeliveryCorrect == Spec => []PublishedWasDelivered
  <1>1. IInv => PublishedWasDelivered
    BY DEF IInv, DeliveryInv
  <1> QED
    BY Inductive, <1>1, PTL

(* A claim is taken over only after its lease, whatever stale clock        *)
(* reading the claiming worker uses.                                       *)
THEOREM TakeoverCorrect == Spec => TakeoverAfterLease
  <1> DEFINE Takeover ==
        \A e \in Requests :
          (/\ outbox[e].claim_token # NoToken
           /\ outbox'[e].claim_token \notin {NoToken, outbox[e].claim_token})
          => outbox[e].lease_until <= clock
  <1>1. IInv /\ [Next]_vars => [Takeover]_vars
    <2> SUFFICES ASSUME IInv, [Next]_vars, NEW e \in Requests,
                        outbox[e].claim_token # NoToken,
                        outbox'[e].claim_token \notin {NoToken, outbox[e].claim_token}
                 PROVE  outbox[e].lease_until <= clock
      OBVIOUS
    <2> USE DEF IInv, TypeInv
    <2>1. ASSUME NEW w \in Workers, Claim(w) PROVE outbox[e].lease_until <= clock
      <3>1. PICK skipped \in SUBSET Locked(w) :
              \E events \in Candidates(worker[w].now, BatchSize, skipped) :
                ClaimPending(worker[w].now, Lease, FreshToken, events)
        BY <2>1 DEF Claim
      <3>2. PICK events \in Candidates(worker[w].now, BatchSize, skipped) :
                ClaimPending(worker[w].now, Lease, FreshToken, events)
        BY <3>1
      <3>3. FreshToken \in Tokens
        BY <2>1, FreshTokenIsFresh DEF Claim
      <3>4. \A k \in DOMAIN events : events[k] \in Due(worker[w].now)
        BY <3>3, ClaimedBatch DEF TypeOK
      <3>5. \E k \in DOMAIN events : events[k] = e
        BY <3>2 DEF ClaimPending
      <3>6. outbox[e].lease_until <= worker[w].now
        BY <3>4, <3>5 DEF Due
      <3>7. /\ worker[w].now <= clock /\ worker[w].now \in Nat /\ clock \in Nat
            /\ outbox[e].lease_until \in Nat
        BY DEF DeliveryInv, WorkerInv, TypeOK, DispatcherType, StoreType, OutboxRows
      <3> QED
        BY <3>6, <3>7
    <2>2. ASSUME NEW w \in Workers, Mark(w) PROVE FALSE
      <3>1. Pending(w).event \in Requests
        BY <2>2, HeadOfBatch DEF Mark, PendingEvents
      <3>2. outbox'[e].claim_token \in {NoToken, outbox[e].claim_token}
        BY <2>2, <3>1 DEF Mark, MarkPublished, TypeOK, StoreType, OutboxRows
      <3> QED
        BY <3>2
    <2>3. ASSUME NEW w \in Workers, Record(w) PROVE FALSE
      <3>1. Failure(w).event \in Requests
        BY <2>3, HeadOfBatch, FailureType DEF Record, TypeOK, Failures
      <3>2. outbox'[e].claim_token \in {NoToken, outbox[e].claim_token}
        <4>1. RecordFailure(Failure(w)) /\ StoreType
          BY <2>3 DEF Record, TypeOK
        <4>2. /\ outbox'[Failure(w).event].claim_token = NoToken
              /\ \A x \in Requests \ {Failure(w).event} : outbox'[x] = outbox[x]
          BY <3>1, <4>1, RecordedRow
        <4> QED
          BY <4>2
      <3> QED
        BY <3>2
    <2>4. ASSUME NEW w \in Workers, WorkerStep(w) \/ LeaseLost(w) \/ CrashWorker(w)
          PROVE  FALSE
      BY <2>4 DEF WorkerStep, LeaseLost, CrashWorker, storeVars
    <2>5. ASSUME NEW r \in Requests, RequestNext(r) PROVE FALSE
      <3>1. UNCHANGED outbox \/ Commits(r)
        BY <2>5, TablesStep
      <3>2. Commits(r) => outbox'[e].claim_token \in {NoToken, outbox[e].claim_token}
        BY AcceptanceType DEF Commits, Rows, AbsentEvent, TypeOK, StoreType
      <3> QED
        BY <3>1, <3>2
    <2>6. CASE PassTime \/ UNCHANGED vars
      BY <2>6 DEF PassTime, vars, storeVars
    <2> QED
      BY <2>1, <2>2, <2>3, <2>4, <2>5, <2>6 DEF Next, WorkerNext
  <1> QED
    BY <1>1, Inductive, PTL DEF Spec, TakeoverAfterLease

-----------------------------------------------------------------------------
(* The service implements the contract: sessions, claims, leases and the   *)
(* clock are hidden by the mapping, and every step is a step of the        *)
(* contract or leaves it unchanged.                                        *)

(* Initial states map to initial states of DeliveryContract.               *)
LEMMA ContractInit == Init => Contract!Init
  BY DEF Init, StoreInit, DispatcherInit, Contract!Init, NoRow, AbsentEvent

(* Every step maps to a step of DeliveryContract or to a stutter.          *)
LEMMA ContractStep == IInv /\ [Next]_vars => [Contract!Next]_(Contract!contractVars)
  <1> SUFFICES ASSUME IInv, [Next]_vars
               PROVE  Contract!Next \/ UNCHANGED Contract!contractVars
    OBVIOUS
  <1> USE DEF IInv, TypeInv
  <1>0. TypeOK' /\ outbox \in [Requests -> OutboxRows] /\ outbox' \in [Requests -> OutboxRows]
    BY TypeStep DEF TypeOK, StoreType
  <1>1. ASSUME UNCHANGED transactions, UNCHANGED topic,
               \A e \in Requests : /\ outbox'[e].status = outbox[e].status
                                   /\ outbox'[e].attempts = outbox[e].attempts
        PROVE  UNCHANGED Contract!contractVars
    BY <1>1 DEF Contract!contractVars
  <1>2. ASSUME NEW r \in Requests, RequestNext(r)
        PROVE  Contract!Next \/ UNCHANGED Contract!contractVars
    <2>1. UNCHANGED topic
      BY <1>2 DEF RequestNext, Invalid, Submit, AcceptStep, AcceptTrouble,
         Respond, CrashRequest, dispatcherVars
    <2>2. CASE UNCHANGED <<transactions, outbox>>
      BY <1>1, <2>1, <2>2
    <2>3. CASE Commits(r)
      <3> DEFINE i == request[r].identity
      <3>1. i \in Identities /\ Acceptance(r).id = r /\ Acceptance(r).identity = i
        BY AcceptanceType DEF TypeOK, RequestType
      <3>2. transactions[i] = NoRow /\ outbox[r] = AbsentEvent
        <4>1. transactions[i] = NoRow
          BY <2>3, <3>1 DEF Commits, AcceptanceInv, WritingInv
        <4> QED
          BY <4>1 DEF AcceptanceInv, OneEventPerIdentity, NoRow, DeliveryInv, RowInv
      <3>3. /\ transactions' = [transactions EXCEPT ![i] =
                   [id |-> r, fingerprint |-> Acceptance(r).fingerprint]]
            /\ outbox'[r].status = "pending" /\ outbox'[r].attempts = 0
            /\ \A e \in Requests \ {r} : outbox'[e] = outbox[e]
        BY <2>3, <3>1 DEF Commits, Rows, AbsentEvent, TypeOK, StoreType
      <3> HIDE DEF i
      <3>4. Contract!Accept(i, r)
        <4>1. transactions[i].id = NoId /\ outbox[r].status = "absent" /\ outbox[r].attempts = 0
          BY <3>2 DEF NoRow, AbsentEvent
        <4>2. [j \in Identities |-> transactions'[j].id] =
                [[j \in Identities |-> transactions[j].id] EXCEPT ![i] = r]
          BY <3>1, <3>3 DEF TypeOK, StoreType
        <4>3. [e \in Requests |-> [status |-> outbox'[e].status,
                                   attempts |-> outbox'[e].attempts]] =
                [[e \in Requests |-> [status |-> outbox[e].status,
                                      attempts |-> outbox[e].attempts]]
                   EXCEPT ![r].status = "pending"]
          BY <3>3, <4>1
        <4> QED
          BY <2>1, <3>1, <4>1, <4>2, <4>3 DEF Contract!Accept
      <3> QED
        BY <3>1, <3>4 DEF Contract!Next
    <2> QED
      BY <1>2, <2>2, <2>3, TablesStep
  <1>3. ASSUME NEW w \in Workers, WorkerNext(w) \/ CrashWorker(w)
        PROVE  Contract!Next \/ UNCHANGED Contract!contractVars
    <2> DEFINE e == Pending(w).event
    <2>0. UNCHANGED transactions
      BY <1>3, WorkerLeavesRows
    <2>1. CASE Claim(w)
      <3>1. PICK skipped \in SUBSET Locked(w) :
              \E events \in Candidates(worker[w].now, BatchSize, skipped) :
                ClaimPending(worker[w].now, Lease, FreshToken, events)
        BY <2>1 DEF Claim
      <3>2. PICK events \in Candidates(worker[w].now, BatchSize, skipped) :
                ClaimPending(worker[w].now, Lease, FreshToken, events)
        BY <3>1
      <3>3. \A x \in Requests : /\ outbox'[x].status = outbox[x].status
                                /\ outbox'[x].attempts = outbox[x].attempts
        BY <1>0, <3>2 DEF ClaimPending, OutboxRows
      <3>4. UNCHANGED topic
        BY <2>1 DEF Claim, Claimed, Continue, Halt
      <3> QED
        BY <1>1, <2>0, <3>3, <3>4
    <2>2. CASE WorkerStep(w)
      <3>1. UNCHANGED outbox
        BY <2>2 DEF WorkerStep, storeVars
      <3>2. CASE UNCHANGED topic
        BY <1>1, <2>0, <3>1, <3>2
      <3>3. CASE topic' = topic \cup {e} /\ worker[w].pc = "publish"
        <4>1. e \in Requests /\ outbox[e].status # "absent"
          BY <3>3, HeadOfBatch DEF PendingEvents, DeliveryInv, BatchInv
        <4>2. Contract!Deliver(e)
          BY <2>0, <3>1, <3>3, <4>1 DEF Contract!Deliver
        <4> QED
          BY <4>1, <4>2 DEF Contract!Next
      <3>4. \/ UNCHANGED topic
            \/ topic' = topic \cup {e} /\ worker[w].pc = "publish"
        BY <2>2 DEF WorkerStep, StartBatch, PublishOk, PublishError, Restart
      <3> QED
        BY <3>2, <3>3, <3>4
    <2>3. CASE LeaseLost(w) \/ CrashWorker(w)
      BY <1>1, <2>3 DEF LeaseLost, CrashWorker, Halt, storeVars
    <2>4. ASSUME Mark(w) \/ Record(w)
          PROVE  /\ e \in Requests /\ Pending(w) \in PendingEvents
                 /\ UNCHANGED topic
                 /\ ClaimHeld(e, Pending(w).token)
                 /\ outbox[e].attempts = Pending(w).attempts
                 /\ outbox[e].attempts < MaxAttempts
      <3>1. Pending(w) \in PendingEvents /\ e \in Requests
        BY <2>4, HeadOfBatch DEF Mark, Record, PendingEvents
      <3>2. UNCHANGED topic
        BY <2>4 DEF Mark, Record, Confirmed, Advance, Continue, Halt
      <3>3. ClaimHeld(e, Pending(w).token)
        BY <2>4 DEF Mark, Record, MarkPublished, RecordFailure, Failure
      <3>4. outbox[e].attempts = Pending(w).attempts
        BY <2>4, <3>3, HeadOfBatch DEF Mark, Record, ClaimHeld, DeliveryInv, BatchInv
      <3>5. outbox[e].attempts < MaxAttempts
        BY <1>0, <3>1, <3>3 DEF ClaimHeld, DeliveryInv, FailedAfterMaxAttempts, OutboxRows
      <3> QED
        BY <3>1, <3>2, <3>3, <3>4, <3>5
    <2>5. CASE Mark(w)
      <3>1. /\ outbox'[e].status = "published" /\ outbox'[e].attempts = outbox[e].attempts
            /\ \A x \in Requests \ {e} : outbox'[x] = outbox[x]
            /\ outbox[e].status = "pending" /\ e \in topic
        BY <1>0, <2>4, <2>5 DEF Mark, MarkPublished, ClaimHeld, OutboxRows,
           DeliveryInv, WorkerInv
      <3>2. e \in Requests /\ UNCHANGED topic
        BY <2>4, <2>5
      <3>3. PICK x \in Requests : x = e
        BY <3>2
      <3> HIDE DEF e
      <3>4. Contract!Complete(x)
        BY <2>0, <3>1, <3>2, <3>3 DEF Contract!Complete
      <3> QED
        BY <3>4 DEF Contract!Next
    <2>6. CASE Record(w)
      <3> DEFINE f == Failure(w)
      <3>1. f.event = e /\ f.attempts = outbox[e].attempts + 1
              /\ (f.terminal <=> f.attempts = MaxAttempts)
        <4>1. /\ f.event = e /\ f.attempts = Pending(w).attempts + 1
              /\ f.terminal <=> f.attempts >= MaxAttempts
          BY DEF Failure
        <4>2. outbox[e].attempts \in Nat
          BY <1>0, <2>4, <2>6 DEF OutboxRows
        <4> HIDE DEF f, e
        <4> QED
          BY <2>4, <2>6, <4>1, <4>2
      <3>2. /\ outbox'[e].status = IF f.terminal THEN "failed" ELSE "pending"
            /\ outbox'[e].attempts = f.attempts
            /\ \A x \in Requests \ {e} : outbox'[x] = outbox[x]
        <4> HIDE DEF f, e
        <4> QED
          BY <1>0, <2>4, <2>6, <3>1 DEF Record, RecordFailure, OutboxRows, f
      <3>3. outbox[e].status = "pending"
        BY <2>4, <2>6 DEF ClaimHeld
      <3>4. e \in Requests /\ UNCHANGED topic
        BY <2>4, <2>6
      <3>5. PICK x \in Requests : x = e
        BY <3>4
      <3> HIDE DEF e, f
      <3>6. Contract!FailAttempt(x)
        BY <2>0, <3>1, <3>2, <3>3, <3>4, <3>5 DEF Contract!FailAttempt
      <3> QED
        BY <3>6 DEF Contract!Next
    <2> QED
      BY <1>3, <2>1, <2>2, <2>3, <2>5, <2>6 DEF WorkerNext
  <1>4. CASE PassTime \/ UNCHANGED vars
    BY <1>1, <1>4 DEF PassTime, Tick, vars, dispatcherVars, storeVars
  <1> QED
    BY <1>2, <1>3, <1>4 DEF Next

(* Every behaviour of the service on PostgreSQL is one of DeliveryContract *)
(* (safety), for every value of the constants.                             *)
THEOREM RefinesContract == Spec => ImplementsContract
  BY ContractInit, ContractStep, Inductive, PTL DEF Spec, ImplementsContract, Contract!Spec

=============================================================================
