---------------------------- MODULE DynamoService ----------------------------
(***************************************************************************)
(* The service on DynamoDB: API processes handling Requests and Workers    *)
(* publishing the outbox share nothing but the table.  Every call of the   *)
(* client is a step, processes die and calls fail or lose their answer at  *)
(* any point, and the index lags behind the table at will.                 *)
(***************************************************************************)
EXTENDS Intake, DynamoStore

CONSTANT MaxFaults   \* bound on crashes and refused, failed or lost calls

ASSUME FaultsAssumption == MaxFaults \in Nat

VARIABLE faults   \* faults that have happened

intakeVars == <<request>>
dispatcherVars == <<worker, topic, clock>>
vars == <<intakeVars, dispatcherVars, storeVars, faults>>

(* Type correctness of requests, workers, items and calls in progress.     *)
TypeOK ==
    /\ request \in RequestType
    /\ DispatcherType
    /\ StoreType
    /\ faults \in Nat

Init ==
    /\ IntakeInit
    /\ DispatcherInit
    /\ StoreInit
    /\ faults = 0

Fault ==
    /\ faults < MaxFaults
    /\ faults' = faults + 1

-----------------------------------------------------------------------------
(* Requests.                                                               *)

Invalid(r) ==
    /\ RejectInvalid(r)
    /\ UNCHANGED <<dispatcherVars, storeVars, faults>>

Submit(r) ==
    /\ BeginAccept(r, clock)
    /\ Begin(Acceptance(r))
    /\ UNCHANGED <<dispatcherVars, faults>>

AcceptStep(r) ==
    /\ request[r].pc = "accepting"
    /\ LET a == Acceptance(r)
       IN  ReadIdentity(a) \/ TransactWriteItems(a) \/ Reclassify(a)
    /\ UNCHANGED <<intakeVars, dispatcherVars, faults>>

AcceptTrouble(r) ==
    /\ request[r].pc = "accepting"
    /\ LET a == Acceptance(r)
       IN  WriteCancelled(a) \/ WriteUnknown(a) \/ CallError(a)
    /\ Fault
    /\ UNCHANGED <<intakeVars, dispatcherVars>>

Respond(r) ==
    /\ session[r].pc = "returned"
    /\ FinishAccept(r, session[r].outcome)
    /\ Disconnect(Acceptance(r))
    /\ UNCHANGED <<dispatcherVars, faults>>

CrashRequest(r) ==
    /\ LoseRequest(r)
    /\ Disconnect(Acceptance(r))
    /\ Fault
    /\ UNCHANGED dispatcherVars

-----------------------------------------------------------------------------
(* Workers.                                                                *)

WorkerStep(w) ==
    /\ StartBatch(w) \/ PublishOk(w) \/ PublishError(w) \/ Restart(w)
    /\ UNCHANGED <<intakeVars, storeVars, faults>>

(* What w holds: the events it has claimed so far, or its batch.           *)
Held(w) == claim[w].claimed \o worker[w].batch

(* rand.Text never returns a token that is still known to anybody.         *)
UsedTokens ==
    {t \in Tokens :
        \/ \E e \in Requests : outbox[e].claim_token = t
        \/ \E w \in Workers : \E k \in DOMAIN Held(w) : Held(w)[k].token = t}

FreshToken == CHOOSE t \in Tokens : t \notin UsedTokens

(* ClaimPending goes on: it queries, or tries to lease the next item.      *)
ClaimStep(w) ==
    /\ worker[w].pc = "claiming"
    /\ \/ Query(w)
       \/ \E item \in claim[w].page :
             /\ IsNext(w, item)
             /\ SkipItem(w, item) \/ (UsedTokens # Tokens /\ LeaseItem(w, item, FreshToken))
    /\ UNCHANGED <<intakeVars, dispatcherVars, faults>>

ClaimReturns(w) ==
    /\ Exhausted(w)
    /\ Claimed(w, claim[w].claimed)
    /\ EndClaim(w)
    /\ UNCHANGED <<intakeVars, faults>>

(* The answer to a conditional update is lost: the client's retry finds    *)
(* the item leased, or the error ends ClaimPending, which returns nothing  *)
(* although the items stay leased.                                         *)
ClaimTrouble(w) ==
    /\ worker[w].pc = "claiming"
    /\ UsedTokens # Tokens
    /\ \E item \in claim[w].page :
          /\ IsNext(w, item)
          /\ \/ LeaseForgotten(w, item, FreshToken) /\ UNCHANGED dispatcherVars
             \/ /\ WriteLease(w, item, FreshToken)
                /\ claim' = [claim EXCEPT ![w] = NoClaim]
                /\ Halt(w)
    /\ Fault
    /\ UNCHANGED intakeVars

(* An update that took effect: the worker goes on, or stops because the    *)
(* answer is lost or the client's retry fails the condition.               *)
Confirmed(w) ==
    \/ Advance(w) /\ UNCHANGED faults
    \/ Halt(w) /\ Fault

Mark(w) ==
    /\ worker[w].pc = "mark"
    /\ MarkPublished(Pending(w))
    /\ Confirmed(w)
    /\ UNCHANGED intakeVars

Record(w) ==
    /\ worker[w].pc = "record"
    /\ RecordFailure(Failure(w))
    /\ Confirmed(w)
    /\ UNCHANGED intakeVars

(* ErrLeaseLost stops the worker.                                          *)
LeaseLost(w) ==
    /\ worker[w].pc \in {"mark", "record"}
    /\ ~ ClaimHeld(Pending(w).event, Pending(w).token)
    /\ Halt(w)
    /\ UNCHANGED <<intakeVars, storeVars, faults>>

(* The process dies, or a call fails without effect; in a claim, what was  *)
(* claimed before is dropped.                                              *)
CrashWorker(w) ==
    /\ worker[w].pc # "stopped"
    /\ Halt(w)
    /\ EndClaim(w)
    /\ Fault
    /\ UNCHANGED intakeVars

PassTime ==
    /\ Tick
    /\ UNCHANGED <<intakeVars, storeVars, faults>>

UpdateIndex(e) ==
    /\ Propagate(e)
    /\ UNCHANGED <<intakeVars, dispatcherVars, faults>>

-----------------------------------------------------------------------------
RequestNext(r) ==
    \/ Invalid(r)
    \/ Submit(r)
    \/ AcceptStep(r)
    \/ AcceptTrouble(r)
    \/ Respond(r)
    \/ CrashRequest(r)

WorkerNext(w) ==
    \/ WorkerStep(w)
    \/ ClaimStep(w)
    \/ ClaimReturns(w)
    \/ Mark(w)
    \/ Record(w)
    \/ LeaseLost(w)

Next ==
    \/ \E r \in Requests : RequestNext(r) \/ UpdateIndex(r)
    \/ \E w \in Workers : WorkerNext(w) \/ ClaimTrouble(w) \/ CrashWorker(w)
    \/ PassTime

Spec == Init /\ [][Next]_vars

(* Worker loops run and are restarted, time passes, and the index catches  *)
(* up with every item.                                                     *)
Fairness ==
    /\ \A w \in Workers : WF_vars(WorkerNext(w))
    /\ \A e \in Requests : WF_vars(UpdateIndex(e))
    /\ WF_vars(PassTime)

FairSpec == Spec /\ Fairness

-----------------------------------------------------------------------------
StoredItem(r) == transactions[Key[request[r].identity]]

IsStored(r, id) ==
    StoredItem(r) = [id |-> id, fingerprint |-> Acceptance(r).fingerprint]

IsContradicted(r) ==
    StoredItem(r) # NoItem /\ StoredItem(r).fingerprint # Acceptance(r).fingerprint

(* Every reply tells the truth about the stored item, although it is read  *)
(* and written in separate calls and a cancelled write says nothing: 201   *)
(* and 200 carry its ID and were sent for its content, 201 only to the     *)
(* request that wrote it, a conflict means other content (Store.Accept).   *)
RepliesAgree ==
    \A r \in Requests :
        /\ request[r].reply.code = "created"  => IsStored(r, r)
        /\ request[r].reply.code = "replayed" => IsStored(r, request[r].reply.id)
        /\ request[r].reply.code = "conflict" => IsContradicted(r)

(* Transaction and outbox item are written together or not at all: the     *)
(* outbox holds exactly the events of the stored transactions.             *)
OneEventPerIdentity ==
    \A e \in Requests :
        outbox[e].status # "absent" <=> StoredItem(e).id = e

(* Until shortly before its lease ends, every event that a worker has      *)
(* claimed, or is still claiming item by item, is its own, however far the *)
(* index lags.                                                             *)
LeaseProtectsUpTo(early) ==
    \A w \in Workers :
        clock + early < worker[w].now + Lease =>
            \A k \in DOMAIN Held(w) : ClaimHeld(Held(w)[k].event, Held(w)[k].token)

(* A running lease is never taken over (on a clock of whole seconds).      *)
LeaseProtects == LeaseProtectsUpTo(0)

(* What is settled is settled: an event that is published or given up in   *)
(* the table is never claimed or changed again, although the index may     *)
(* offer it as pending for any length of time.                             *)
SettledStays ==
    [][\A e \in Requests :
          outbox[e].status \in {"published", "failed"} => outbox'[e] = outbox[e]]_vars

(* An event recorded as published did reach Kafka, and Kafka only holds    *)
(* events of stored transactions.                                          *)
PublishedWasDelivered ==
    \A e \in Requests :
        /\ outbox[e].status = "published" => e \in topic
        /\ e \in topic => outbox[e].status # "absent"

(* The refinement mapping: calls, claims, the index and time are hidden.   *)
Contract == INSTANCE OutboxContract WITH
    Events <- Requests,
    ledger <- [k \in Keys |-> transactions[k].id],
    status <- [e \in Requests |-> outbox[e].status]

(* The service on DynamoDB implements OutboxContract: whatever calls race, *)
(* fail or lose their answer, table and topic only change as it says.      *)
(* (It does not implement DeliveryContract: see FailuresCount.)            *)
ImplementsContract == Contract!Spec

(* Every failure that the store records counts: attempts go up by one, so  *)
(* that an event is terminal after MaxAttempts of them.                    *)
FailuresCount ==
    [][\A e \in Requests :
          (/\ outbox[e].claim_token # NoToken
           /\ outbox'[e].claim_token = NoToken
           /\ outbox'[e].status # "published")
          => outbox'[e].attempts = outbox[e].attempts + 1]_vars

(* Settled for good, or put off beyond the modelled time.                  *)
Handled(e) ==
    \/ outbox[e].status \in {"published", "failed"}
    \/ outbox[e].retry_at > MaxTime
    \/ /\ outbox[e].lease_until > MaxTime
       /\ \A w \in Workers : \A k \in DOMAIN Held(w) :
             Held(w)[k].token # outbox[e].claim_token

(* No event is forgotten: neither a leading page of items that are not     *)
(* due, nor a claim that failed half-way, nor a lagging index starves it.  *)
EventsAreHandled ==
    \A e \in Requests :
        (outbox[e].status = "pending") ~> Handled(e)

=============================================================================
