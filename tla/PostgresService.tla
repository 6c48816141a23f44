--------------------------- MODULE PostgresService ---------------------------
(***************************************************************************)
(* The service on PostgreSQL: API processes handling Requests and Workers  *)
(* publishing the outbox share nothing but the database (modes "api" and   *)
(* "worker").  Every request and every worker interleaves with every other *)
(* and with the clock; processes die and statements fail at any point.     *)
(***************************************************************************)
EXTENDS Intake, Dispatcher, PostgresStore

CONSTANT MaxFaults   \* bound on crashes and refused, failed or lost statements

ASSUME FaultsAssumption == MaxFaults \in Nat

VARIABLE faults   \* faults that have happened

intakeVars == <<request>>
dispatcherVars == <<worker, topic, clock>>
vars == <<intakeVars, dispatcherVars, storeVars, faults>>

(* Type correctness of requests, workers, tables and sessions.             *)
TypeOK ==
    /\ request \in RequestType
    /\ DispatcherType
    /\ StoreType
    /\ faults \in Nat

Init ==
    /\ IntakeInit
    /\ DispatcherInit
    /\ StoreInit
    /\ faults = 0

Fault ==
    /\ faults < MaxFaults
    /\ faults' = faults + 1

-----------------------------------------------------------------------------
(* Requests.                                                               *)

Invalid(r) ==
    /\ RejectInvalid(r)
    /\ UNCHANGED <<dispatcherVars, storeVars, faults>>

Submit(r) ==
    /\ BeginAccept(r, clock)
    /\ BeginTx(Acceptance(r))
    /\ UNCHANGED <<dispatcherVars, faults>>

AcceptStep(r) ==
    /\ request[r].pc = "accepting"
    /\ LET a == Acceptance(r)
       IN  \/ Lookup(a)
           \/ CommitLookup(a)
           \/ InsertTransaction(a)
           \/ InsertOutbox(a)
           \/ Commit(a)
           \/ ClassifyExisting(a)
    /\ UNCHANGED <<intakeVars, dispatcherVars, faults>>

AcceptTrouble(r) ==
    /\ request[r].pc = "accepting"
    /\ LET a == Acceptance(r)
       IN  \/ CommitUnknown(a)
           \/ SerializationFailure(a)
           \/ StatementError(a)
    /\ Fault
    /\ UNCHANGED <<intakeVars, dispatcherVars>>

Respond(r) ==
    /\ session[r].pc = "returned"
    /\ FinishAccept(r, session[r].outcome)
    /\ Disconnect(Acceptance(r))
    /\ UNCHANGED <<dispatcherVars, faults>>

CrashRequest(r) ==
    /\ LoseRequest(r)
    /\ Disconnect(Acceptance(r))
    /\ Fault
    /\ UNCHANGED dispatcherVars

-----------------------------------------------------------------------------
(* Workers.                                                                *)

WorkerStep(w) ==
    /\ StartBatch(w) \/ PublishOk(w) \/ PublishError(w) \/ Restart(w)
    /\ UNCHANGED <<intakeVars, storeVars, faults>>

(* Rows that a statement of another worker may have locked right now.      *)
Locked(w) ==
    {e \in Requests :
        \E v \in Workers \ {w} :
            \/ worker[v].pc = "claiming"
            \/ worker[v].pc \in {"mark", "record"} /\ Pending(v).event = e}

(* rand.Text never returns a token that is still known to anybody.         *)
UsedTokens ==
    {t \in Tokens :
        \/ \E e \in Requests : outbox[e].claim_token = t
        \/ \E w \in Workers : \E k \in DOMAIN worker[w].batch :
              worker[w].batch[k].token = t}

FreshToken == CHOOSE t \in Tokens : t \notin UsedTokens

(* ClaimPending commits and returns its batch to the worker, or commits    *)
(* and the answer is lost.                                                 *)
Claim(w) ==
    /\ worker[w].pc = "claiming"
    /\ UsedTokens # Tokens
    /\ \E skipped \in SUBSET Locked(w) :
         \E events \in Candidates(worker[w].now, BatchSize, skipped) :
            /\ ClaimPending(worker[w].now, Lease, FreshToken, events)
            /\ \/ Claimed(w, PendingOf(events, FreshToken)) /\ UNCHANGED faults
               \/ Halt(w) /\ Fault
    /\ UNCHANGED intakeVars

(* A statement that took effect: the worker goes on, or never hears of it. *)
Confirmed(w) ==
    \/ Advance(w) /\ UNCHANGED faults
    \/ Halt(w) /\ Fault

Mark(w) ==
    /\ worker[w].pc = "mark"
    /\ MarkPublished(Pending(w))
    /\ Confirmed(w)
    /\ UNCHANGED intakeVars

Record(w) ==
    /\ worker[w].pc = "record"
    /\ RecordFailure(Failure(w))
    /\ Confirmed(w)
    /\ UNCHANGED intakeVars

(* No row updated: ErrLeaseLost stops the worker.                          *)
LeaseLost(w) ==
    /\ worker[w].pc \in {"mark", "record"}
    /\ ~ ClaimHeld(Pending(w).event, Pending(w).token)
    /\ Halt(w)
    /\ UNCHANGED <<intakeVars, storeVars, faults>>

(* The process dies, or a statement fails without effect.                  *)
CrashWorker(w) ==
    /\ worker[w].pc # "stopped"
    /\ Halt(w)
    /\ Fault
    /\ UNCHANGED <<intakeVars, storeVars>>

PassTime ==
    /\ Tick
    /\ UNCHANGED <<intakeVars, storeVars, faults>>

-----------------------------------------------------------------------------
RequestNext(r) ==
    \/ Invalid(r)
    \/ Submit(r)
    \/ AcceptStep(r)
    \/ AcceptTrouble(r)
    \/ Respond(r)
    \/ CrashRequest(r)

(* What a worker does on its own as long as its process runs.              *)
WorkerNext(w) ==
    \/ WorkerStep(w)
    \/ Claim(w)
    \/ Mark(w)
    \/ Record(w)
    \/ LeaseLost(w)

Next ==
    \/ \E r \in Requests : RequestNext(r)
    \/ \E w \in Workers : WorkerNext(w) \/ CrashWorker(w)
    \/ PassTime

Spec == Init /\ [][Next]_vars

(* Worker loops run and are restarted, and time passes.                    *)
Fairness ==
    /\ \A w \in Workers : WF_vars(WorkerNext(w))
    /\ WF_vars(PassTime)

FairSpec == Spec /\ Fairness

-----------------------------------------------------------------------------
(* The committed row of r's identity has this ID and the content of r.     *)
IsStored(r, id) ==
    transactions[request[r].identity] =
        [id |-> id, fingerprint |-> Acceptance(r).fingerprint]

(* Other content was committed under r's identity.                         *)
IsContradicted(r) ==
    LET row == transactions[request[r].identity]
    IN  row # NoRow /\ row.fingerprint # Acceptance(r).fingerprint

(* Every reply tells the truth about the committed row of its identity:    *)
(* 201 and 200 carry the ID of that row and were sent for the same         *)
(* content, 201 only to the request that wrote it, and a conflict means    *)
(* that other content was committed (IntakeService.Accept, Store.Accept).  *)
RepliesAgree ==
    \A r \in Requests :
        /\ request[r].reply.code = "created"  => IsStored(r, r)
        /\ request[r].reply.code = "replayed" => IsStored(r, request[r].reply.id)
        /\ request[r].reply.code = "conflict" => IsContradicted(r)

(* The transaction and its event are committed together, and a losing      *)
(* concurrent Accept leaves nothing behind: the events in the outbox are   *)
(* exactly the IDs of the committed transactions.                          *)
OneEventPerIdentity ==
    \A e \in Requests :
        outbox[e].status # "absent" <=>
            transactions[request[e].identity].id = e

(* While the lease that RunBatch asked for is running, every event left in *)
(* a worker's batch is still that worker's: no slower or faster worker can *)
(* claim it, settle it or count an attempt on it.                          *)
LeaseProtects ==
    \A w \in Workers :
        clock < worker[w].now + Lease =>
            \A k \in DOMAIN worker[w].batch :
                LET p == worker[w].batch[k]
                IN  /\ ClaimHeld(p.event, p.token)
                    /\ outbox[p.event].attempts = p.attempts

(* A claim is taken over only after its lease has run out, whatever old    *)
(* clock reading the claiming worker uses.                                 *)
TakeoverAfterLease ==
    [][\A e \in Requests :
          (/\ outbox[e].claim_token # NoToken
           /\ outbox'[e].claim_token \notin {NoToken, outbox[e].claim_token})
          => outbox[e].lease_until <= clock]_vars

(* The outbox gives an event up exactly when MaxAttempts failures have     *)
(* been counted, never earlier and never later, even when several workers  *)
(* held it in turn.                                                        *)
FailedAfterMaxAttempts ==
    \A e \in Requests :
        /\ outbox[e].status = "failed" <=> outbox[e].attempts = MaxAttempts
        /\ outbox[e].attempts <= MaxAttempts

(* An event recorded as published did reach Kafka, and Kafka only holds    *)
(* events of committed transactions.                                       *)
PublishedWasDelivered ==
    \A e \in Requests :
        /\ outbox[e].status = "published" => e \in topic
        /\ e \in topic => outbox[e].status # "absent"

(* The refinement mapping: claims, sessions and time are hidden.           *)
Contract == INSTANCE DeliveryContract WITH
    Events   <- Requests,
    ledger   <- [i \in Identities |-> transactions[i].id],
    delivery <- [e \in Requests |-> [status   |-> outbox[e].status,
                                     attempts |-> outbox[e].attempts]]

(* The service implements DeliveryContract: whatever requests, workers,    *)
(* crashes and the clock do, the two tables and the topic only change as   *)
(* the contract says.                                                      *)
ImplementsContract == Contract!Spec

(* Settled for good, or put off beyond the modelled time: a retry or the   *)
(* lease of a worker that died falls after MaxTime.                        *)
Handled(e) ==
    \/ outbox[e].status \in {"published", "failed"}
    \/ outbox[e].retry_at > MaxTime
    \/ /\ outbox[e].lease_until > MaxTime
       /\ \A w \in Workers : \A k \in DOMAIN worker[w].batch :
             worker[w].batch[k].token # outbox[e].claim_token

(* No event of an accepted transaction is forgotten: through lost leases,  *)
(* stopped workers and failed publications it is taken up again until it   *)
(* is settled (RunBatch in runWorkerLoop's loop).                          *)
EventsAreHandled ==
    \A e \in Requests :
        (outbox[e].status = "pending") ~> Handled(e)

=============================================================================
