---------------------------- MODULE LocalService ----------------------------
(***************************************************************************)
(* Mode "local": one process serves the API and runs one dispatcher over a *)
(* shared memory or NDJSON store.  startLocal returns as soon as either    *)
(* goroutine ends or a signal arrives, without waiting for the other one,  *)
(* so that every end of the process cuts off whatever is in flight.        *)
(***************************************************************************)
EXTENDS Intake, Dispatcher, LocalStore

CONSTANT MaxFaults   \* bound on failing appends and process ends

ASSUME LocalServiceAssumption ==
    /\ \E w \in Workers : Workers = {w}
    /\ MaxFaults \in Nat

VARIABLES
    process,   \* "up" while the process runs
    faults     \* faults that have happened

intakeVars == <<request>>
dispatcherVars == <<worker, topic, clock>>
storeVars == <<memory, log>>
vars == <<intakeVars, dispatcherVars, driver, storeVars, process, faults>>

(* Type correctness of the composed local process.                         *)
TypeOK ==
    /\ request \in RequestType
    /\ DispatcherType
    /\ driver \in Drivers
    /\ memory \in Memories
    /\ log \in Seq(LogRecords)
    /\ process \in {"up", "down"}
    /\ faults \in Nat

Init ==
    /\ IntakeInit
    /\ DispatcherInit
    /\ driver \in Drivers
    /\ memory = Empty
    /\ log = <<>>
    /\ process = "up"
    /\ faults = 0

Fault ==
    /\ faults < MaxFaults
    /\ faults' = faults + 1

-----------------------------------------------------------------------------
(* Requests.  Store.Accept holds the mutex from lookup to return.          *)

Invalid(r) ==
    /\ process = "up"
    /\ RejectInvalid(r)
    /\ UNCHANGED <<dispatcherVars, storeVars, process, faults>>

Submit(r) ==
    /\ process = "up"
    /\ BeginAccept(r, clock)
    /\ UNCHANGED <<dispatcherVars, storeVars, process, faults>>

AcceptKnown(r) ==
    /\ request[r].pc = "accepting"
    /\ Known(Acceptance(r))
    /\ FinishAccept(r, KnownOutcome(Acceptance(r)))
    /\ UNCHANGED <<dispatcherVars, storeVars, process, faults>>

(* Mutant of AcceptNew: answered from the maps, never appended.            *)
AcceptNewUnlogged(r) ==
    /\ request[r].pc = "accepting"
    /\ ~ Known(Acceptance(r))
    /\ memory' = Apply(memory, AcceptedRecord(Acceptance(r)))
    /\ FinishAccept(r, StoreAccepted(r))
    /\ UNCHANGED <<dispatcherVars, log, process, faults>>

AcceptNew(r) ==
    /\ request[r].pc = "accepting"
    /\ ~ Known(Acceptance(r))
    /\ Write(AcceptedRecord(Acceptance(r)))
    /\ FinishAccept(r, StoreAccepted(r))
    /\ UNCHANGED <<dispatcherVars, process, faults>>

(* Mutant of AcceptFails: applied although the append failed.              *)
AcceptFailsApplied(r) ==
    /\ request[r].pc = "accepting"
    /\ ~ Known(Acceptance(r))
    /\ Durable
    /\ memory' = Apply(memory, AcceptedRecord(Acceptance(r)))
    /\ FinishAccept(r, StoreError)
    /\ Fault
    /\ UNCHANGED <<dispatcherVars, log, process>>

(* 503, and the process goes on.                                           *)
AcceptFails(r) ==
    /\ request[r].pc = "accepting"
    /\ ~ Known(Acceptance(r))
    /\ WriteFails(AcceptedRecord(Acceptance(r)))
    /\ FinishAccept(r, StoreError)
    /\ Fault
    /\ UNCHANGED <<dispatcherVars, process>>

-----------------------------------------------------------------------------
(* The dispatcher.                                                         *)

WorkerStep(w) ==
    /\ StartBatch(w) \/ PublishOk(w) \/ PublishError(w)
    /\ UNCHANGED <<intakeVars, storeVars, process, faults>>

(* rand.Text never returns a token that a claim of this process bears.     *)
UsedTokens == {memory.events[e].claimToken : e \in Requests} \cap Tokens

FreshToken == CHOOSE t \in Tokens : t \notin UsedTokens

Claim(w) ==
    /\ worker[w].pc = "claiming"
    /\ UsedTokens # Tokens
    /\ \E events \in Selected(worker[w].now, BatchSize) :
          /\ ClaimPending(worker[w].now, Lease, FreshToken, events)
          /\ Claimed(w, PendingOf(events, FreshToken))
    /\ UNCHANGED <<intakeVars, process, faults>>

(* The record by which the outcome of the publication is logged.           *)
OutcomeRecord(w) ==
    IF worker[w].pc = "mark" THEN PublishedRecord(Pending(w).event)
                             ELSE FailedRecord(Failure(w))

Settling(w) == worker[w].pc \in {"mark", "record"}

(* MarkPublished or RecordFailure.                                         *)
Settle(w) ==
    /\ Settling(w)
    /\ ClaimHeld(Pending(w).event, Pending(w).token)
    /\ Write(OutcomeRecord(w))
    /\ Advance(w)
    /\ UNCHANGED <<intakeVars, process, faults>>

-----------------------------------------------------------------------------
(* The process.                                                            *)

(* The goroutines and the maps are gone; requests in flight get no answer. *)
End ==
    /\ process = "up"
    /\ process' = "down"
    /\ memory' = Empty
    /\ worker' = [w \in Workers |-> Stopped]
    /\ request' = [r \in Requests |->
                     IF request[r].pc = "accepting"
                     THEN [request[r] EXCEPT !.pc = "lost"] ELSE request[r]]
    /\ UNCHANGED <<topic, clock>>

(* The append of an outcome fails: runWorkerLoop returns, the process ends.*)
SettleFails(w) ==
    /\ Settling(w)
    /\ ClaimHeld(Pending(w).event, Pending(w).token)
    /\ Durable
    /\ \E lines \in Leftovers(OutcomeRecord(w)) : log' = log \o lines
    /\ End
    /\ Fault

(* Appends that may be under way.                                          *)
Appending ==
    {AcceptedRecord(Acceptance(r)) :
        r \in {q \in Requests : /\ request[q].pc = "accepting"
                                /\ ~ Known(Acceptance(q))}}
    \cup {OutcomeRecord(w) : w \in {v \in Workers : Settling(v)}}

(* The process is killed or told to stop; at most one append, under the    *)
(* mutex, is cut off before its first byte, after its last or in between.  *)
(* With the memory store that is the end of the system.                    *)
Stop ==
    /\ Durable
    /\ End
    /\ \/ UNCHANGED log
       \/ \E record \in Appending : log' = Append(log, record)
       \/ /\ "torn" \in AppendFaults
          /\ Appending # {}
          /\ log' = Append(log, Torn)
    /\ Fault

(* Started again; the process does not come up when NewStore fails.        *)
Start ==
    /\ process = "down"
    /\ NewStore
    /\ process' = "up"
    /\ worker' = [w \in Workers |-> Idle]
    /\ UNCHANGED <<intakeVars, topic, clock, faults>>

PassTime ==
    /\ Tick
    /\ UNCHANGED <<intakeVars, storeVars, process, faults>>

-----------------------------------------------------------------------------
RequestNext(r) ==
    \/ Invalid(r)
    \/ Submit(r)
    \/ AcceptKnown(r)
    \/ AcceptNew(r)
    \/ AcceptFails(r)

WorkerNext(w) ==
    \/ WorkerStep(w)
    \/ Claim(w)
    \/ Settle(w)
    \/ SettleFails(w)

Next ==
    /\ \/ \E r \in Requests : RequestNext(r)
       \/ \E w \in Workers : WorkerNext(w)
       \/ Stop
       \/ Start
       \/ PassTime
    /\ UNCHANGED driver

Spec == Init /\ [][Next]_vars

-----------------------------------------------------------------------------
(* What a restart would find; nothing when the log cannot be read.         *)
Stored ==
    IF ~ Durable THEN memory
    ELSE IF Readable(log) THEN Replay(log)
    ELSE Empty

StoredRow(r) == Stored.transactions[Key[request[r].identity]]

(* An answer outlives the process: after any number of failed appends and  *)
(* restarts the store that NewStore would build still has the row that was *)
(* acknowledged (201, 200) or that contradicted the request (conflict).    *)
RepliesSurvive ==
    \A r \in Requests :
        LET row == StoredRow(r)
            own == Acceptance(r).fingerprint
        IN  /\ request[r].reply.code = "created" =>
                  row = [id |-> r, fingerprint |-> own]
            /\ request[r].reply.code = "replayed" =>
                  row = [id |-> request[r].reply.id, fingerprint |-> own]
            /\ request[r].reply.code = "conflict" =>
                  row # NoTransaction /\ row.fingerprint # own

(* The log is the state: as long as no failed append leaves its record     *)
(* behind, rebuilding the maps from the log gives the maps of the running  *)
(* process, but for the claims, which are not logged.                      *)
LogIsState ==
    process = "up" /\ Durable =>
        Replay(log) = [memory EXCEPT !.events = [e \in Requests |->
                         [@[e] EXCEPT !.leaseUntil = 0, !.claimToken = NoToken]]]

(* The only dispatcher never meets ErrLeaseLost or an unknown event, even  *)
(* when leases run out in the middle of its batch, so claim fencing never  *)
(* takes the API of the local process down.                                *)
SoleClaimant ==
    \A w \in Workers : \A k \in DOMAIN worker[w].batch :
        /\ ClaimHeld(worker[w].batch[k].event, worker[w].batch[k].token)
        /\ memory.events[worker[w].batch[k].event].attempts
              = worker[w].batch[k].attempts

Status(event) ==
    IF ~ event.known THEN "absent"
    ELSE IF event.published THEN "published"
    ELSE IF event.terminal THEN "failed"
    ELSE "pending"

(* The refinement mapping reads the contract off what is durable.          *)
StoredIds ==
    LET stored == Stored
    IN  [k \in Keys |-> stored.transactions[k].id]

StoredDeliveries ==
    LET stored == Stored
    IN  [e \in Requests |-> [status   |-> Status(stored.events[e]),
                            attempts |-> stored.events[e].attempts]]

Contract == INSTANCE DeliveryContract WITH
    Identities <- Keys,
    Events     <- Requests,
    ledger     <- StoredIds,
    delivery   <- StoredDeliveries

(* The local process implements DeliveryContract across restarts: the      *)
(* durable transactions and events only change as the contract says.       *)
ImplementsContract == Contract!Spec

(* The promise of the API description: a retry never creates a second      *)
(* record, so no two events for the same source and source_reference are   *)
(* ever stored.                                                            *)
NoSecondRecord ==
    \A d, e \in Requests :
        (/\ Stored.events[d].known
         /\ Stored.events[e].known
         /\ request[d].identity = request[e].identity) => d = e

=============================================================================
