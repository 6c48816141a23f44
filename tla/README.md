# Transaction intake: TLA+ models, checks and proofs

This directory models the transaction-intake service: the HTTP intake, the
stores behind its port, the outbox dispatcher and the Kafka topic it fills, and
the start and the end of the processes that run them.

## Inventory

| Part | State it keeps | Operations | Hard because |
|---|---|---|---|
| HTTP adapter, domain rules | none beyond the request | refuse, decode, validate, fingerprint, reply | rules spread over three functions; the settings enter the fingerprint |
| `IntakeService` | none beyond the request | one `Accept` on the store, reply | clients retry; the answer can be lost after the commit |
| `Dispatcher`, `runWorkerLoop` | the batch in hand, one clock reading | claim, publish, mark or record a failure, in a loop | several workers, leases that lapse, crashes between any two calls |
| PostgreSQL store | `transactions`, `outbox_events`, open SQL transactions | `Accept` (serializable), `ClaimPending`, `MarkPublished`, `RecordFailure` | races of equal identities, 23505/40001, lost commits, `SKIP LOCKED` |
| DynamoDB store | one table and an index that copies it | the same port, in several calls with conditional writes | the index is stale, claims are taken item by item, timestamps are compared as strings |
| NDJSON store | two maps and an append-only log | the same port; replay on opening | failed or partial appends, restarts |
| Memory store | two maps | the same port | one mutex only; keys are concatenated strings |
| Kafka publisher | the topic (external) | `Publish` | an error does not mean that nothing was delivered |
| Runtime (`api`, `worker`, `local`) | processes | start, serve, drain, stop | shutdown races the requests in flight; an error of one part ends the process |
| Migration, DynamoDB table, topic bootstrap | schema, table, topic | prepare what is missing | several processes start at once, next to others that already serve |
| Configuration and secrets | none | overlay, parse, refuse | the service and the topic tool each parse the same variables |

API and worker processes interact only through the store. In `local` mode both
run in one process over a memory or NDJSON store with exactly one dispatcher.
A client sees the reply, a consumer sees the topic; both must agree with what
is stored.

What makes the parts correct:

* intake: a reply tells the truth about the stored row; one row and one event
  per identity, whatever the interleaving; a request is accepted exactly if it
  meets the published schema, and a retry is judged like the first attempt;
* dispatcher and outbox: a claim is exclusive while its lease runs, a slow
  worker cannot overwrite a newer one, every failure counts once, an event is
  given up exactly after the configured number of failures, none is forgotten;
* local stores: what was answered survives a restart, the log determines the
  state;
* runtime: nobody serves before what `newStore` has to prepare is there,
  concurrent starts do not disturb each other, requests are drained, the exit
  code tells why. Without `DYNAMODB_ENDPOINT`, the way to DynamoDB on AWS,
  `newStore` prepares and checks nothing (`runtime.go:220`).

`PROJECT.json` lists under `hazards` the lines where this could go wrong, and
the property that would show it.

## Modules

| Module | Models | Notes |
|---|---|---|
| `Ports` | the values crossing the ports of `app/` | one request names its transaction ID and its event ID, both drawn by it; a body is valid or not and has a canonical form |
| `Intake` | `handler.transactions` and `IntakeService.Accept` around the store call | all refusals before the store call are one reply, "invalid" |
| `Dispatcher` | `RunBatch`, `runWorkerLoop`, the topic, the clock | one step per store call and per publication; `now` is read once per batch |
| `PostgresStore` | `adapters/postgres/store.go` and `schema.sql` | one step per SQL statement |
| `PostgresService` | modes `api` and `worker` on PostgreSQL | any number of requests and workers |
| `LocalStore` | `adapters/memory` and `adapters/ndjson` | variable `driver` says which; one step per operation, as under the mutex |
| `LocalService` | mode `local` (`startLocal`) | the process ends as a whole and is started again |
| `Timestamps` | `timestamp` of the DynamoDB adapter and the string order | a clock of `Precision` decimals |
| `DynamoStore` | `adapters/dynamodb/store.go` | one step per call of the client |
| `DynamoService` | modes `api` and `worker` on DynamoDB | |
| `DeliveryContract` | nothing: the abstract specification of intake and outbox together | implemented by `PostgresService` and `LocalService` |
| `OutboxContract` | nothing: the same without a count of attempts | implemented by `DynamoService`; see the finding `dynamo_attempts` |
| `Backoff`, `IdentityKeys` | `retryDelay`; the concatenated keys | pure; `Backoff` is recursive, so that the proofs take any `RetryDelay` |
| `Configuration` | `LoadConfig`, the secret overlay, `kafkaSecurity`, `loadTopicSettings` | pure; `Refused` is an error |
| `Ingest` | the order of refusals in `handler.transactions`, `toDomain`, `Validate`, `Fingerprint` | pure; `MeetsContract` is `openapi.yaml` |
| `Lifecycle` | start, service and end of a process in each mode | one request in flight per process |
| `Preparation` | `newStore`, `Migrate`, `EnsureTable`, `EnsureTopic` | one step per statement that takes a lock, or per call; variable `endpoint` says whether `DYNAMODB_ENDPOINT` is set |
| `Deployment` | several processes at once | any mix of modes on one driver |
| `MCPostgres`, `MCLocal`, `MCDynamo` | | constants and later starting states for TLC |
| `MCAlgorithms` | | the pure modules on bounded inputs; a state is one case |
| `CoreProofs` | | lemmas about `Intake` and `Dispatcher` used with every store, and that a set of naturals has a least element |
| `PostgresProofs`, `DynamoProofs`, `LocalProofs`, `DeploymentProofs` | | the theorems |

`PostgresService` extends `Intake` and `PostgresStore`, which extends
`Dispatcher`; the other two services are built in the same way. Definitions
named "Mutant of ..." are deliberate slips next to the definition they distort;
no specification uses them.

### How state and actions correspond to the code

`request[r]` is one HTTP request; `BeginAccept` is everything up to the store
call, `FinishAccept` the switch over the outcome and the status code. What
`BeginAccept` takes for a valid body (`ValidBodies`) and for its canonical form
(`Canonical`) is worked out in `Ingest`: a body is valid if `Decision` is 200,
and two bodies have one canonical form if their `Fingerprint`s are equal.

**PostgreSQL.** `session[r].pc` in `PostgresStore` is the statement that
`Store.Accept` runs next. The unique index is the pair of `transactions` and
`writing`: an insert waits for an uncommitted insert of the same identity and
fails if that one commits. `AcceptTrouble` adds what the database may do to any
statement: 40001 where the code classifies it and where it does not, any other
error, and a commit that succeeds without the client learning it.
`classifyExisting` is a separate step, so that the row may appear or still be
missing by then.

**Workers.** `worker[w]` is one worker process with the locals of `RunBatch`.
On PostgreSQL `Claim` covers `ClaimPending`: the due rows, oldest first,
without those another statement may have locked (`SKIP LOCKED`; the model lets
any worker inside a statement hold the lock), in any order, since `RETURNING`
promises none. `Mark`, `Record` and `LeaseLost` are the outcome statements. Each
of them may also take effect and be lost on the way back, which stops the
worker.

**DynamoDB.** `Accept` is three calls: `ReadIdentity`, `TransactWriteItems` and,
after a cancelled write, `Reclassify`; `WriteCancelled` is a cancellation that
comes from another transaction rather than from an existing item, `WriteUnknown`
a write whose answer is lost. `index` is the copy that `outbox-dispatch` keeps,
and `Propagate` brings one item up to date, at any time. `claim[w]` holds the
locals of `ClaimPending`: the page, the cursor (`LastEvaluatedKey`), whether to
query again and what is claimed so far. `Query` reads the next items of the
index and filters afterwards, as DynamoDB does with `Limit`; `LeaseItem` and
`SkipItem` are the two answers to the conditional update, `LeaseForgotten` the
update that took effect although the client's own retry fails its condition.
The claim carries the attempts of the page (`decodePending` reads the queried
item), while the condition is evaluated on the table.

**Local mode.** The mutex makes each store operation one step. `Leftovers`
lists what a failing append leaves in the file, and `Stop` ends the process
with at most one append under way. `Stored` is what `NewStore` would build from
the log.

**Deployment.** `process[p].pc` is the next call of a starting process, then
"serving", "draining" (`serveHTTPServer` waits for `Shutdown`) and an exit code.
The migration holds the advisory lock from `TakeLock` to `CommitMigration` and
locks `outbox_events`, then `transactions`; `request[p]` goes through `Accept`
only as far as table locks are concerned, in the opposite order, and
`BreakDeadlock` is PostgreSQL's detector. `table` goes from absent over creating
to active by itself once somebody has created it. With an endpoint that is a
starting process (`EnsuresTable`); without one `Open` goes straight to
"serving", Terraform creates the table at any time (`ProvisionTable`), and until
it is active requests get 503 (`Refuse`) and a worker's batch fails
(`FailWithoutTable`). `CommitMigrationUnknown`, `CreateTableUnknown` and
`EnsureTopicUnknown` are calls that take effect without the process learning it,
which ends its start. An end by exit code 0 is "stopped", any other "failed".

## Runs

| Run | Instance | Shows |
|---|---|---|
| `postgres_safety` | 2 requests, 2 identities, 3 bodies (one invalid) up to renaming, 2 workers, batches of 2, lease 1, 2 attempts, time to 1, 1 fault | `TypeOK`, `RepliesAgree`, `OneEventPerIdentity`, `LeaseProtects`, `FailedAfterMaxAttempts`, `PublishedWasDelivered`, `TakeoverAfterLease`, `ImplementsContract` |
| `postgres_liveness` | 2 committed events, 1 worker, batches of 2, lease 1, time to 2, 2 faults, fairness | `EventsAreHandled` |
| `local_replies` | NDJSON, 3 requests for 1 identity, 4 bodies (two of equal canonical form, one invalid), 3 faults out of failing or unsynced appends and process ends | `TypeOK`, `RepliesSurvive` |
| `local_restart` | memory and NDJSON, 2 events in one batch, lease 1, time to 1, 2 faults | `LogIsState`, `SoleClaimant`, `ImplementsContract` |
| `dynamo_intake` | 3 requests, 2 identities, 4 bodies, no workers, 2 faults | `TypeOK`, `RepliesAgree`, `OneEventPerIdentity`, `ImplementsContract` |
| `dynamo_claims` | 1 submitted request, 2 workers, lease 2, 2 attempts, time to 3, 1 fault, lagging index | `LeaseProtects`, `PublishedWasDelivered`, `SettledStays`, `ImplementsContract` |
| `dynamo_liveness` | 2 accepted events behind 1 that waits for its retry, 1 worker, batches of 2, lease 1, 3 attempts, time 1 to 2, 1 fault, fairness | `EventsAreHandled` |
| `algorithms` | delays 0 to 12, 8 attempts; instants 0 to 120 of a hundredth of a second; sources and references of up to 2 characters; bodies that differ from an ordinary one in up to 2 fields; environments that differ from an empty one in up to 3 Kafka variables or 2 of any kind | `DelayIsCappedPower`, `OrderFailsWithinSecondOnly`, `KeysAreUnambiguous`, `AcceptsTheContract`, `StableUnderRedeploy`, `DefaultsAreAcceptable`, `ToolsAgree` |
| `deployment` | 2 processes in any 2 modes on each kind of driver, DynamoDB with and without an endpoint, 1 fault, fairness | `TypeOK`, `ServesPrepared`, `ExitCodeTellsWhy`, `StartsAreIndependent`, `DrainsFirst`, `StartsEnd`, `StopsAfterSignal` |
| `local_unsynced` | one unsynced append, then a retry | violates `NoSecondRecord` (finding) |
| `local_torn` | one append cut off | violates `RepliesSurvive` (finding) |
| `dynamo_attempts` | 1 event, 2 workers that may outlive their lease | violates `FailuresCount` (finding) |

Bounds. Two requests are enough for a winner and a loser that races it; three
add a later retry, or a second identity next to a race on the first. Two
workers are enough for a claim and its takeover; two events in one batch let the
second one's lease run out while the first is published. Two attempts reach the
retry and the terminal failure. The clock runs far enough for a lease to lapse
and the event to be claimed after it. Faults are counted together
(`MaxFaults`). Four or five tokens are more than can be known at the same time,
and a token is used again only when nobody knows it. Two processes are enough
for a race between two starts, and between a start and a process that serves.

Batches of two in `postgres_liveness` and `dynamo_liveness` let a worker end
between its two events, or between claiming the one and the other: what it
leaves behind must be taken up again. In `dynamo_liveness` the first event is not
due for the whole run; with another that is leased or waits for its retry it
fills the page, which must not hide the third.

Some runs begin later than `Init`, in a state that steps without a fault lead to:
`postgres_liveness` with the two events stored (`BacklogInit`),
`dynamo_liveness` with three stored, the first of which a worker has failed twice
to publish (`BacklogInit` of `MCDynamo`), `dynamo_claims` with its request submitted
(`SubmittedInit`). What concurrent requests do is the subject of
`postgres_safety` and `dynamo_intake`. `postgres_safety` leaves out initial
states whose contents no step can tell from another's, and invalid requests that
come without a valid one of the same identity (`ContentsInit`). The DynamoDB runs use
`Precision = 0`, a clock of whole seconds: what fractions change is the
subject of `OrderFailsWithinSecondOnly` and of `LeaseCorrectWithinSecond`.

Symmetry is used in runs without liveness only, on the sets whose members the
modules do not order: identities, workers and the requests on PostgreSQL. The
requests of the other stores have a place in string order.

`CHECK_DEADLOCK FALSE` stands where the system may stop: all requests answered
and no worker (`dynamo_intake`), the last case of a series (`algorithms`), and a
process that cannot open its log (`local_torn`).

### Fairness

* Services (`FairSpec`): each worker keeps taking steps, being restarted after
  it stops (the orchestrator of the worker deployment does that), and time
  passes; on DynamoDB the index follows every item at some time. Nothing is
  assumed of requests, of the success of a publication or of the order in which
  events are claimed. The liveness runs have one worker: with two, the model's
  `Locked` would allow each to skip the row for the other's sake for ever, which
  PostgreSQL does not do, since the statement that holds the lock claims the row.
  `Handled` counts a retry or a dead worker's lease beyond `MaxTime` as handled,
  because the modelled time ends there.
* Deployment: a program that runs goes on (weak fairness of `StartStep`,
  `StoreStep` and `StopStep`), the detector finds every deadlock and a table that
  is being created becomes active. Nobody need provision the table on AWS. `Lock` has strong fairness: PostgreSQL
  serves the waiters for a lock in turn, although requests may take it in
  between. Clients may stall for ever, and nobody need be started or stopped.

## Findings

* `local_unsynced`: when `Sync` fails after the record was written, the client
  gets 503, the maps do not have the transaction, the log does. The retry is
  accepted under a new ID and after a restart both events are published, while
  the API description says that a retry must never create a second record.
* `local_torn`: a partly written record is never truncated; the next append
  continues its line and `NewStore` refuses the file, so that acknowledged
  transactions do not survive the restart as the README says.
* `dynamo_attempts`: `decodePending` takes the attempts from the queried index
  item. A worker that claims from an old copy records a number of attempts that
  was recorded before, and the event is retried more often than
  configured. For this reason the service on DynamoDB implements
  `OutboxContract` and not `DeliveryContract`.

Met on the way, in line with the code's intent or too small for a run:

* `source + ":" + source_reference` (memory, NDJSON) and
  `"TX#" + source + "#" + source_reference` (DynamoDB) are ambiguous for sources
  that contain the separator, while `openapi.yaml:97` makes the pair the
  idempotency key; `KeysAreUnambiguous` says when nothing can happen.
* RFC3339Nano drops trailing zeros, so that on DynamoDB a lease can be taken
  over less than a second early (`dynamodb/store.go:287`).
* The default currency is part of the fingerprint. After a change of
  `DEFAULT_CURRENCY` the retry of a request without a currency is a conflict;
  `StableUnderRedeploy` shows that nothing else of a retry depends on it.
* `startLocal` returns on a signal without waiting for the HTTP shutdown; only
  mode `api` drains.
* A migration next to a process that serves can deadlock with `Accept`, which
  locks the two tables the other way round. PostgreSQL ends one of them; 40P01 is
  not classified, so that the client gets 503 or the start fails.
* The time 0001-01-01T00:00:00Z meets the schema and is refused, as Go's zero
  time stands for "not set".
* The service defaults `KAFKA_BROKERS`, the topic tool insists on it.
* A body whose limit is met behind the object is answered 400, not 413.
* Modes `api` and `worker` accept the memory driver, where nobody publishes what
  the API stores; `README.md:51` says so of `make run-api`.

## Proofs

All theorems hold for every set of requests, identities, bodies, workers,
tokens and processes, every batch size, lease, attempt limit, delay table, number
of faults and bound of time, from the assumptions named in `Ports`, `Dispatcher`,
the stores and `Lifecycle`. TLC evaluates each of these in a run.

| Module | Theorem | Statement |
|---|---|---|
| `PostgresProofs` | `TypeCorrect` | `Spec => []TypeOK` |
| | `RepliesCorrect` | `Spec => []RepliesAgree` |
| | `OutboxCorrect` | `Spec => []OneEventPerIdentity` |
| | `LeaseCorrect` | `Spec => []LeaseProtects` |
| | `AttemptsCorrect` | `Spec => []FailedAfterMaxAttempts` |
| | `DeliveryCorrect` | `Spec => []PublishedWasDelivered` |
| | `TakeoverCorrect` | `Spec => TakeoverAfterLease` |
| | `RefinesContract` | `Spec => ImplementsContract` |
| `DynamoProofs` | `RepliesCorrect` | `Spec => []RepliesAgree` |
| | `OutboxCorrect` | `Spec => []OneEventPerIdentity` |
| | `SettledCorrect` | `Spec => SettledStays` |
| | `DeliveryCorrect` | `Spec => []PublishedWasDelivered` |
| | `LeaseCorrectWithinSecond` | `Spec => []LeaseProtectsUpTo(Second - 1)` |
| | `LeaseCorrect` | `Precision = 0 => (Spec => []LeaseProtects)` |
| | `RefinesContract` | `Spec => ImplementsContract` |
| `LocalProofs` | `TypeCorrect` | `Spec => []TypeOK` |
| | `SoleClaimantCorrect` | `Spec => []SoleClaimant` |
| | `LogIsStateCorrect` | `Spec => []LogIsState` if a failing append leaves nothing behind |
| | `RepliesSurviveCorrect` | `Spec => []RepliesSurvive` if no append is cut off |
| | `RefinesContract` | `Spec => ImplementsContract` if a failing append leaves nothing behind |
| `DeploymentProofs` | `TypeCorrect` | `Spec => []TypeOK` |
| | `PreparedCorrect` | `Spec => []ServesPrepared` |
| | `ExitCodeCorrect` | `Spec => []ExitCodeTellsWhy` |
| | `IndependentCorrect` | `Spec => StartsAreIndependent` |
| | `DrainCorrect` | `Spec => DrainsFirst` |

**PostgreSQL.** The inductive invariant `IInv` has three parts. `TypeInv` adds to
the types that a publishing or settling worker has a non-empty batch.
`AcceptanceInv` says what an open session knows: who is between insert and
commit holds the index entry and no committed row exists, and an outcome waiting
to be sent already agrees with the committed row. Without the index entry the
commit of one request could overwrite another's row. `DeliveryInv` relates rows
and batches: a token known to a worker was given to that worker only, an event
whose row still bears the worker's token has the attempts the worker was told
and a lease from the worker's clock reading, an event waiting to be marked is in
the topic, and every event in a batch is committed. The refinement uses it to
see that a settled outcome adds exactly one to the attempts.

**DynamoDB.** `TypeInv` leaves the type of the cursor open, which is a
`CHOOSE`n greatest element and plays no part in safety. `AcceptanceInv` replaces the
index entry by the condition of the write: an outcome waiting to be sent agrees
with the stored item, and stored items and outbox items go together. `DeliveryInv`
says that held events are in the outbox and that what is about to be marked is
in the topic. The lease needs more: nobody holds two events with one token,
what a worker is still claiming counts as held, and as long as the lease runs,
the item's `lease_until` is the end of that lease (`LeasedToHolder`). Whoever
wants to take the item over compares that attribute with its own clock reading,
as strings. `OrderedWithinSecond` shows that a timestamp starts with the
whole seconds, hence the comparison errs by less than a second, which
`LeaseCorrectWithinSecond` carries over to the lease. `LeaseInv(early)` has this
error as its parameter; `LeaseCorrect` is the case without fractions. The
hypothesis `Second \in Nat \ {0}` of the former theorem is a fact about powers of
ten that the provers do not know.

**Local mode.** `Replay` folds the log, and what it yields is proved by
induction: `LeastElement`, applied to the set of line numbers where a claim
fails, leaves a line whose predecessor is fine. `ReplayAppend` says that one
more line is applied last, and `AcceptedEffect`, `FailedEffect` and
`PublishedEffect` what each line changes. The rest is one invariant per
question. `OnceInv`: every event that is stored or introduced by the log belongs
to a request that is through, so no line introduces an event twice. `HeldInv`
is `SoleClaimant` and that a batch has no event twice, as settling the first
would release the second; that leases run out does not matter, since nobody
else draws tokens. `LogStateInv` is `LogIsState`, which also needs to know that
nothing is held while the process is down (`DownInv`). `RowsInv` is stronger than
`RepliesSurvive`: the log is readable, every row in memory is the row of the
rebuilt maps, and what a client was told is in the rebuilt row. Its hypothesis
leaves unsynced appends in: they can add a row the maps lack, but never
replace one that was promised, because a request whose identity has a row in
memory is answered from it. `local_torn` and `local_unsynced` show why the
hypotheses cannot go. For the refinement, `StepKinds` reads every step as what it
does to the durable maps: an acceptance or an outcome is appended, whether the
process answers or ends on it, or nothing lasting happens. `OpenInv` (held events
are open, open events have an attempt left, what is about to be marked is in the
topic) then gives the contract's guards.

**Deployment.** `IInv` is `TypeOK /\ PhaseInv`. `TypeOK` includes that only the
holder of the advisory lock migrates; `PhaseInv` ties each phase to the modes and
drivers that reach it and to what is prepared by then; for a table that is only
if `EnsuresTable`, as without an endpoint nothing is. A lost answer prepares and
ends the start in one step (`UnknownInv`). That only one process
can be past `TakeLock` makes the race on PostgreSQL's catalog impossible, which
is what `IndependentCorrect` needs.

Only model-checked:

* liveness (`EventsAreHandled`, `StartsEnd`, `StopsAfterSignal`), as it rests on
  fairness and `ENABLED`;
* `Backoff`, which is recursive, and the other properties of `algorithms`, which
  speak of the bounded inputs;
* `TypeOK` of `DynamoService` as far as it speaks of the cursor.

## Assumptions and what is left out

* One clock for all processes. Leases compare readings of different machines
  in reality; skew is not modelled. The contracts do not depend on the clock.
* SHA-256 and the random IDs and tokens do not collide.
* `FOR UPDATE` on a row of `transactions`, which nothing updates, only delays
  another lookup and is left out.
* On AWS the code does not look at the table before it serves, so
  `ServesPrepared` says nothing of it: Terraform is expected to have made it.
* Kafka keeps what all replicas acknowledged. Order within the topic is not
  modelled; a set is enough for at-least-once delivery.
* A record that lacks only its newline decodes while it is the last one and
  not once another follows; the model has whole records and torn ones, which
  are the two outcomes, but not the change from one to the other.
* The 1 MiB line limit of the log scanner: records of 64 KiB requests stay
  below it.
* `DescribeTable` right after `CreateTable` may not find the table yet; the code
  gives up, and the model counts that among the faults of a start.

### Not modelled

* `bootstrap/server.go`, `bootstrap/id.go`: time-outs of `net/http` and a random
  generator, without state of the program's own.
* The encoding of events and the client library behind `Publish`: a mapping of
  fields, and code outside of the repository.
* `healthz`, `readyz` and metrics: reads without effect on what is stored.
* Variables without rules (addresses, paths, regions) in `Configuration`.
* Containers and scripts, and of Terraform everything but that it creates the
  DynamoDB table.

## Plan

What the development could still grow by: clock skew as a parameter of the two
services with several workers, bounding how much of a lease is left; a
fine-grained migration (each statement of `schema.sql` with its lock mode) if the
schema gets a second version.
