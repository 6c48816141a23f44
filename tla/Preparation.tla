----------------------------- MODULE Preparation -----------------------------
(***************************************************************************)
(* What starting processes prepare, each for itself and all at once: the   *)
(* PostgreSQL schema (newStore, Migrate), the local DynamoDB table         *)
(* (EnsureTable) and the Kafka topic (runTopicBootstrap, EnsureTopic).     *)
(* The table on AWS is not theirs: Terraform creates it.                   *)
(***************************************************************************)
EXTENDS Lifecycle

VARIABLES
    driver,   \* STORE_DRIVER of the deployment
    endpoint, \* whether DYNAMODB_ENDPOINT is set
    schema,   \* whether the schema is committed
    table,    \* state of the DynamoDB table
    topic     \* whether the topic exists

settings == <<driver, endpoint>>
preparedVars == <<schema, table, topic>>

PreparationType ==
    /\ driver \in {"memory", "postgres", "dynamodb"}
    /\ endpoint \in BOOLEAN
    /\ schema \in BOOLEAN
    /\ table \in {"absent", "creating", "active"}
    /\ topic \in BOOLEAN

PreparationInit ==
    /\ driver \in {"memory", "postgres", "dynamodb"}
    /\ endpoint \in BOOLEAN
    /\ endpoint => driver = "dynamodb"   \* the others ignore it
    /\ schema = FALSE
    /\ table = "absent"
    /\ topic = FALSE

(* newStore calls EnsureTable: a table on an endpoint of the deployment's  *)
(* own, DynamoDB Local.                                                    *)
EnsuresTable == driver = "dynamodb" /\ endpoint

(* newStore; memory stands for the drivers that prepare nothing.  Neither  *)
(* does DynamoDB on AWS: the process serves whatever the table's state.    *)
Open(p) ==
    /\ process[p].pc = "open"
    /\ Go(p, CASE driver = "postgres" -> "lock"
               [] EnsuresTable         -> "describe"
               [] OTHER                -> "serving")
    /\ UNCHANGED preparedVars

(* Calls of the store can succeed.                                         *)
TableUsable == driver = "dynamodb" => table = "active"

-----------------------------------------------------------------------------
(* Migrate.  The pc is the next statement of schema.sql that takes a lock; *)
(* ALTER TABLE locks its table exclusively although the columns exist.     *)

(* Mutant of TakeLock: every process migrates when it likes.               *)
TakeLockUnlocked(p) ==
    /\ process[p].pc = "lock"
    /\ Go(p, "create")
    /\ UNCHANGED preparedVars

(* pg_advisory_xact_lock.                                                  *)
TakeLock(p) ==
    /\ process[p].pc = "lock"
    /\ lock = NoProcess
    /\ lock' = p
    /\ process' = [process EXCEPT ![p].pc = "create"]
    /\ UNCHANGED <<mode, request, late, preparedVars>>

(* CREATE TABLE IF NOT EXISTS does not see what another transaction has    *)
(* created but not committed, and fails on the catalog's unique index.     *)
CatalogRace(p) ==
    /\ ~ schema
    /\ \E q \in Processes \ {p} : process[q].pc \in Migrating \ {"create"}

CreateTables(p) ==
    /\ process[p].pc = "create"
    /\ IF CatalogRace(p) THEN Exit(p, "failed") ELSE Go(p, "outbox")
    /\ UNCHANGED preparedVars

InserterOf(phases) == {q \in Processes : request[q] \in phases}

(* ALTER TABLE outbox_events.                                              *)
AlterOutbox(p) ==
    /\ process[p].pc = "outbox"
    /\ InserterOf({"both"}) = {}
    /\ Go(p, "transactions")
    /\ UNCHANGED preparedVars

(* ALTER TABLE transactions.                                               *)
AlterTransactions(p) ==
    /\ process[p].pc = "transactions"
    /\ InserterOf({"inserted", "both"}) = {}
    /\ Go(p, "commit")
    /\ UNCHANGED preparedVars

(* Mutant of CommitMigration: a lock of the session, which the pool keeps. *)
CommitMigrationKeepsLock(p) ==
    /\ process[p].pc = "commit"
    /\ schema' = TRUE
    /\ process' = [process EXCEPT ![p].pc = "serving"]
    /\ UNCHANGED <<mode, request, late, lock, table, topic>>

CommitMigration(p) ==
    /\ process[p].pc = "commit"
    /\ schema' = TRUE
    /\ lock' = NoProcess
    /\ process' = [process EXCEPT ![p].pc = "serving"]
    /\ UNCHANGED <<mode, request, late, table, topic>>

(* The schema is committed, but no answer comes.                           *)
CommitMigrationUnknown(p) ==
    /\ process[p].pc = "commit"
    /\ schema' = TRUE
    /\ Exit(p, "failed")
    /\ UNCHANGED <<table, topic>>

(* Accept on PostgreSQL as far as tables are concerned: first a lock on    *)
(* transactions, then one on outbox_events, both until it commits.  Who    *)
(* waits for an exclusive lock keeps later ones waiting.  Without a table  *)
(* there is no insertion: the request is refused with 503 (Refuse).        *)
InsertTransaction(p) ==
    /\ request[p] = "reading"
    /\ TableUsable
    /\ \A q \in Processes :
          /\ process[q].pc # "commit"
          /\ process[q].pc = "transactions" => InserterOf({"inserted", "both"}) = {}
    /\ Progress(p, "inserted")
    /\ UNCHANGED preparedVars

InsertOutbox(p) ==
    /\ request[p] = "inserted"
    /\ \A q \in Processes :
          /\ process[q].pc \notin {"transactions", "commit"}
          /\ process[q].pc = "outbox" => InserterOf({"both"}) = {}
    /\ Progress(p, "both")
    /\ UNCHANGED preparedVars

CommitRequest(p) ==
    /\ request[p] = "both"
    /\ Progress(p, "answering")
    /\ UNCHANGED preparedVars

(* The migration p and a request of q wait for each other's table; the     *)
(* deadlock detector ends one: the process fails, or the client gets 503.  *)
Deadlocked(p, q) == process[p].pc = "transactions" /\ request[q] = "inserted"

BreakDeadlock(p, q) ==
    /\ Deadlocked(p, q)
    /\ Exit(p, "failed") \/ Progress(q, "answering")
    /\ UNCHANGED preparedVars

-----------------------------------------------------------------------------
(* ensureTable.                                                            *)
DescribeTable(p) ==
    /\ process[p].pc = "describe"
    /\ Go(p, CASE table = "active"   -> "serving"
               [] table = "absent"   -> "table"
               [] table = "creating" -> "poll")
    /\ UNCHANGED preparedVars

(* Mutant of CreateTable: a created table passes for a usable one.         *)
CreateTableOnly(p) ==
    /\ process[p].pc = "table"
    /\ table' = IF table = "absent" THEN "creating" ELSE table
    /\ Go(p, "serving")
    /\ UNCHANGED <<schema, topic>>

(* ResourceInUseException means that another process was faster.           *)
CreateTable(p) ==
    /\ process[p].pc = "table"
    /\ table' = IF table = "absent" THEN "creating" ELSE table
    /\ Go(p, "poll")
    /\ UNCHANGED <<schema, topic>>

(* The table is being created, but no answer comes.                        *)
CreateTableUnknown(p) ==
    /\ process[p].pc = "table"
    /\ table' = IF table = "absent" THEN "creating" ELSE table
    /\ Exit(p, "failed")
    /\ UNCHANGED <<schema, topic>>

PollTable(p) ==
    /\ process[p].pc = "poll"
    /\ table = "active"
    /\ Go(p, "serving")
    /\ UNCHANGED preparedVars

ActivateTable ==
    /\ table = "creating"
    /\ table' = "active"
    /\ UNCHANGED <<lifecycleVars, schema, topic>>

(* Terraform creates the table on AWS, before or after processes start.    *)
ProvisionTable ==
    /\ driver = "dynamodb" /\ ~ endpoint
    /\ table = "absent"
    /\ table' = "creating"
    /\ UNCHANGED <<lifecycleVars, schema, topic>>

-----------------------------------------------------------------------------
(* runTopicBootstrap: the seed broker names the controller.                *)
Connect(p) ==
    /\ process[p].pc \in {"seed", "controller", "admin"}
    /\ Go(p, CASE process[p].pc = "seed"       -> "controller"
               [] process[p].pc = "controller" -> "admin"
               [] process[p].pc = "admin"      -> "topic")
    /\ UNCHANGED preparedVars

(* TopicAlreadyExists is as good as success.                               *)
EnsureTopic(p) ==
    /\ process[p].pc = "topic"
    /\ topic' = TRUE
    /\ Exit(p, "stopped")
    /\ UNCHANGED <<schema, table>>

(* The topic is created, but no answer comes.                              *)
EnsureTopicUnknown(p) ==
    /\ process[p].pc = "topic"
    /\ topic' = TRUE
    /\ Exit(p, "failed")
    /\ UNCHANGED <<schema, table>>

=============================================================================
