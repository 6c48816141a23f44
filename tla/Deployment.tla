----------------------------- MODULE Deployment -----------------------------
(***************************************************************************)
(* The processes of a deployment starting, serving and stopping together,  *)
(* in any mix of modes, as in a rolling update.                            *)
(***************************************************************************)
EXTENDS Preparation

CONSTANT MaxFaults   \* bound on refused calls, errors and kills

ASSUME DeploymentAssumption == MaxFaults \in Nat

VARIABLE faults

vars == <<lifecycleVars, settings, preparedVars, faults>>

(* Types, and: only a migrating process holds the advisory lock, only a    *)
(* running HTTP server has a request in flight.                            *)
TypeOK ==
    /\ LifecycleType
    /\ PreparationType
    /\ faults \in Nat
    /\ lock # NoProcess => process[lock].pc \in Migrating
    /\ \A p \in Processes :
          request[p] # "none" => ServesHTTP(p) /\ process[p].pc \in {"serving", "draining"}

Init ==
    /\ LifecycleInit
    /\ PreparationInit
    /\ faults = 0

Fault ==
    /\ faults < MaxFaults
    /\ faults' = faults + 1

-----------------------------------------------------------------------------
(* Steps of a starting process; its context has ended once it is told to   *)
(* stop, which fails the call it is in.                                    *)
StartStep(p) ==
    /\ \/ Open(p)
       \/ CreateTables(p) \/ CommitMigration(p)
       \/ DescribeTable(p) \/ CreateTable(p) \/ PollTable(p)
       \/ Connect(p) \/ EnsureTopic(p)
    /\ UNCHANGED <<settings, faults>>

(* Statements that wait for a lock.                                        *)
Lock(p) ==
    /\ TakeLock(p) \/ AlterOutbox(p) \/ AlterTransactions(p)
    /\ UNCHANGED <<settings, faults>>

AbortStart(p) ==
    /\ process[p].pc \in Starting \ {"open"}
    /\ process[p].signalled
    /\ Exit(p, "failed")
    /\ UNCHANGED <<settings, preparedVars, faults>>

StartError(p) ==
    /\ Fault
    /\ \/ process[p].pc \in Starting /\ Exit(p, "failed") /\ UNCHANGED preparedVars
       \/ CommitMigrationUnknown(p) \/ CreateTableUnknown(p) \/ EnsureTopicUnknown(p)
    /\ UNCHANGED settings

Resolve(p, q) ==
    /\ BreakDeadlock(p, q)
    /\ UNCHANGED <<settings, faults>>

StoreStep(p) ==
    /\ InsertTransaction(p) \/ InsertOutbox(p) \/ CommitRequest(p)
    /\ UNCHANGED <<settings, faults>>

ClientStep(p) ==
    /\ Receive(p) \/ Refuse(p) \/ Answer(p)
    /\ UNCHANGED <<settings, preparedVars, faults>>

StopStep(p) ==
    /\ BeginShutdown(p) \/ TenSeconds(p) \/ ShutdownComplete(p) \/ StopWorker(p)
    /\ UNCHANGED <<settings, preparedVars, faults>>

Operate(p) ==
    /\ Start(p) \/ Signal(p)
    /\ UNCHANGED <<settings, preparedVars, faults>>

Trouble(p) ==
    /\ Fault
    /\ WorkerError(p) \/ ServeError(p) \/ Kill(p)
    /\ UNCHANGED <<settings, preparedVars>>

(* Every batch fails on a table that is not there; no fault is needed.     *)
FailWithoutTable(p) ==
    /\ ~ TableUsable
    /\ WorkerError(p)
    /\ UNCHANGED <<settings, preparedVars, faults>>

Activate == ActivateTable /\ UNCHANGED <<settings, faults>>

Provision == ProvisionTable /\ UNCHANGED <<settings, faults>>

Next ==
    \/ \E p \in Processes :
          \/ StartStep(p) \/ Lock(p) \/ AbortStart(p) \/ StartError(p)
          \/ StoreStep(p) \/ ClientStep(p) \/ StopStep(p) \/ Operate(p) \/ Trouble(p)
          \/ FailWithoutTable(p)
          \/ \E q \in Processes : Resolve(p, q)
    \/ Activate \/ Provision

Spec == Init /\ [][Next]_vars

(* Programs run on, waits for locks are served in turn, the detector finds *)
(* every deadlock and the table becomes active.  Clients may stall for     *)
(* ever, and nobody need be started or told to stop.                       *)
Fairness ==
    /\ \A p \in Processes :
          /\ WF_vars(StartStep(p))
          /\ SF_vars(Lock(p))
          /\ WF_vars(StoreStep(p))
          /\ WF_vars(StopStep(p))
          /\ \A q \in Processes : WF_vars(Resolve(p, q))
    /\ WF_vars(Activate)

FairSpec == Spec /\ Fairness

-----------------------------------------------------------------------------
(* No process serves before what newStore has to prepare is there: the     *)
(* schema committed or, with DYNAMODB_ENDPOINT, the table active, whoever  *)
(* prepared it and whatever failed meanwhile; and topic-bootstrap succeeds *)
(* only with a topic.  Without an endpoint, which is DynamoDB on AWS, the  *)
(* code prepares and checks nothing, and processes serve without a table.  *)
ServesPrepared ==
    \A p \in Processes :
        /\ process[p].pc \in {"serving", "draining"} =>
              /\ driver = "postgres" => schema
              /\ EnsuresTable => table = "active"
        /\ mode[p] = "bootstrap" /\ process[p].pc = "stopped" => topic

(* Processes may start at the same time: a start fails because of a fault, *)
(* because the process was told to stop, or as the victim of a deadlock    *)
(* between its migration and a request, never because another process      *)
(* creates the same schema, table or topic (the advisory lock,             *)
(* ResourceInUseException, TopicAlreadyExists).                            *)
StartsAreIndependent ==
    [][\A p \in Processes :
          process[p].pc \in Starting /\ process'[p].pc = "failed" =>
              \/ faults' # faults
              \/ process[p].signalled
              \/ \E q \in Processes : Deadlocked(p, q)]_vars

(* In mode api a request that is being handled is not cut off by an orderly*)
(* end, unless it takes longer than ten seconds (serveHTTPServer).         *)
DrainsFirst ==
    [][\A p \in Processes :
          mode[p] = "api" /\ process'[p].pc = "stopped" /\ request[p] # "none" =>
              late[p]]_vars

(* Exit code 0 is for services that were told to stop: any other end must  *)
(* show, or nobody restarts the process.                                   *)
ExitCodeTellsWhy ==
    \A p \in Processes :
        mode[p] # "bootstrap" /\ process[p].pc = "stopped" => process[p].signalled

(* No start hangs: not on the advisory lock, not on a table lock that a    *)
(* request holds, not on a table that never becomes active.                *)
StartsEnd ==
    \A p \in Processes : process[p].pc \in Starting ~> process[p].pc \notin Starting

(* A process that is told to stop stops, even if its client is stuck in    *)
(* the middle of a request.                                                *)
StopsAfterSignal ==
    \A p \in Processes : process[p].signalled ~> ~ Running(p)

=============================================================================
