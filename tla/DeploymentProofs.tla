-------------------------- MODULE DeploymentProofs --------------------------
(***************************************************************************)
(* Proofs about the deployment, for any number of processes in any modes   *)
(* and any number of faults.                                               *)
(***************************************************************************)
EXTENDS Deployment, TLAPS

USE LifecycleAssumption, DeploymentAssumption DEF settings, EnsuresTable

(* What the phase of a process says about its mode, its driver, the        *)
(* advisory lock and what is prepared.                                     *)
PhaseInv ==
    \A p \in Processes :
        LET pc == process[p].pc
        IN  /\ pc \in Migrating => lock = p
            /\ pc \in Migrating \cup {"lock"} => driver = "postgres"
            /\ pc \in {"describe", "table", "poll"} => EnsuresTable
            /\ pc \in {"seed", "controller", "admin", "topic"} => mode[p] = "bootstrap"
            /\ pc = "draining" => mode[p] = "api" /\ process[p].signalled
            /\ pc = "stopped" => IF mode[p] = "bootstrap" THEN topic
                                                          ELSE process[p].signalled
            /\ pc \in {"serving", "draining"} =>
                  /\ driver = "postgres" => schema
                  /\ EnsuresTable => table = "active"

IInv == TypeOK /\ PhaseInv

-----------------------------------------------------------------------------
(* What the building blocks of the actions do.                             *)

LEMMA GoEffect ==
    ASSUME LifecycleType, NEW p \in Processes, NEW pc \in Phases, Go(p, pc)
    PROVE  /\ LifecycleType'
           /\ process'[p].pc = pc /\ process'[p].signalled = process[p].signalled
           /\ \A q \in Processes \ {p} : process'[q] = process[q]
           /\ UNCHANGED <<mode, request, late, lock>>
  BY DEF LifecycleType, Go

LEMMA ExitEffect ==
    ASSUME LifecycleType, NEW p \in Processes, NEW pc \in {"stopped", "failed"},
           Exit(p, pc)
    PROVE  /\ LifecycleType'
           /\ process'[p].pc = pc /\ process'[p].signalled = process[p].signalled
           /\ request'[p] = "none"
           /\ \A q \in Processes \ {p} :
                 process'[q] = process[q] /\ request'[q] = request[q]
           /\ lock' = IF lock = p THEN NoProcess ELSE lock
           /\ mode' = mode
  BY DEF LifecycleType, Exit, Phases, Ended

LEMMA ProgressEffect ==
    ASSUME LifecycleType, NEW p \in Processes,
           NEW phase \in {"none", "reading", "inserted", "both", "answering"},
           Progress(p, phase)
    PROVE  /\ LifecycleType'
           /\ request'[p] = phase
           /\ \A q \in Processes \ {p} : request'[q] = request[q]
           /\ UNCHANGED <<mode, process, late, lock>>
  BY DEF LifecycleType, Progress

(* A process ends: it gives up the lock, and its exit code is right.       *)
LEMMA ExitStep ==
    ASSUME IInv, NEW p \in Processes, NEW code \in {"stopped", "failed"},
           Exit(p, code), UNCHANGED settings, PreparationType', faults' \in Nat,
           schema => schema', table = "active" => table' = "active", topic => topic',
           code = "stopped" => IF mode[p] = "bootstrap" THEN topic'
                                                        ELSE process[p].signalled
    PROVE  IInv'
  <1>1. LifecycleType
    BY DEF IInv, TypeOK
  <1>2. /\ LifecycleType'
        /\ process'[p].pc = code /\ process'[p].signalled = process[p].signalled
        /\ request'[p] = "none"
        /\ \A q \in Processes \ {p} :
              process'[q] = process[q] /\ request'[q] = request[q]
        /\ lock' = IF lock = p THEN NoProcess ELSE lock
        /\ mode' = mode
    BY <1>1, ExitEffect
  <1>3. TypeOK'
    BY <1>1, <1>2 DEF IInv, TypeOK, ServesHTTP, LifecycleType
  <1>4. PhaseInv'
    <2> SUFFICES ASSUME NEW q \in Processes
                 PROVE  PhaseInv!(q)'
      BY DEF PhaseInv
    <2>1. CASE q = p
      BY <1>2, <2>1 DEF Migrating
    <2>2. CASE q # p
      <3>1. process'[q] = process[q] /\ mode'[q] = mode[q] /\ UNCHANGED settings
        BY <1>2, <2>2
      <3>2. PhaseInv!(q)
        BY DEF IInv, PhaseInv
      <3>3. process[q].pc \in Migrating => lock' = q
        BY <1>2, <2>2, <3>2
      <3> QED
        BY <3>1, <3>2, <3>3
    <2> QED
      BY <2>1, <2>2
  <1> QED
    BY <1>3, <1>4 DEF IInv

(* A process goes on to a phase that suits it.                             *)
LEMMA GoStep ==
    ASSUME IInv, NEW p \in Processes, NEW pc \in Phases \ {"stopped"},
           Go(p, pc), UNCHANGED settings, PreparationType', faults' \in Nat,
           schema => schema', table = "active" => table' = "active", topic => topic',
           pc \in Migrating => lock = p, lock = p => pc \in Migrating,
           pc \in Migrating \cup {"lock"} => driver = "postgres",
           pc \in {"describe", "table", "poll"} => EnsuresTable,
           pc \in {"seed", "controller", "admin", "topic"} => mode[p] = "bootstrap",
           pc = "draining" => mode[p] = "api" /\ process[p].signalled,
           request[p] # "none" => pc \in {"serving", "draining"},
           pc \in {"serving", "draining"} =>
              /\ driver = "postgres" => schema'
              /\ EnsuresTable => table' = "active"
    PROVE  IInv'
  <1>1. LifecycleType
    BY DEF IInv, TypeOK
  <1>2. /\ LifecycleType'
        /\ process'[p].pc = pc /\ process'[p].signalled = process[p].signalled
        /\ \A q \in Processes \ {p} : process'[q] = process[q]
        /\ UNCHANGED <<mode, request, late, lock>>
    BY <1>1, GoEffect
  <1>3. TypeOK'
    <2>1. lock' # NoProcess => process'[lock'].pc \in Migrating
      <3>1. CASE lock = p
        BY <1>2, <3>1
      <3>2. CASE lock # p
        BY <1>1, <1>2, <3>2 DEF IInv, TypeOK, LifecycleType
      <3> QED
        BY <3>1, <3>2
    <2>2. ASSUME NEW q \in Processes, request'[q] # "none"
          PROVE  ServesHTTP(q)' /\ process'[q].pc \in {"serving", "draining"}
      <3>1. CASE q = p
        BY <1>2, <2>2, <3>1 DEF IInv, TypeOK, ServesHTTP
      <3>2. CASE q # p
        BY <1>2, <2>2, <3>2 DEF IInv, TypeOK, ServesHTTP
      <3> QED
        BY <3>1, <3>2
    <2> QED
      BY <1>2, <2>1, <2>2 DEF TypeOK
  <1>4. PhaseInv'
    <2> SUFFICES ASSUME NEW q \in Processes
                 PROVE  PhaseInv!(q)'
      BY DEF PhaseInv
    <2>1. CASE q = p
      BY <1>2, <2>1
    <2>2. CASE q # p
      <3>1. process'[q] = process[q] /\ mode'[q] = mode[q] /\ lock' = lock
        BY <1>2, <2>2
      <3>2. PhaseInv!(q)
        BY DEF IInv, PhaseInv
      <3> QED
        BY <3>1, <3>2
    <2> QED
      BY <2>1, <2>2
  <1> QED
    BY <1>3, <1>4 DEF IInv

(* A request goes on; nothing else changes.                                *)
LEMMA ProgressStep ==
    ASSUME IInv, NEW p \in Processes,
           NEW phase \in {"none", "reading", "inserted", "both", "answering"},
           Progress(p, phase), UNCHANGED <<settings, preparedVars, faults>>,
           ServesHTTP(p), process[p].pc \in {"serving", "draining"}
    PROVE  IInv'
  <1>1. LifecycleType
    BY DEF IInv, TypeOK
  <1>2. /\ LifecycleType'
        /\ request'[p] = phase
        /\ \A q \in Processes \ {p} : request'[q] = request[q]
        /\ UNCHANGED <<mode, process, late, lock>>
    BY <1>1, ProgressEffect
  <1>3. TypeOK'
    <2>1. PreparationType' /\ faults' \in Nat
      BY DEF IInv, TypeOK, PreparationType, preparedVars
    <2>2. lock' # NoProcess => process'[lock'].pc \in Migrating
      BY <1>2 DEF IInv, TypeOK
    <2>3. ASSUME NEW q \in Processes, request'[q] # "none"
          PROVE  ServesHTTP(q)' /\ process'[q].pc \in {"serving", "draining"}
      BY <1>2, <2>3 DEF IInv, TypeOK, ServesHTTP
    <2> QED
      BY <1>2, <2>1, <2>2, <2>3 DEF TypeOK
  <1>4. PhaseInv'
    BY <1>2 DEF IInv, PhaseInv, preparedVars
  <1> QED
    BY <1>3, <1>4 DEF IInv

(* A start under way holds no request; unless it migrates, no lock either.  *)
LEMMA StartingHolds ==
    ASSUME IInv, NEW p \in Processes, process[p].pc \in Starting
    PROVE  /\ request[p] = "none"
           /\ lock = p <=> process[p].pc \in Migrating
  <1>1. lock = p => process[p].pc \in Migrating
    BY LifecycleAssumption DEF IInv, TypeOK
  <1>2. process[p].pc \in Migrating => lock = p
    BY DEF IInv, PhaseInv
  <1>3. request[p] = "none"
    BY DEF IInv, TypeOK, Starting, Migrating
  <1> QED
    BY <1>1, <1>2, <1>3

LEMMA InitInv == Init => IInv
  <1> SUFFICES ASSUME Init
               PROVE  IInv
    OBVIOUS
  <1>1. LifecycleType
    BY DEF Init, LifecycleInit, LifecycleType, Phases, Ended
  <1>2. PreparationType
    BY DEF Init, PreparationInit, PreparationType
  <1>3. TypeOK
    BY <1>1, <1>2 DEF Init, LifecycleInit, TypeOK
  <1>4. PhaseInv
    BY DEF Init, LifecycleInit, PhaseInv, Migrating
  <1> QED
    BY <1>3, <1>4 DEF IInv

-----------------------------------------------------------------------------
(* The steps of a starting process.                                        *)

LEMMA OpenInv ==
    ASSUME IInv, NEW p \in Processes, Open(p), UNCHANGED <<settings, faults>>
    PROVE  IInv'
  <1>1. PreparationType' /\ faults' \in Nat
    BY DEF IInv, TypeOK, PreparationType, Open, preparedVars
  <1>2. request[p] = "none" /\ lock # p
    BY StartingHolds DEF Open, Starting, Migrating
  <1>3. CASE driver = "postgres"
    <2>1. Go(p, "lock")
      BY <1>3 DEF Open
    <2> QED
      BY <1>1, <1>2, <1>3, <2>1, GoStep
         DEF Open, preparedVars, Phases, Starting, Migrating
  <1>4. CASE EnsuresTable
    <2>1. Go(p, "describe")
      BY <1>4 DEF Open
    <2> QED
      BY <1>1, <1>2, <1>4, <2>1, GoStep
         DEF Open, preparedVars, Phases, Starting, Migrating
  <1>5. CASE driver # "postgres" /\ ~ EnsuresTable
    <2>1. Go(p, "serving")
      BY <1>5 DEF Open
    <2> QED
      BY <1>1, <1>2, <1>5, <2>1, GoStep DEF Open, preparedVars, Phases, Migrating
  <1> QED
    BY <1>3, <1>4, <1>5

(* A failed statement of the migration ends the process.                   *)
LEMMA CreateTablesInv ==
    ASSUME IInv, NEW p \in Processes, CreateTables(p), UNCHANGED <<settings, faults>>
    PROVE  IInv'
  <1>1. PreparationType' /\ faults' \in Nat
    BY DEF IInv, TypeOK, PreparationType, CreateTables, preparedVars
  <1>2. request[p] = "none" /\ lock = p /\ driver = "postgres"
    BY StartingHolds DEF CreateTables, Starting, Migrating, IInv, PhaseInv
  <1>3. CASE CatalogRace(p)
    <2>1. Exit(p, "failed")
      BY <1>3 DEF CreateTables
    <2> QED
      BY <1>1, <2>1, ExitStep DEF CreateTables, preparedVars
  <1>4. CASE ~ CatalogRace(p)
    <2>1. Go(p, "outbox")
      BY <1>4 DEF CreateTables
    <2> QED
      BY <1>1, <1>2, <2>1, GoStep
         DEF CreateTables, preparedVars, Phases, Starting, Migrating
  <1> QED
    BY <1>3, <1>4

(* The migration's transaction ends: the schema is there and the lock free.*)
LEMMA CommitMigrationInv ==
    ASSUME IInv, NEW p \in Processes, CommitMigration(p), UNCHANGED <<settings, faults>>
    PROVE  IInv'
  <1>1. LifecycleType /\ PreparationType
    BY DEF IInv, TypeOK
  <1>2. request[p] = "none" /\ lock = p
    BY StartingHolds DEF CommitMigration, Starting, Migrating
  <1>3. /\ process'[p].pc = "serving" /\ process'[p].signalled = process[p].signalled
        /\ \A q \in Processes \ {p} : process'[q] = process[q]
    BY <1>1 DEF LifecycleType, CommitMigration
  <1>4. LifecycleType'
    BY <1>1 DEF LifecycleType, CommitMigration, Phases
  <1>5. PreparationType' /\ faults' \in Nat
    BY <1>1 DEF IInv, TypeOK, PreparationType, CommitMigration
  <1>6. TypeOK'
    <2>1. lock' = NoProcess
      BY DEF CommitMigration
    <2>2. ASSUME NEW q \in Processes, request'[q] # "none"
          PROVE  ServesHTTP(q)' /\ process'[q].pc \in {"serving", "draining"}
      BY <1>2, <1>3, <2>2 DEF CommitMigration, IInv, TypeOK, ServesHTTP
    <2> QED
      BY <1>4, <1>5, <2>1, <2>2 DEF TypeOK
  <1>7. PhaseInv'
    <2> SUFFICES ASSUME NEW q \in Processes
                 PROVE  PhaseInv!(q)'
      BY DEF PhaseInv
    <2>1. CASE q = p
      <3>1. driver = "postgres"
        BY DEF IInv, PhaseInv, CommitMigration, Migrating
      <3> QED
        BY <1>3, <2>1, <3>1 DEF CommitMigration, Migrating
    <2>2. CASE q # p
      <3>1. process'[q] = process[q] /\ PhaseInv!(q)
        BY <1>3, <2>2 DEF IInv, PhaseInv
      <3>2. process[q].pc \notin Migrating
        BY <1>2, <2>2, <3>1
      <3> QED
        BY <3>1, <3>2 DEF CommitMigration
    <2> QED
      BY <2>1, <2>2
  <1> QED
    BY <1>6, <1>7 DEF IInv

(* EnsureTable: the table is in use only after it was seen active.         *)
LEMMA TableInv ==
    ASSUME IInv, NEW p \in Processes,
           DescribeTable(p) \/ CreateTable(p) \/ PollTable(p),
           UNCHANGED <<settings, faults>>
    PROVE  IInv'
  <1>1. PreparationType /\ faults' \in Nat
    BY DEF IInv, TypeOK
  <1>2. process[p].pc \in {"describe", "table", "poll"}
    BY DEF DescribeTable, CreateTable, PollTable
  <1>3. request[p] = "none" /\ lock # p /\ EnsuresTable
    BY <1>2, StartingHolds DEF Starting, Migrating, IInv, PhaseInv
  <1>4. CASE DescribeTable(p)
    <2>1. PreparationType' /\ UNCHANGED preparedVars
      BY <1>1, <1>4 DEF PreparationType, DescribeTable, preparedVars
    <2>2. CASE table = "active"
      <3>1. Go(p, "serving")
        BY <1>4, <2>2 DEF DescribeTable
      <3> QED
        BY <1>1, <1>3, <2>1, <2>2, <3>1, GoStep DEF preparedVars, Phases, Migrating
    <2>3. CASE table = "absent"
      <3>1. Go(p, "table")
        BY <1>4, <2>3 DEF DescribeTable
      <3> QED
        BY <1>1, <1>3, <2>1, <3>1, GoStep
           DEF preparedVars, Phases, Starting, Migrating
    <2>4. CASE table = "creating"
      <3>1. Go(p, "poll")
        BY <1>4, <2>4 DEF DescribeTable
      <3> QED
        BY <1>1, <1>3, <2>1, <3>1, GoStep
           DEF preparedVars, Phases, Starting, Migrating
    <2> QED
      BY <1>1, <2>2, <2>3, <2>4 DEF PreparationType
  <1>5. CASE CreateTable(p)
    <2>1. PreparationType' /\ Go(p, "poll") /\ UNCHANGED <<schema, topic>>
      BY <1>1, <1>5 DEF PreparationType, CreateTable
    <2>2. table = "active" => table' = "active"
      BY <1>5 DEF CreateTable
    <2> QED
      BY <1>1, <1>3, <2>1, <2>2, GoStep DEF Phases, Starting, Migrating
  <1>6. CASE PollTable(p)
    <2>1. PreparationType' /\ Go(p, "serving") /\ UNCHANGED preparedVars /\ table = "active"
      BY <1>1, <1>6 DEF PreparationType, PollTable, preparedVars
    <2> QED
      BY <1>1, <1>3, <2>1, GoStep DEF preparedVars, Phases, Migrating
  <1> QED
    BY <1>4, <1>5, <1>6

(* topic-bootstrap; its success tells of a topic.                          *)
LEMMA BootstrapInv ==
    ASSUME IInv, NEW p \in Processes,
           \/ Connect(p) /\ UNCHANGED faults
           \/ EnsureTopic(p) /\ UNCHANGED faults,
           UNCHANGED settings
    PROVE  IInv'
  <1>1. PreparationType /\ faults' \in Nat
    BY DEF IInv, TypeOK
  <1>2. process[p].pc \in {"seed", "controller", "admin", "topic"}
    BY DEF Connect, EnsureTopic
  <1>3. request[p] = "none" /\ lock # p /\ mode[p] = "bootstrap"
    BY <1>2, StartingHolds DEF Starting, Migrating, IInv, PhaseInv
  <1>4. CASE Connect(p)
    <2>1. PreparationType' /\ UNCHANGED preparedVars
      BY <1>1, <1>4 DEF PreparationType, Connect, preparedVars
    <2>2. \E pc \in {"controller", "admin", "topic"} : Go(p, pc)
      BY <1>4 DEF Connect
    <2>3. PICK pc \in {"controller", "admin", "topic"} : Go(p, pc)
      BY <2>2
    <2> QED
      BY <1>1, <1>3, <2>1, <2>3, GoStep DEF preparedVars, Phases, Starting, Migrating
  <1>5. CASE EnsureTopic(p)
    <2>1. PreparationType' /\ topic' = TRUE /\ UNCHANGED <<schema, table>>
      BY <1>1, <1>5 DEF PreparationType, EnsureTopic
    <2>2. Exit(p, "stopped")
      BY <1>5 DEF EnsureTopic
    <2> QED
      BY <1>1, <1>3, <2>1, <2>2, ExitStep
  <1> QED
    BY <1>4, <1>5

(* A preparation that took effect without an answer ends the process.      *)
LEMMA UnknownInv ==
    ASSUME IInv, NEW p \in Processes,
           \/ CommitMigrationUnknown(p)
           \/ CreateTableUnknown(p)
           \/ EnsureTopicUnknown(p),
           faults' \in Nat, UNCHANGED settings
    PROVE  IInv'
  <1>1. PreparationType
    BY DEF IInv, TypeOK
  <1>2. Exit(p, "failed")
    BY DEF CommitMigrationUnknown, CreateTableUnknown, EnsureTopicUnknown
  <1>3. PreparationType'
    BY <1>1 DEF PreparationType, CommitMigrationUnknown, CreateTableUnknown,
                EnsureTopicUnknown
  <1>4. /\ schema => schema'
        /\ table = "active" => table' = "active"
        /\ topic => topic'
    BY DEF CommitMigrationUnknown, CreateTableUnknown, EnsureTopicUnknown
  <1> QED
    BY <1>2, <1>3, <1>4, ExitStep

(* The advisory lock changes hands only when nobody has it.                *)
LEMMA TakeLockInv ==
    ASSUME IInv, NEW p \in Processes, TakeLock(p), UNCHANGED <<settings, faults>>
    PROVE  IInv'
  <1>1. LifecycleType /\ PreparationType
    BY DEF IInv, TypeOK
  <1>2. request[p] = "none" /\ lock = NoProcess /\ lock' = p /\ driver = "postgres"
    BY StartingHolds DEF TakeLock, Starting, Migrating, IInv, PhaseInv
  <1>3. /\ process'[p].pc = "create" /\ process'[p].signalled = process[p].signalled
        /\ \A q \in Processes \ {p} : process'[q] = process[q]
    BY <1>1 DEF LifecycleType, TakeLock
  <1>4. LifecycleType'
    BY <1>1 DEF LifecycleType, TakeLock, Phases, Starting, Migrating
  <1>5. PreparationType' /\ faults' \in Nat
    BY <1>1 DEF IInv, TypeOK, PreparationType, TakeLock, preparedVars
  <1>6. TypeOK'
    <2>1. process'[lock'].pc \in Migrating
      BY <1>2, <1>3 DEF Migrating
    <2>2. ASSUME NEW q \in Processes, request'[q] # "none"
          PROVE  ServesHTTP(q)' /\ process'[q].pc \in {"serving", "draining"}
      BY <1>2, <1>3, <2>2 DEF TakeLock, IInv, TypeOK, ServesHTTP
    <2> QED
      BY <1>4, <1>5, <2>1, <2>2 DEF TypeOK
  <1>7. PhaseInv'
    <2> SUFFICES ASSUME NEW q \in Processes
                 PROVE  PhaseInv!(q)'
      BY DEF PhaseInv
    <2>1. CASE q = p
      BY <1>2, <1>3, <2>1 DEF Migrating
    <2>2. CASE q # p
      <3>1. process'[q] = process[q] /\ PhaseInv!(q)
        BY <1>3, <2>2 DEF IInv, PhaseInv
      <3>2. process[q].pc \notin Migrating
        BY <1>2, <3>1, LifecycleAssumption
      <3> QED
        BY <3>1, <3>2 DEF TakeLock, preparedVars
    <2> QED
      BY <2>1, <2>2
  <1> QED
    BY <1>6, <1>7 DEF IInv

LEMMA AlterInv ==
    ASSUME IInv, NEW p \in Processes, AlterOutbox(p) \/ AlterTransactions(p),
           UNCHANGED <<settings, faults>>
    PROVE  IInv'
  <1>1. PreparationType' /\ faults' \in Nat /\ UNCHANGED preparedVars
    BY DEF IInv, TypeOK, PreparationType, AlterOutbox, AlterTransactions, preparedVars
  <1>2. process[p].pc \in Migrating
    BY DEF AlterOutbox, AlterTransactions, Migrating
  <1>3. request[p] = "none" /\ lock = p /\ driver = "postgres"
    BY <1>2, StartingHolds DEF Starting, IInv, PhaseInv
  <1>4. PICK pc \in {"transactions", "commit"} : Go(p, pc)
    BY DEF AlterOutbox, AlterTransactions
  <1> QED
    BY <1>1, <1>3, <1>4, GoStep DEF preparedVars, Phases, Starting, Migrating

-----------------------------------------------------------------------------
(* The steps of requests, of the end of a process, and of its surroundings.*)

(* Who is inside Accept serves HTTP.                                       *)
LEMMA RequestInv ==
    ASSUME IInv, NEW p \in Processes, NEW q \in Processes,
           \/ InsertTransaction(p) \/ InsertOutbox(p) \/ CommitRequest(p)
           \/ Receive(p) \/ Refuse(p) \/ Answer(p)
           \/ request[p] = "inserted" /\ Progress(p, "answering"),
           UNCHANGED <<settings, preparedVars, faults>>
    PROVE  IInv'
  <1>1. PICK phase \in {"none", "reading", "inserted", "both", "answering"} :
           Progress(p, phase)
    BY DEF InsertTransaction, InsertOutbox, CommitRequest, Receive, Refuse, Answer
  <1>2. ServesHTTP(p) /\ process[p].pc \in {"serving", "draining"}
    BY DEF IInv, TypeOK, InsertTransaction, InsertOutbox, CommitRequest, Receive,
           Refuse, Answer
  <1> QED
    BY <1>1, <1>2, ProgressStep

(* An end with exit code 0 needs a signal.                                 *)
LEMMA EndInv ==
    ASSUME IInv, NEW p \in Processes,
           \/ ShutdownComplete(p) \/ StopWorker(p)
           \/ WorkerError(p) \/ ServeError(p) \/ Kill(p)
           \/ Exit(p, "failed"),
           faults' \in Nat, UNCHANGED <<settings, preparedVars>>
    PROVE  IInv'
  <1>1. PreparationType' /\ UNCHANGED <<schema, table, topic>>
    BY DEF IInv, TypeOK, PreparationType, preparedVars
  <1>2. ASSUME Exit(p, "failed")
        PROVE  IInv'
    BY <1>1, <1>2, ExitStep
  <1>3. ASSUME Exit(p, "stopped"), mode[p] # "bootstrap", process[p].signalled
        PROVE  IInv'
    BY <1>1, <1>3, ExitStep
  <1>4. CASE ShutdownComplete(p)
    <2>1. mode[p] # "bootstrap" /\ process[p].signalled
      BY <1>4 DEF ShutdownComplete, IInv, PhaseInv
    <2> QED
      BY <1>3, <1>4, <2>1 DEF ShutdownComplete
  <1>5. CASE StopWorker(p)
    <2>1. mode[p] # "bootstrap" /\ process[p].signalled /\ Exit(p, "stopped")
      BY <1>5 DEF StopWorker
    <2> QED
      BY <1>3, <2>1
  <1>6. CASE WorkerError(p)
    <2>1. mode[p] # "bootstrap"
      BY <1>6 DEF WorkerError
    <2>2. \/ process[p].signalled /\ Exit(p, "stopped")
          \/ Exit(p, "failed")
      BY <1>6 DEF WorkerError
    <2> QED
      BY <1>2, <1>3, <2>1, <2>2
  <1>7. CASE ServeError(p) \/ Kill(p) \/ Exit(p, "failed")
    BY <1>2, <1>7 DEF ServeError, Kill
  <1> QED
    BY <1>4, <1>5, <1>6, <1>7

LEMMA DrainInv ==
    ASSUME IInv, NEW p \in Processes, BeginShutdown(p) \/ TenSeconds(p),
           UNCHANGED <<settings, preparedVars, faults>>
    PROVE  IInv'
  <1>1. PreparationType' /\ faults' \in Nat /\ UNCHANGED <<schema, table, topic>>
    BY DEF IInv, TypeOK, PreparationType, preparedVars
  <1>2. CASE BeginShutdown(p)
    <2>1. Go(p, "draining") /\ mode[p] = "api" /\ process[p].signalled
      BY <1>2 DEF BeginShutdown
    <2>2. lock # p /\ process[p].pc = "serving"
      BY <1>2 DEF BeginShutdown, IInv, TypeOK, Migrating
    <2>3. /\ driver = "postgres" => schema
          /\ EnsuresTable => table = "active"
      BY <2>2 DEF IInv, PhaseInv
    <2> QED
      BY <1>1, <2>1, <2>2, <2>3, GoStep DEF Phases, Starting, Migrating
  <1>3. CASE TenSeconds(p)
    <2>1. UNCHANGED <<mode, process, request, lock>>
      BY <1>3 DEF TenSeconds
    <2>2. late' \in [Processes -> BOOLEAN]
      BY <1>3 DEF TenSeconds, IInv, TypeOK, LifecycleType
    <2>3. TypeOK'
      BY <1>1, <2>1, <2>2 DEF IInv, TypeOK, LifecycleType, ServesHTTP
    <2>4. PhaseInv'
      BY <1>1, <2>1 DEF IInv, PhaseInv
    <2> QED
      BY <2>3, <2>4 DEF IInv
  <1> QED
    BY <1>2, <1>3

LEMMA OperateInv ==
    ASSUME IInv, NEW p \in Processes, Start(p) \/ Signal(p),
           UNCHANGED <<settings, preparedVars, faults>>
    PROVE  IInv'
  <1>1. PreparationType' /\ faults' \in Nat /\ UNCHANGED <<schema, table, topic>>
    BY DEF IInv, TypeOK, PreparationType, preparedVars
  <1>2. LifecycleType
    BY DEF IInv, TypeOK
  <1>3. UNCHANGED <<mode, request, late, lock>>
    BY DEF Start, Signal
  <1>4. \A q \in Processes \ {p} : process'[q] = process[q]
    BY <1>2 DEF LifecycleType, Start, Signal
  <1>5. /\ process'[p] \in [pc : Phases, signalled : BOOLEAN]
        /\ \/ /\ process[p].pc \in Ended
              /\ process'[p].pc = IF mode[p] = "bootstrap" THEN "seed" ELSE "open"
           \/ /\ process[p].pc \notin Ended
              /\ process'[p].pc = process[p].pc
              /\ process'[p].signalled = TRUE
    <2>1. CASE Start(p)
      <3>1. process'[p] = [pc |-> IF mode[p] = "bootstrap" THEN "seed" ELSE "open",
                           signalled |-> FALSE]
        BY <1>2, <2>1 DEF LifecycleType, Start
      <3>2. {"seed", "open"} \subseteq Phases
        BY DEF Phases, Starting
      <3>3. process'[p] \in [pc : Phases, signalled : BOOLEAN]
        BY <3>1, <3>2
      <3>4. process[p].pc \in Ended
        BY <2>1 DEF Start, Running
      <3> QED
        BY <3>1, <3>3, <3>4
    <2>2. CASE Signal(p)
      <3>1. process[p] \in [pc : Phases, signalled : BOOLEAN]
        BY <1>2 DEF LifecycleType
      <3>2. process'[p] = [process[p] EXCEPT !.signalled = TRUE]
        BY <1>2, <2>2 DEF LifecycleType, Signal
      <3> QED
        BY <2>2, <3>1, <3>2 DEF Signal, Running
    <2> QED
      BY <2>1, <2>2
  <1>6. LifecycleType'
    BY <1>2, <1>3, <1>5 DEF LifecycleType, Start, Signal
  <1>7. TypeOK'
    <2>1. ASSUME lock' # NoProcess
          PROVE  process'[lock'].pc \in Migrating
      <3>1. lock \in Processes /\ process[lock].pc \in Migrating
        BY <1>2, <1>3, <2>1 DEF IInv, TypeOK, LifecycleType
      <3>2. CASE lock = p
        BY <1>3, <1>5, <3>1, <3>2 DEF Ended, Migrating
      <3>3. CASE lock # p
        BY <1>3, <1>4, <3>1, <3>3
      <3> QED
        BY <3>2, <3>3
    <2>2. ASSUME NEW q \in Processes, request'[q] # "none"
          PROVE  ServesHTTP(q)' /\ process'[q].pc \in {"serving", "draining"}
      <3>1. ServesHTTP(q) /\ process[q].pc \in {"serving", "draining"}
        BY <1>3, <2>2 DEF IInv, TypeOK
      <3>2. process'[q].pc = process[q].pc
        BY <1>4, <1>5, <3>1 DEF Ended
      <3> QED
        BY <1>3, <3>1, <3>2 DEF ServesHTTP
    <2> QED
      BY <1>1, <1>6, <2>1, <2>2 DEF TypeOK
  <1>8. PhaseInv'
    <2> SUFFICES ASSUME NEW q \in Processes
                 PROVE  PhaseInv!(q)'
      BY DEF PhaseInv
    <2>1. PhaseInv!(q)
      BY DEF IInv, PhaseInv
    <2>2. CASE q # p
      BY <1>1, <1>3, <1>4, <2>1, <2>2
    <2>3. CASE q = p /\ process[p].pc \in Ended
      BY <1>1, <1>3, <1>5, <2>3 DEF Migrating, Ended
    <2>4. CASE q = p /\ process[p].pc \notin Ended
      BY <1>1, <1>3, <1>5, <2>1, <2>4 DEF Ended
    <2> QED
      BY <2>2, <2>3, <2>4
  <1> QED
    BY <1>7, <1>8 DEF IInv

LEMMA NextInv == IInv /\ [Next]_vars => IInv'
  <1> SUFFICES ASSUME IInv, [Next]_vars
               PROVE  IInv'
    OBVIOUS
  <1>1. ASSUME NEW p \in Processes, StartStep(p)
        PROVE  IInv'
    BY <1>1, OpenInv, CreateTablesInv, CommitMigrationInv, TableInv, BootstrapInv
       DEF StartStep
  <1>2. ASSUME NEW p \in Processes, Lock(p)
        PROVE  IInv'
    BY <1>2, TakeLockInv, AlterInv DEF Lock
  <1>3. ASSUME NEW p \in Processes, AbortStart(p)
        PROVE  IInv'
    <2>1. faults' \in Nat
      BY <1>3 DEF AbortStart, IInv, TypeOK
    <2> QED
      BY <1>3, <2>1, EndInv DEF AbortStart
  <1>4. ASSUME NEW p \in Processes, StartError(p)
        PROVE  IInv'
    <2>1. faults' \in Nat
      BY <1>4 DEF StartError, Fault, IInv, TypeOK
    <2> QED
      BY <1>4, <2>1, EndInv, UnknownInv DEF StartError
  <1>5. ASSUME NEW p \in Processes, StoreStep(p)
        PROVE  IInv'
    <2>1. UNCHANGED <<settings, preparedVars, faults>>
      BY <1>5 DEF StoreStep, InsertTransaction, InsertOutbox, CommitRequest
    <2> QED
      BY <1>5, <2>1, RequestInv DEF StoreStep
  <1>6. ASSUME NEW p \in Processes, ClientStep(p)
        PROVE  IInv'
    BY <1>6, RequestInv DEF ClientStep
  <1>7. ASSUME NEW p \in Processes, StopStep(p)
        PROVE  IInv'
    <2>1. faults' \in Nat
      BY <1>7 DEF StopStep, IInv, TypeOK
    <2> QED
      BY <1>7, <2>1, DrainInv, EndInv DEF StopStep
  <1>8. ASSUME NEW p \in Processes, Operate(p)
        PROVE  IInv'
    BY <1>8, OperateInv DEF Operate
  <1>9. ASSUME NEW p \in Processes, Trouble(p)
        PROVE  IInv'
    <2>1. faults' \in Nat
      BY <1>9 DEF Trouble, Fault, IInv, TypeOK
    <2> QED
      BY <1>9, <2>1, EndInv DEF Trouble
  <1>10. ASSUME NEW p \in Processes, NEW q \in Processes, Resolve(p, q)
         PROVE  IInv'
    <2>1. faults' \in Nat /\ UNCHANGED <<settings, preparedVars, faults>>
      BY <1>10 DEF Resolve, BreakDeadlock, IInv, TypeOK
    <2>2. Exit(p, "failed") \/ (request[q] = "inserted" /\ Progress(q, "answering"))
      BY <1>10 DEF Resolve, BreakDeadlock, Deadlocked
    <2> QED
      BY <2>1, <2>2, EndInv, RequestInv
  <1>11. CASE Activate
    <2>1. /\ UNCHANGED <<mode, process, request, late, lock, settings, faults, schema, topic>>
          /\ table' = "active"
      BY <1>11 DEF Activate, ActivateTable, lifecycleVars
    <2>2. TypeOK'
      BY <2>1 DEF IInv, TypeOK, LifecycleType, PreparationType, ServesHTTP
    <2>3. PhaseInv'
      BY <2>1 DEF IInv, PhaseInv
    <2> QED
      BY <2>2, <2>3 DEF IInv
  <1>12. CASE Provision
    <2>1. /\ UNCHANGED <<mode, process, request, late, lock, settings, faults, schema, topic>>
          /\ table = "absent" /\ table' = "creating"
      BY <1>12 DEF Provision, ProvisionTable, lifecycleVars
    <2>2. TypeOK'
      BY <2>1 DEF IInv, TypeOK, LifecycleType, PreparationType, ServesHTTP
    <2>3. PhaseInv'
      BY <2>1 DEF IInv, PhaseInv
    <2> QED
      BY <2>2, <2>3 DEF IInv
  <1>13. ASSUME NEW p \in Processes, FailWithoutTable(p)
         PROVE  IInv'
    <2>1. faults' \in Nat
      BY <1>13 DEF FailWithoutTable, IInv, TypeOK
    <2> QED
      BY <1>13, <2>1, EndInv DEF FailWithoutTable
  <1>14. CASE UNCHANGED vars
    BY <1>14 DEF IInv, TypeOK, LifecycleType, PreparationType, ServesHTTP, PhaseInv,
                 vars, lifecycleVars, preparedVars
  <1> QED
    BY <1>1, <1>2, <1>3, <1>4, <1>5, <1>6, <1>7, <1>8, <1>9, <1>10, <1>11, <1>12,
       <1>13, <1>14 DEF Next

LEMMA Inductive == Spec => []IInv
  BY InitInv, NextInv, PTL DEF Spec

-----------------------------------------------------------------------------
(* No two processes migrate at once, for any number of them: what keeps    *)
(* CREATE TABLE IF NOT EXISTS from failing on another's uncommitted table. *)
LEMMA NoCatalogRace ==
    ASSUME IInv, NEW p \in Processes, process[p].pc \in Migrating
    PROVE  ~ CatalogRace(p)
  BY DEF IInv, PhaseInv, CatalogRace, Migrating

(* How a process can end in one step.                                      *)
LEMMA EndsBy ==
    ASSUME IInv, Next, NEW q \in Processes,
           process[q].pc \notin Ended, process'[q].pc \in {"stopped", "failed"}
    PROVE  \/ EnsureTopic(q) \/ ShutdownComplete(q) \/ StopWorker(q) \/ WorkerError(q)
           \/ /\ process'[q].pc = "failed"
              /\ \/ faults' # faults
                 \/ process[q].signalled
                 \/ \E r \in Processes : Deadlocked(q, r)
  <1> DEFINE Goal == \/ EnsureTopic(q) \/ ShutdownComplete(q) \/ StopWorker(q)
                     \/ WorkerError(q)
                     \/ /\ process'[q].pc = "failed"
                        /\ \/ faults' # faults
                           \/ process[q].signalled
                           \/ \E r \in Processes : Deadlocked(q, r)
  <1>1. LifecycleType /\ faults \in Nat
    BY DEF IInv, TypeOK
  <1>2. ASSUME NEW p \in Processes, NEW pc \in Phases \ {"stopped", "failed"}, Go(p, pc)
        PROVE  FALSE
    BY <1>1, <1>2, GoEffect DEF Ended
  <1>3. ASSUME NEW p \in Processes, NEW pc \in {"stopped", "failed"}, Exit(p, pc)
        PROVE  q = p /\ process'[q].pc = pc
    BY <1>1, <1>3, ExitEffect DEF Ended
  <1>4. ASSUME process' = process
        PROVE  FALSE
    BY <1>4 DEF Ended
  <1>5. ASSUME NEW p \in Processes, StartStep(p)
        PROVE  Goal
    <2>1. CASE Open(p) \/ DescribeTable(p)
      <3>1. PICK pc \in {"serving", "lock", "describe", "table", "poll"} : Go(p, pc)
        BY <2>1 DEF Open, DescribeTable, IInv, TypeOK, PreparationType
      <3> QED
        BY <1>2, <3>1 DEF Phases, Starting
    <2>2. CASE CreateTables(p)
      <3>1. ~ CatalogRace(p)
        BY <2>2, NoCatalogRace DEF CreateTables, Migrating
      <3>2. Go(p, "outbox")
        BY <2>2, <3>1 DEF CreateTables
      <3> QED
        BY <1>2, <3>2 DEF Phases, Starting, Migrating
    <2>3. CASE CommitMigration(p)
      BY <1>1, <2>3 DEF CommitMigration, LifecycleType, Ended
    <2>4. CASE CreateTable(p) \/ PollTable(p) \/ Connect(p)
      <3>1. PICK pc \in {"poll", "serving", "controller", "admin", "topic"} : Go(p, pc)
        BY <2>4 DEF CreateTable, PollTable, Connect
      <3> QED
        BY <1>2, <3>1 DEF Phases, Starting
    <2>5. CASE EnsureTopic(p)
      <3>1. q = p
        BY <1>3, <2>5 DEF EnsureTopic
      <3> QED
        BY <2>5, <3>1
    <2> QED
      BY <1>5, <2>1, <2>2, <2>3, <2>4, <2>5 DEF StartStep
  <1>6. ASSUME NEW p \in Processes, Lock(p)
        PROVE  FALSE
    <2>1. CASE TakeLock(p)
      BY <1>1, <2>1 DEF TakeLock, LifecycleType, Ended
    <2>2. CASE AlterOutbox(p) \/ AlterTransactions(p)
      <3>1. PICK pc \in {"transactions", "commit"} : Go(p, pc)
        BY <2>2 DEF AlterOutbox, AlterTransactions
      <3> QED
        BY <1>2, <3>1 DEF Phases, Starting, Migrating
    <2> QED
      BY <1>6, <2>1, <2>2 DEF Lock
  <1>7. ASSUME NEW p \in Processes, AbortStart(p)
        PROVE  Goal
    BY <1>3, <1>7 DEF AbortStart
  <1>8. ASSUME NEW p \in Processes, StartError(p)
        PROVE  Goal
    <2>1. Exit(p, "failed") /\ faults' # faults
      BY <1>1, <1>8 DEF StartError, CommitMigrationUnknown, CreateTableUnknown,
                        EnsureTopicUnknown, Fault
    <2> QED
      BY <1>3, <2>1
  <1>9. ASSUME NEW p \in Processes, StoreStep(p) \/ ClientStep(p)
        PROVE  FALSE
    <2>1. process' = process
      BY <1>9 DEF StoreStep, ClientStep, InsertTransaction, InsertOutbox, CommitRequest,
                  Receive, Refuse, Answer, Progress
    <2> QED
      BY <1>4, <2>1
  <1>10. ASSUME NEW p \in Processes, StopStep(p)
         PROVE  Goal
    <2>1. CASE BeginShutdown(p)
      BY <1>2, <2>1 DEF BeginShutdown, Phases
    <2>2. CASE TenSeconds(p)
      BY <1>4, <2>2 DEF TenSeconds
    <2>3. CASE ShutdownComplete(p) \/ StopWorker(p)
      <3>1. q = p
        BY <1>3, <2>3 DEF ShutdownComplete, StopWorker
      <3> QED
        BY <2>3, <3>1
    <2> QED
      BY <1>10, <2>1, <2>2, <2>3 DEF StopStep
  <1>11. ASSUME NEW p \in Processes, Operate(p)
         PROVE  FALSE
    BY <1>1, <1>11 DEF Operate, Start, Signal, LifecycleType, Ended, Running
  <1>12. ASSUME NEW p \in Processes, Trouble(p)
         PROVE  Goal
    <2>1. CASE WorkerError(p)
      <3>1. q = p
        BY <1>3, <2>1 DEF WorkerError
      <3> QED
        BY <2>1, <3>1
    <2>2. CASE ServeError(p) \/ Kill(p)
      <3>1. Exit(p, "failed") /\ faults' # faults
        BY <1>1, <1>12, <2>2 DEF Trouble, Fault, ServeError, Kill
      <3> QED
        BY <1>3, <3>1
    <2> QED
      BY <1>12, <2>1, <2>2 DEF Trouble
  <1>13. ASSUME NEW p \in Processes, NEW r \in Processes, Resolve(p, r)
         PROVE  Goal
    <2>1. CASE Exit(p, "failed")
      <3>1. q = p /\ process'[q].pc = "failed" /\ Deadlocked(p, r)
        BY <1>3, <1>13, <2>1 DEF Resolve, BreakDeadlock
      <3> QED
        BY <3>1
    <2>2. CASE Progress(r, "answering")
      BY <1>4, <2>2 DEF Progress
    <2> QED
      BY <1>13, <2>1, <2>2 DEF Resolve, BreakDeadlock
  <1>14. CASE Activate \/ Provision
    BY <1>4, <1>14 DEF Activate, ActivateTable, Provision, ProvisionTable, lifecycleVars
  <1>15. ASSUME NEW p \in Processes, FailWithoutTable(p)
         PROVE  Goal
    <2>1. q = p
      BY <1>3, <1>15 DEF FailWithoutTable, WorkerError
    <2> QED
      BY <1>15, <2>1 DEF FailWithoutTable
  <1> QED
    BY <1>5, <1>6, <1>7, <1>8, <1>9, <1>10, <1>11, <1>12, <1>13, <1>14, <1>15 DEF Next

-----------------------------------------------------------------------------
(* The theorems.                                                           *)

(* Types; only the holder of the advisory lock migrates, only a running    *)
(* HTTP server has a request in flight.                                    *)
THEOREM TypeCorrect == Spec => []TypeOK
  BY Inductive, PTL DEF IInv

(* Whoever serves, serves from a store that newStore has prepared, if it   *)
(* prepares it at all (PostgreSQL, DynamoDB with an endpoint), whatever    *)
(* other processes do or fail to do, and whether or not the answers to the *)
(* commit, CreateTable and CreateTopics arrive (Migrate, EnsureTable,      *)
(* runTopicBootstrap).                                                     *)
THEOREM PreparedCorrect == Spec => []ServesPrepared
  <1>1. IInv => ServesPrepared
    BY DEF IInv, PhaseInv, ServesPrepared
  <1> QED
    BY Inductive, <1>1, PTL

(* A service that ends with code 0 was told to stop (main, startWorker).   *)
THEOREM ExitCodeCorrect == Spec => []ExitCodeTellsWhy
  <1>1. IInv => ExitCodeTellsWhy
    BY DEF IInv, PhaseInv, ExitCodeTellsWhy
  <1> QED
    BY Inductive, <1>1, PTL

(* However many processes start together, none fails because of another's  *)
(* preparation: the advisory lock keeps migrations apart.                  *)
THEOREM IndependentCorrect == Spec => StartsAreIndependent
  <1> DEFINE Independent ==
        \A p \in Processes :
            process[p].pc \in Starting /\ process'[p].pc = "failed" =>
                \/ faults' # faults
                \/ process[p].signalled
                \/ \E q \in Processes : Deadlocked(p, q)
  <1>1. IInv /\ [Next]_vars => [Independent]_vars
    <2> SUFFICES ASSUME IInv, Next, NEW p \in Processes,
                        process[p].pc \in Starting, process'[p].pc = "failed"
                 PROVE  \/ faults' # faults
                        \/ process[p].signalled
                        \/ \E q \in Processes : Deadlocked(p, q)
      OBVIOUS
    <2>1. process[p].pc \notin Ended \cup {"serving", "draining"}
      BY DEF Starting, Ended, Migrating
    <2>2. ~ EnsureTopic(p)
      <3>1. LifecycleType
        BY DEF IInv, TypeOK
      <3> QED
        BY <3>1, ExitEffect DEF EnsureTopic
    <2>3. ~ (ShutdownComplete(p) \/ StopWorker(p) \/ WorkerError(p))
      BY <2>1 DEF ShutdownComplete, StopWorker, WorkerError
    <2> QED
      BY <2>1, <2>2, <2>3, EndsBy
  <1> QED
    BY Inductive, <1>1, PTL DEF Spec, StartsAreIndependent

(* Mode api cuts no request off before its ten seconds (serveHTTPServer).  *)
THEOREM DrainCorrect == Spec => DrainsFirst
  <1> DEFINE Drained ==
        \A p \in Processes :
            mode[p] = "api" /\ process'[p].pc = "stopped" /\ request[p] # "none" =>
                late[p]
  <1>1. IInv /\ [Next]_vars => [Drained]_vars
    <2> SUFFICES ASSUME IInv, Next, NEW p \in Processes, mode[p] = "api",
                        process'[p].pc = "stopped", request[p] # "none"
                 PROVE  late[p]
      OBVIOUS
    <2>1. process[p].pc \in {"serving", "draining"}
      BY DEF IInv, TypeOK
    <2>2. ShutdownComplete(p)
      BY <2>1, EndsBy DEF Ended, EnsureTopic, StopWorker, WorkerError
    <2> QED
      BY <2>2 DEF ShutdownComplete
  <1> QED
    BY Inductive, <1>1, PTL DEF Spec, DrainsFirst

=============================================================================
