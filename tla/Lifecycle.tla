------------------------------ MODULE Lifecycle ------------------------------
(***************************************************************************)
(* The life of the processes of a deployment: the modes of                 *)
(* transaction-service (startAPI, startWorker, startLocal) and the one-shot*)
(* topic-bootstrap.  A serving process handles one request at a time here. *)
(***************************************************************************)
EXTENDS Naturals

CONSTANTS
    Processes,
    NoProcess   \* nobody holds the advisory lock

ASSUME LifecycleAssumption == NoProcess \notin Processes

VARIABLES
    mode,      \* mode[p]: which program p is
    process,   \* process[p]: where it has got to, and whether it was told to stop
    request,   \* request[p]: where the request that it handles has got to
    late,      \* late[p]: ten seconds have passed since its shutdown began
    lock       \* who holds the advisory lock of the migration

lifecycleVars == <<mode, process, request, late, lock>>

Modes == {"api", "worker", "local", "bootstrap"}

Migrating == {"create", "outbox", "transactions", "commit"}

Starting == {"open", "lock", "describe", "table", "poll", "seed", "controller",
             "admin", "topic"} \cup Migrating

(* "stopped" is exit code 0, "failed" any other.                           *)
Ended == {"down", "stopped", "failed"}

Phases == Starting \cup Ended \cup {"serving", "draining"}

LifecycleType ==
    /\ mode \in [Processes -> Modes]
    /\ process \in [Processes -> [pc: Phases, signalled: BOOLEAN]]
    /\ request \in [Processes -> {"none", "reading", "inserted", "both", "answering"}]
    /\ late \in [Processes -> BOOLEAN]
    /\ lock \in Processes \cup {NoProcess}

LifecycleInit ==
    /\ mode \in [Processes -> Modes]
    /\ process = [p \in Processes |-> [pc |-> "down", signalled |-> FALSE]]
    /\ request = [p \in Processes |-> "none"]
    /\ late = [p \in Processes |-> FALSE]
    /\ lock = NoProcess

Running(p) == process[p].pc \notin Ended

ServesHTTP(p) == mode[p] \in {"api", "local"}

Go(p, pc) ==
    /\ process' = [process EXCEPT ![p].pc = pc]
    /\ UNCHANGED <<mode, request, late, lock>>

Progress(p, phase) ==
    /\ request' = [request EXCEPT ![p] = phase]
    /\ UNCHANGED <<mode, process, late, lock>>

(* Connections and database sessions end with the process.                 *)
Exit(p, code) ==
    /\ process' = [process EXCEPT ![p].pc = code]
    /\ request' = [request EXCEPT ![p] = "none"]
    /\ late' = [late EXCEPT ![p] = FALSE]
    /\ lock' = IF lock = p THEN NoProcess ELSE lock
    /\ UNCHANGED mode

-----------------------------------------------------------------------------
Start(p) ==
    /\ ~ Running(p)
    /\ process' = [process EXCEPT
          ![p] = [pc |-> IF mode[p] = "bootstrap" THEN "seed" ELSE "open",
                  signalled |-> FALSE]]
    /\ UNCHANGED <<mode, request, late, lock>>

(* SIGTERM; topic-bootstrap does not catch it and dies (Kill).             *)
Signal(p) ==
    /\ Running(p)
    /\ mode[p] # "bootstrap"
    /\ ~ process[p].signalled
    /\ process' = [process EXCEPT ![p].signalled = TRUE]
    /\ UNCHANGED <<mode, request, late, lock>>

Kill(p) == Running(p) /\ Exit(p, "failed")

Receive(p) ==
    /\ process[p].pc = "serving"
    /\ ServesHTTP(p)
    /\ request[p] = "none"
    /\ Progress(p, "reading")

Refuse(p) ==
    /\ request[p] = "reading"
    /\ Progress(p, "answering")

Answer(p) ==
    /\ request[p] = "answering"
    /\ Progress(p, "none")

(* The listener is closed and ListenAndServe has returned.                 *)
BeginShutdown(p) ==
    /\ mode[p] = "api"
    /\ process[p].pc = "serving"
    /\ process[p].signalled
    /\ Go(p, "draining")

TenSeconds(p) ==
    /\ process[p].pc = "draining"
    /\ late' = [late EXCEPT ![p] = TRUE]
    /\ UNCHANGED <<mode, process, request, lock>>

(* Mutant of ShutdownComplete: nobody waits for shutdownComplete.          *)
ShutdownForgotten(p) ==
    /\ process[p].pc = "draining"
    /\ Exit(p, "stopped")

(* Mutant of ShutdownComplete: Shutdown without a deadline.                *)
ShutdownUnbounded(p) ==
    /\ process[p].pc = "draining"
    /\ request[p] = "none"
    /\ Exit(p, "stopped")

(* Shutdown has returned; the store is closed and the process ends.        *)
ShutdownComplete(p) ==
    /\ process[p].pc = "draining"
    /\ request[p] = "none" \/ late[p]
    /\ Exit(p, "stopped")

(* runWorkerLoop, or the select of startLocal, sees the end of the context.*)
StopWorker(p) ==
    /\ mode[p] \in {"worker", "local"}
    /\ process[p].pc = "serving"
    /\ process[p].signalled
    /\ Exit(p, "stopped")

(* Mutant of WorkerError: the error is logged and forgotten.               *)
WorkerErrorSwallowed(p) ==
    /\ mode[p] \in {"worker", "local"}
    /\ process[p].pc = "serving"
    /\ Exit(p, "stopped")

(* RunBatch fails; a context that has ended excuses it.                    *)
WorkerError(p) ==
    /\ mode[p] \in {"worker", "local"}
    /\ process[p].pc = "serving"
    /\ Exit(p, IF process[p].signalled THEN "stopped" ELSE "failed")

(* ListenAndServe ends by itself: the address is taken.                    *)
ServeError(p) ==
    /\ ServesHTTP(p)
    /\ process[p].pc = "serving"
    /\ Exit(p, "failed")

=============================================================================
