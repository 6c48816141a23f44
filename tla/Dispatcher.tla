----------------------------- MODULE Dispatcher -----------------------------
(***************************************************************************)
(* The outbox workers: Dispatcher.RunBatch called in a loop by             *)
(* runWorkerLoop, one process per worker, and the Kafka topic they publish *)
(* to.  Each store call and each publication is a step of its own, so the  *)
(* clock and the other workers move between any two of them.               *)
(***************************************************************************)
EXTENDS Ports

CONSTANTS
    Workers,
    BatchSize,
    Lease,
    MaxAttempts,
    RetryDelay,   \* RetryDelay[n]: wait after the n-th failed attempt
    MaxTime       \* bound on the clock

ASSUME DispatcherAssumption ==
    /\ BatchSize \in Nat \ {0}
    /\ Lease \in Nat \ {0}
    /\ MaxAttempts \in Nat \ {0}
    /\ RetryDelay \in [1..MaxAttempts -> Nat]
    /\ MaxTime \in Nat

VARIABLES
    worker,   \* worker[w]: progress of RunBatch in process w
    topic,    \* events that reached the Kafka topic at least once
    clock     \* the wall clock, shared by all processes

DispatcherType ==
    /\ worker \in [Workers ->
                    [pc: {"idle", "claiming", "publish", "mark", "record", "stopped"},
                     now: Nat, batch: Seq(PendingEvents)]]
    /\ topic \in SUBSET Requests
    /\ clock \in Nat

(* Between two batches; now and batch are locals of RunBatch.              *)
Idle == [pc |-> "idle", now |-> 0, batch |-> <<>>]

Stopped == [pc |-> "stopped", now |-> 0, batch |-> <<>>]

DispatcherInit ==
    /\ worker = [w \in Workers |-> Idle]
    /\ topic = {}
    /\ clock = 0

Pending(w) == Head(worker[w].batch)

(* RunBatch reads the clock once; every later step of the batch uses it.   *)
StartBatch(w) ==
    /\ worker[w].pc = "idle"
    /\ worker' = [worker EXCEPT ![w].pc = "claiming", ![w].now = clock]
    /\ UNCHANGED <<topic, clock>>

(* The worker goes on with what is left of its batch.                      *)
Continue(w, batch) ==
    /\ worker' = [worker EXCEPT ![w] =
                    IF batch = <<>> THEN Idle
                    ELSE [pc |-> "publish", now |-> @.now, batch |-> batch]]
    /\ UNCHANGED <<topic, clock>>

(* ClaimPending returned.                                                  *)
Claimed(w, batch) ==
    /\ worker[w].pc = "claiming"
    /\ Continue(w, batch)

(* Publisher.Publish of the head of the batch.  Acks from all replicas are *)
(* required, so success means the record is in the topic; an error (broker *)
(* unreachable, timeout after the write) leaves that open.                 *)
PublishOk(w) ==
    /\ worker[w].pc = "publish"
    /\ topic' = topic \cup {Pending(w).event}
    /\ worker' = [worker EXCEPT ![w].pc = "mark"]
    /\ UNCHANGED clock

(* Mutant of PublishError: the error of the publisher is ignored.          *)
PublishErrorIgnored(w) ==
    /\ worker[w].pc = "publish"
    /\ topic' \in {topic, topic \cup {Pending(w).event}}
    /\ worker' = [worker EXCEPT ![w].pc = "mark"]
    /\ UNCHANGED clock

PublishError(w) ==
    /\ worker[w].pc = "publish"
    /\ topic' \in {topic, topic \cup {Pending(w).event}}
    /\ worker' = [worker EXCEPT ![w].pc = "record"]
    /\ UNCHANGED clock

(* Mutant of Failure: terminal one attempt too late.                       *)
FailureTooLate(w) ==
    LET attempts == Pending(w).attempts + 1
        terminal == attempts > MaxAttempts
    IN  [event    |-> Pending(w).event,
         token    |-> Pending(w).token,
         attempts |-> attempts,
         terminal |-> terminal,
         retry_at |-> 0]

(* What RunBatch asks the store to record after a failed publication.      *)
Failure(w) ==
    LET attempts == Pending(w).attempts + 1
        terminal == attempts >= MaxAttempts
    IN  [event    |-> Pending(w).event,
         token    |-> Pending(w).token,
         attempts |-> attempts,
         terminal |-> terminal,
         retry_at |-> IF terminal THEN 0
                      ELSE worker[w].now + RetryDelay[attempts]]

(* The store confirmed the outcome of the head: next event.                *)
Advance(w) ==
    Continue(w, Tail(worker[w].batch))

(* Any error of the store ends RunBatch, the loop and the process.  The    *)
(* claims on the rest of the batch stay until their lease lapses.          *)
Halt(w) ==
    /\ worker' = [worker EXCEPT ![w] = Stopped]
    /\ UNCHANGED <<topic, clock>>

(* The orchestrator starts the process again.                              *)
Restart(w) ==
    /\ worker[w].pc = "stopped"
    /\ worker' = [worker EXCEPT ![w] = Idle]
    /\ UNCHANGED <<topic, clock>>

Tick ==
    /\ clock < MaxTime
    /\ clock' = clock + 1
    /\ UNCHANGED <<worker, topic>>

=============================================================================
