----------------------------- MODULE CoreProofs -----------------------------
(***************************************************************************)
(* What the proofs about every store have in common: types of the request  *)
(* path and of the workers, whatever the store does.                       *)
(***************************************************************************)
EXTENDS Intake, Dispatcher, WellFoundedInduction, TLAPS

(* Every non-empty set of natural numbers has a least element.             *)
LEMMA LeastElement ==
    ASSUME NEW S \in SUBSET Nat, S # {}
    PROVE  \E n \in S : \A m \in S : n <= m
  <1> DEFINE Less == OpToRel(<, Nat)
  <1>1. IsWellFoundedOn(Less, Nat)
    BY NatLessThanWellFounded
  <1>2. \A m, n \in Nat : <<m, n>> \in Less <=> m < n
    BY DEF OpToRel
  <1> HIDE DEF Less
  <1>3. PICK n \in S : \A m \in S : ~ (<<m, n>> \in Less)
    BY <1>1, WFMin
  <1>4. ASSUME NEW m \in S
        PROVE  n <= m
    <2>1. m \in Nat /\ n \in Nat
      OBVIOUS
    <2>2. ~ (m < n)
      BY <1>2, <1>3, <2>1
    <2> QED
      BY <2>1, <2>2
  <1> QED
    BY <1>4

USE BodiesAssumption, NullAssumption, DispatcherAssumption

-----------------------------------------------------------------------------
(* The request path.                                                       *)

(* IntakeService.Accept builds a well-typed argument for the store.        *)
LEMMA AcceptanceType ==
    ASSUME request \in RequestType, NEW r \in Requests
    PROVE  /\ Acceptance(r) \in Acceptances
           /\ Acceptance(r).id = r
           /\ Acceptance(r).identity = request[r].identity
  BY DEF RequestType, Acceptance, Acceptances, Fingerprint, Fingerprints

(* The handler's reply to any outcome of the store is a reply.             *)
LEMMA ReplyType ==
    ASSUME NEW r \in Requests, NEW outcome \in Outcomes
    PROVE  Reply(r, outcome) \in Replies
  BY DEF Reply, Outcomes, Replies, ReplyCodes, Ids

(* Intake steps keep the type of request.                                  *)
LEMMA IntakeType ==
    ASSUME request \in RequestType, clock \in Nat, NEW r \in Requests,
           NEW outcome \in Outcomes,
           \/ RejectInvalid(r) \/ BeginAccept(r, clock)
           \/ FinishAccept(r, outcome) \/ LoseRequest(r)
           \/ UNCHANGED request
    PROVE  request' \in RequestType
  <1> DEFINE States ==
        [pc: {"unsent", "accepting", "answered", "lost"}, identity: Identities,
         body: Bodies, occurred_at: Nat, reply: Replies]
  <1>0. request \in [Requests -> States] /\ request[r] \in States
    BY DEF RequestType
  <1>1. ASSUME NEW s \in States, request' = [request EXCEPT ![r] = s]
        PROVE  request' \in RequestType
    <2>1. request' \in [Requests -> States]
      <3> HIDE DEF States
      <3> QED
        BY <1>0, <1>1
    <2> QED
      BY <2>1 DEF RequestType
  <1>2. CASE RejectInvalid(r)
    <2> DEFINE reply == [code |-> "invalid", id |-> NoId]
    <2>1. reply \in Replies
      BY DEF Replies, ReplyCodes, Ids
    <2> HIDE DEF reply
    <2>2. [request[r] EXCEPT !.pc = "answered", !.reply = reply] \in States
      BY <1>0, <2>1, Zenon
    <2>3. request' = [request EXCEPT ![r] =
                        [request[r] EXCEPT !.pc = "answered", !.reply = reply]]
      BY <1>2, Zenon DEF RejectInvalid, reply
    <2> HIDE DEF States
    <2> QED
      BY <1>1, <2>2, <2>3
  <1>3. CASE BeginAccept(r, clock)
    <2>1. [request[r] EXCEPT !.pc = "accepting", !.occurred_at = clock] \in States
      BY <1>0, Zenon
    <2>2. request' = [request EXCEPT ![r] =
                        [request[r] EXCEPT !.pc = "accepting", !.occurred_at = clock]]
      BY <1>3, Zenon DEF BeginAccept
    <2> HIDE DEF States
    <2> QED
      BY <1>1, <2>1, <2>2
  <1>4. CASE FinishAccept(r, outcome)
    <2> DEFINE reply == Reply(r, outcome)
    <2>1. reply \in Replies
      BY ReplyType
    <2> HIDE DEF reply
    <2>2. [request[r] EXCEPT !.pc = "answered", !.reply = reply] \in States
      BY <1>0, <2>1, Zenon
    <2>3. request' = [request EXCEPT ![r] =
                        [request[r] EXCEPT !.pc = "answered", !.reply = reply]]
      BY <1>4, Zenon DEF FinishAccept, reply
    <2> HIDE DEF States
    <2> QED
      BY <1>1, <2>2, <2>3
  <1>5. CASE LoseRequest(r)
    <2>1. [request[r] EXCEPT !.pc = "lost"] \in States
      BY <1>0, Zenon
    <2>2. request' = [request EXCEPT ![r] = [request[r] EXCEPT !.pc = "lost"]]
      BY <1>5, Zenon DEF LoseRequest
    <2> HIDE DEF States
    <2> QED
      BY <1>1, <2>1, <2>2
  <1>6. CASE UNCHANGED request
    BY <1>6
  <1> QED
    BY <1>2, <1>3, <1>4, <1>5, <1>6

-----------------------------------------------------------------------------
(* The workers.                                                            *)

(* What is left of a batch is a batch.                                     *)
LEMMA TailOfBatch ==
    ASSUME NEW S, NEW s \in Seq(S), s # <<>>
    PROVE  /\ Tail(s) \in Seq(S)
           /\ Head(s) = s[1] /\ s[1] \in S /\ 1 \in DOMAIN s
           /\ \A k \in DOMAIN Tail(s) :
                 k + 1 \in DOMAIN s /\ k + 1 # 1 /\ Tail(s)[k] = s[k + 1]
  OBVIOUS

(* PublishFailure is well typed.                                           *)
LEMMA FailureType ==
    ASSUME DispatcherType, NEW w \in Workers, worker[w].batch # <<>>
    PROVE  Failure(w) \in Failures
  <1>1. Pending(w) \in PendingEvents
    BY TailOfBatch DEF DispatcherType, Pending
  <1>2. Pending(w).attempts + 1 < MaxAttempts
           => RetryDelay[Pending(w).attempts + 1] \in Nat
    BY <1>1 DEF PendingEvents
  <1> QED
    BY <1>1, <1>2 DEF Failure, Failures, PendingEvents, DispatcherType

(* Steps of RunBatch keep the types of the workers.                        *)
LEMMA ContinueType ==
    ASSUME DispatcherType, NEW w \in Workers, NEW batch \in Seq(PendingEvents),
           Continue(w, batch)
    PROVE  DispatcherType'
  <1> DEFINE States ==
        [pc: {"idle", "claiming", "publish", "mark", "record", "stopped"},
         now: Nat, batch: Seq(PendingEvents)]
             next == IF batch = <<>> THEN Idle
                     ELSE [pc |-> "publish", now |-> worker[w].now, batch |-> batch]
  <1>1. Idle \in States
    BY DEF Idle
  <1>2. next \in States
    BY <1>1 DEF DispatcherType
  <1>3. worker' = [worker EXCEPT ![w] = next]
    BY DEF Continue
  <1>4. worker' \in [Workers -> States]
    <2> HIDE DEF next, States
    <2>1. worker \in [Workers -> States]
      BY DEF DispatcherType, States
    <2> QED
      BY <1>2, <1>3, <2>1
  <1> QED
    BY <1>4 DEF Continue, DispatcherType

(* A stopping worker stays typed: Halt drops its batch.                    *)
LEMMA HaltType ==
    ASSUME DispatcherType, NEW w \in Workers, Halt(w)
    PROVE  DispatcherType'
  <1> DEFINE States ==
        [pc: {"idle", "claiming", "publish", "mark", "record", "stopped"},
         now: Nat, batch: Seq(PendingEvents)]
  <1>1. Stopped \in States
    BY DEF Stopped
  <1>2. worker' = [worker EXCEPT ![w] = Stopped]
    BY DEF Halt
  <1>3. worker' \in [Workers -> States]
    <2> HIDE DEF States
    <2>1. worker \in [Workers -> States]
      BY DEF DispatcherType, States
    <2> QED
      BY <1>1, <1>2, <2>1
  <1> QED
    BY <1>3 DEF Halt, DispatcherType

(* A batch begins, an event is published, a process starts again.          *)
LEMMA RunType ==
    ASSUME DispatcherType, NEW w \in Workers,
           StartBatch(w) \/ PublishOk(w) \/ PublishError(w) \/ Restart(w),
           worker[w].pc \in {"publish", "mark", "record"} => worker[w].batch # <<>>
    PROVE  DispatcherType'
  <1>1. CASE StartBatch(w)
    BY <1>1 DEF StartBatch, DispatcherType
  <1>2. CASE PublishOk(w) \/ PublishError(w)
    <2>1. Pending(w) \in PendingEvents
      BY <1>2, TailOfBatch DEF PublishOk, PublishError, DispatcherType, Pending
    <2>2. topic' \in SUBSET Requests
      BY <1>2, <2>1 DEF PublishOk, PublishError, DispatcherType, PendingEvents
    <2> DEFINE States ==
          [pc: {"idle", "claiming", "publish", "mark", "record", "stopped"},
           now: Nat, batch: Seq(PendingEvents)]
    <2>3. PICK pc \in {"mark", "record"} : worker' = [worker EXCEPT ![w].pc = pc]
      BY <1>2 DEF PublishOk, PublishError
    <2>4. worker \in [Workers -> States] /\ worker[w] \in States
      BY DEF DispatcherType
    <2>5. [worker[w] EXCEPT !.pc = pc] \in States
      BY <2>4, Zenon
    <2>6. worker' = [worker EXCEPT ![w] = [worker[w] EXCEPT !.pc = pc]]
      BY <2>3, Zenon
    <2>7. worker' \in [Workers -> States]
      <3> HIDE DEF States
      <3> QED
        BY <2>4, <2>5, <2>6
    <2>8. UNCHANGED clock
      BY <1>2 DEF PublishOk, PublishError
    <2> QED
      BY <2>2, <2>7, <2>8 DEF DispatcherType
  <1>3. CASE Restart(w)
    BY <1>3 DEF Restart, DispatcherType, Idle
  <1> QED
    BY <1>1, <1>2, <1>3

(* RunBatch publishes, marks or records only while its batch is not empty. *)
BusyInv ==
    \A w \in Workers :
        worker[w].batch = <<>> <=> worker[w].pc \in {"idle", "claiming", "stopped"}

(* Worker v is as busy as its batch says after any step of worker w.       *)
LEMMA BusyStep ==
    ASSUME DispatcherType, BusyInv, NEW w \in Workers,
           \/ StartBatch(w) \/ PublishOk(w) \/ PublishError(w) \/ Restart(w)
           \/ Halt(w) \/ \E batch : Continue(w, batch)
    PROVE  BusyInv'
  <1> USE DEF BusyInv, DispatcherType
  <1>1. CASE StartBatch(w) \/ PublishOk(w) \/ PublishError(w)
    <2>1. CASE StartBatch(w)
      BY <2>1 DEF StartBatch
    <2>2. CASE PublishOk(w)
      BY <2>2 DEF PublishOk
    <2>3. CASE PublishError(w)
      BY <2>3 DEF PublishError
    <2> QED
      BY <1>1, <2>1, <2>2, <2>3
  <1>2. CASE Restart(w) \/ Halt(w)
    <2>1. CASE Restart(w)
      BY <2>1 DEF Restart, Idle
    <2>2. CASE Halt(w)
      BY <2>2 DEF Halt, Stopped
    <2> QED
      BY <1>2, <2>1, <2>2
  <1>3. ASSUME NEW batch, Continue(w, batch) PROVE BusyInv'
    BY <1>3 DEF Continue, Idle
  <1> QED
    BY <1>1, <1>2, <1>3

=============================================================================
