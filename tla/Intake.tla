------------------------------- MODULE Intake -------------------------------
(***************************************************************************)
(* The request path: the transactions handler and IntakeService.Accept     *)
(* around one call of TransactionStore.Accept.  The store's own steps are  *)
(* in the store modules; a request waits in "accepting" meanwhile.         *)
(***************************************************************************)
EXTENDS Ports

VARIABLE request   \* request[r]: progress, contents and reply of request r

(* HTTP 201, 200 (Idempotent-Replay), 400 transaction_conflict, any other  *)
(* 4xx and 503.                                                            *)
ReplyCodes == {"created", "replayed", "conflict", "invalid", "unavailable"}

Replies == [code: ReplyCodes \cup {"none"}, id: Ids]

NoReply == [code |-> "none", id |-> NoId]

RequestType ==
    [Requests -> [pc: {"unsent", "accepting", "answered", "lost"},
                  identity: Identities, body: Bodies,
                  occurred_at: Nat, reply: Replies]]

(* Any contents may be sent by any request, so two requests may be a       *)
(* submission and its retry, or two sources that disagree.                 *)
IntakeInit ==
    request \in [Requests -> [pc: {"unsent"}, identity: Identities,
                              body: Bodies, occurred_at: {0},
                              reply: {NoReply}]]

Acceptance(r) ==
    [id          |-> r,
     identity    |-> request[r].identity,
     fingerprint |-> Fingerprint(request[r].identity, request[r].body),
     occurred_at |-> request[r].occurred_at]

(* Mutant of Reply: the store outcome handed out untranslated.             *)
ReplyUntranslated(r, outcome) ==
    [code |-> outcome.kind, id |-> outcome.id]

(* The switch over StoreOutcome.Kind and the handler's status codes.  A    *)
(* replay without an ID is an error of the store.                          *)
Reply(r, outcome) ==
    CASE outcome.kind = "accepted" -> [code |-> "created", id |-> r]
      [] outcome.kind = "replay" /\ outcome.id # NoId
                                   -> [code |-> "replayed", id |-> outcome.id]
      [] outcome.kind = "conflict" -> [code |-> "conflict", id |-> NoId]
      [] OTHER                     -> [code |-> "unavailable", id |-> NoId]

(* Refused before the store is called: by the handler (method, API key,    *)
(* media type, size, JSON, fields) or by Validate.  All these answers are  *)
(* "invalid" here.                                                         *)
RejectInvalid(r) ==
    /\ request[r].pc = "unsent"
    /\ ~ Validate(request[r].body)
    /\ request' = [request EXCEPT ![r].pc = "answered",
                                  ![r].reply = [code |-> "invalid", id |-> NoId]]

(* Validate, fingerprint, draw the IDs, stamp the event: the store call    *)
(* begins.                                                                 *)
BeginAccept(r, now) ==
    /\ request[r].pc = "unsent"
    /\ Validate(request[r].body)
    /\ request' = [request EXCEPT ![r].pc = "accepting", ![r].occurred_at = now]

FinishAccept(r, outcome) ==
    /\ request[r].pc = "accepting"
    /\ request' = [request EXCEPT ![r].pc = "answered",
                                  ![r].reply = Reply(r, outcome)]

(* The API process dies with the request in flight: nobody is answered.    *)
LoseRequest(r) ==
    /\ request[r].pc = "accepting"
    /\ request' = [request EXCEPT ![r].pc = "lost"]

=============================================================================
