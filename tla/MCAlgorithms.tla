---------------------------- MODULE MCAlgorithms ----------------------------
(***************************************************************************)
(* The pure parts of the program on bounded inputs.  A state is one case:  *)
(* the delay after some attempts, two instants, two identities, a request  *)
(* under a configuration, or an environment; the steps vary the case.      *)
(***************************************************************************)
EXTENDS Ingest, FiniteSetsExt, SequencesExt, TLC

CONSTANTS
    Delays,          \* values of BaseDelay and of MaxDelay
    LastAttempt,     \* bound on the attempts
    LastInstant,     \* bound on instants
    Precision,       \* decimals of a second
    Characters,      \* of sources and references, Separator among them
    Separator,
    LastCharacter    \* bound on the length of sources and references

VARIABLE case

vars == <<case>>

B == INSTANCE Backoff

T == INSTANCE Timestamps

K == INSTANCE IdentityKeys

-----------------------------------------------------------------------------
(* Strings and what the program takes them for.                            *)
Sizes == [n8 |-> 8, n9 |-> 9, n16 |-> 16, n17 |-> 17, n64 |-> 64, n65 |-> 65,
          n128 |-> 128, n129 |-> 129]

MCTexts ==
    {"", " ", "x", "USD", "toll", "fee", "12.50", "1e2", "disabled", "api_key",
     "13:45:02Z", "13:45:02+00:00", "15:45:02+02:00", "0001-01-01", "noon",
     "localhost:9092", "b:1,c:2", ",c:2", "b:1", "c:2", "toll,fee", "true", "0", "memory",
     "ndjson", "postgres"}
    \cup DOMAIN Sizes

MCRunes == [t \in Texts |-> IF t \in DOMAIN Sizes THEN Sizes[t] ELSE Len(t)]

MCItems ==
    [t \in Texts |-> CASE t = " "        -> <<"">>
                       [] t = "b:1,c:2"  -> <<"b:1", "c:2">>
                       [] t = ",c:2"     -> <<"", "c:2">>
                       [] t = "toll,fee" -> <<"toll", "fee">>
                       [] OTHER          -> <<t>>]

MCBlank == {"", " "}
MCAmounts == {"12.50"}
MCTimes == {"13:45:02Z", "13:45:02+00:00", "15:45:02+02:00", "0001-01-01"}
MCInstant == [t \in MCTimes |-> IF t = "0001-01-01" THEN 0 ELSE 1]
MCOffset == [t \in MCTimes |-> IF t = "15:45:02+02:00" THEN 2 ELSE 0]
MCObjects == {"{k}", "{ k }"}
MCCanonical == [o \in MCObjects |-> "{k}"]

-----------------------------------------------------------------------------
(* Requests that differ from an ordinary one in up to two fields.          *)
Ordinary ==
    [source |-> "x", source_reference |-> "x", transaction_type |-> "toll",
     transaction_time_utc |-> "13:45:02Z", base_amount |-> "12.50",
     currency |-> Absent, transponder_number |-> "x", plate |-> Absent,
     location |-> Absent, metadata |-> Absent]

Plate(number, jurisdiction) == [number |-> number, jurisdiction |-> jurisdiction]

Variations ==
    [source |-> Json({"", "n64", "n65"}),
     source_reference |-> Json({"", "n128", "n129"}),
     transaction_type |-> Json({"", "fee", "x"}),
     transaction_time_utc |-> Json(MCTimes \cup {"noon", ""}),
     base_amount |-> Json({"1e2", ""}),
     currency |-> Json({"", "USD", "n8", "n9"}),
     transponder_number |-> Json({"", " ", "n64", "n65"}),
     plate |-> Json({Plate("x", "x"), Plate("n16", "n8"), Plate("n17", "x"),
                     Plate("x", "n9"), Plate("", "x"), Plate(Absent, "x"),
                     Plate("x", Null), Plate(Other, "x")}),
     location |-> Json(MCObjects),
     metadata |-> Json(MCObjects)]

Bodies ==
    UNION {{[Ordinary EXCEPT ![f] = v, ![g] = w] : v \in Variations[f], w \in Variations[g]} :
             f, g \in Fields}

Request(body) ==
    [method |-> "POST", key |-> "x", media |-> "application/json",
     declaredTooLarge |-> FALSE, framing |-> "object", body |-> body]

Requests ==
    {Request(body) : body \in Bodies}
    \cup {[Request(body) EXCEPT !.method = m, !.key = k, !.media = t,
                                !.declaredTooLarge = l, !.framing = f] :
            m \in {"POST", "GET"}, k \in {"", "x", "fee"}, l \in BOOLEAN, f \in Framings,
            t \in {"application/json", "text/plain"},
            body \in {Ordinary, [Ordinary EXCEPT !["base_amount"] = "1e2"]}}

Configs ==
    [AuthMode: {"disabled", "api_key"}, APIKey: {"x"},
     TransactionTypes: {{"toll"}, {"toll", "fee"}, {"fee"}}, DefaultCurrency: {"USD", "n8"}]

-----------------------------------------------------------------------------
(* Environments that differ from an empty one in up to three variables of  *)
(* Kafka or two of any kind.                                               *)
Values ==
    [v \in Variables |->
        CASE v = "AUTH_MODE" -> {"disabled", "api_key", "x"}
          [] v = "DEFAULT_CURRENCY" -> {"USD", "n8", "n9"}
          [] v = "TRANSACTION_TYPES" -> {" ", "fee", "toll,fee"}
          [] v = "STORE_DRIVER" -> {"memory", "ndjson", "postgres", "x"}
          [] v = "KAFKA_BROKERS" -> {" ", "b:1", "b:1,c:2", ",c:2"}
          [] v = "KAFKA_TLS" -> {"true", "0", "x"}
          [] v = "KAFKA_CA_FILE" -> {"x", "n8"}
          [] v \in {"KAFKA_TOPIC_PARTITIONS", "KAFKA_TOPIC_REPLICATION",
                    "KAFKA_TOPIC_RETENTION"} -> {"x", "n8"}
          [] OTHER -> {"x"}]

Unset == [v \in Variables |-> ""]

KafkaVariables ==
    {"KAFKA_BROKERS", "KAFKA_TOPIC", "KAFKA_TLS", "KAFKA_CA_FILE", "KAFKA_SASL_USERNAME",
     "KAFKA_SASL_PASSWORD"}

Environments ==
    UNION {{[Unset EXCEPT ![v] = a, ![w] = b] : a \in Values[v], b \in Values[w]} :
             v, w \in Variables}
    \cup
    UNION {{[Unset EXCEPT !["KAFKA_BROKERS"] = "b:1,c:2", ![u] = a, ![v] = b, ![w] = c] :
              a \in Values[u], b \in Values[v], c \in Values[w]} :
             u, v, w \in KafkaVariables}

(* What the secret may hold.                                               *)
SecretValues ==
    {Unset, [Unset EXCEPT !["KAFKA_SASL_USERNAME"] = "x", !["KAFKA_SASL_PASSWORD"] = "x"],
     [Unset EXCEPT !["API_KEY"] = "x", !["PARTNER_ID"] = "x", !["KAFKA_BROKERS"] = "b:1"]}

-----------------------------------------------------------------------------
Strings == UNION {[1..n -> Characters] : n \in 0..LastCharacter}

Init ==
    \/ \E base, max \in Delays :
          case = [kind |-> "delay", attempt |-> 1, base |-> base, max |-> max]
    \/ \E t \in 0..LastInstant : case = [kind |-> "instants", t |-> t, u |-> 0]
    \/ \E p, q \in Strings \X Strings : case = [kind |-> "identities", p |-> p, q |-> q]
    \/ \E r \in Requests : \E c \in Configs :
          case = [kind |-> "request", request |-> r, config |-> c]
    \/ \E e \in Environments :
          case = [kind |-> "environment", env |-> e, secret |-> Unset]

NextAttempt ==
    /\ case.kind = "delay"
    /\ case.attempt < LastAttempt
    /\ case' = [case EXCEPT !.attempt = @ + 1]

NextInstant ==
    /\ case.kind = "instants"
    /\ case.u < LastInstant
    /\ case' = [case EXCEPT !.u = @ + 1]

(* The service is deployed again with other settings.                      *)
Redeploy ==
    /\ case.kind = "request"
    /\ \E c \in Configs : case' = [case EXCEPT !.config = c]

(* The secret moves to a file.                                             *)
ProvideSecret ==
    /\ case.kind = "environment"
    /\ case.env["LOCAL_SECRET_FILE"] = ""
    /\ \E s \in SecretValues \cup {Refused} :
          case' = [case EXCEPT !.env["LOCAL_SECRET_FILE"] = "x", !.secret = s]

Next == NextAttempt \/ NextInstant \/ Redeploy \/ ProvideSecret

Spec == Init /\ [][Next]_vars

-----------------------------------------------------------------------------
(* The n-th delay is BaseDelay * 2^(n-1) cut at MaxDelay, and BaseDelay    *)
(* itself when that is the larger of the two: the early exits of the loop  *)
(* in retryDelay lose no doubling, add none and never overshoot.           *)
DelayIsCappedPower ==
    case.kind = "delay" =>
        LET base == case.base
            max  == case.max
        IN  B!retryDelay(case.attempt, base, max) =
                IF base >= max THEN base ELSE Min({max, base * 2^(case.attempt - 1)})

(* Comparing the strings of timestamp() compares the instants, as long as  *)
(* they lie in different seconds or show the same number of decimals: the  *)
(* dropped zeros can mislead a lease or a retry within one second only.    *)
OrderFailsWithinSecondOnly ==
    case.kind = "instants" /\ (T!NotAfter(case.t, case.u) # (case.t <= case.u)) =>
        /\ case.t \div T!Second = case.u \div T!Second
        /\ T!Decimals(case.t) # T!Decimals(case.u)

(* Two identities share a key of the local stores or of DynamoDB only if   *)
(* the source of one of them contains the separator.                       *)
KeysAreUnambiguous ==
    case.kind = "identities" /\ case.p # case.q
      /\ ~ Contains(case.p[1], Separator) /\ ~ Contains(case.q[1], Separator) =>
        K!key(case.p[1], case.p[2], Separator) # K!key(case.q[1], case.q[2], Separator)

(* A request passes toDomain and Validate exactly if its body meets the    *)
(* published schema under the configured types; what is refused for its    *)
(* wording only is refused with 400.                                       *)
AcceptsTheContract ==
    case.kind = "request" /\ case.request.framing = "object" =>
        /\ Decision(case.request, case.config) = 200 =>
              MeetsContract(case.request.body, case.config.TransactionTypes)
        /\ MeetsContract(case.request.body, case.config.TransactionTypes) =>
              Decision(case.request, case.config) # 400

(* A retry is judged like the request it repeats although the service was  *)
(* deployed again in between with another default currency or other types, *)
(* provided that it names its currency and that its type and its key are   *)
(* as good as before: same decision, and same fingerprint if accepted.     *)
StableUnderRedeploy ==
    [][LET r == case.request
           before == case.config
           after  == case'.config
       IN  /\ case.kind = "request"
           /\ r.body["currency"] \in Texts
           /\ r.body["transaction_type"] \in before.TransactionTypes
                <=> r.body["transaction_type"] \in after.TransactionTypes
           /\ Authenticate(r.key, before) = Authenticate(r.key, after)
           =>
           /\ Decision(r, before) = Decision(r, after)
           /\ Decision(r, before) = 200 =>
                Fingerprint(toDomain(r.body, before)) = Fingerprint(toDomain(r.body, after))]_vars

(* Whatever LoadConfig lets pass can serve: an ordinary request of a       *)
(* configured type that relies on the default currency is not refused.     *)
DefaultsAreAcceptable ==
    case.kind = "environment" =>
        LET config == ServiceConfig(case.env, case.secret, "local")
        IN  config # Refused =>
                \A type \in config.TransactionTypes :
                    Decision([Request([Ordinary EXCEPT !["transaction_type"] = type])
                                 EXCEPT !.key = config.APIKey], config) = 200

(* From one environment and secret the worker and the tool that creates    *)
(* its topic come to the same end, although each parses them for itself:   *)
(* both can connect or neither can, and they mean the same topic and one   *)
(* of the same brokers; only the tool insists on a broker in first place   *)
(* and on its own three settings.                                          *)
ToolsAgree ==
    case.kind = "environment" =>
        LET env    == Configured(case.env, case.secret)
            config == ServiceConfig(case.env, case.secret, "worker")
            topic  == TopicSettings(env)
        IN  config # Refused =>
                /\ topic # Refused <=>
                      /\ NewWriter(config)
                      /\ TopicOnly(env)
                      /\ Items[env["KAFKA_BROKERS"]][1] # ""
                /\ topic # Refused =>
                      /\ topic.Topic = config.KafkaTopic
                      /\ topic.Broker \in config.KafkaBrokers

=============================================================================
