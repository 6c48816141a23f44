---------------------------- MODULE Configuration ----------------------------
(***************************************************************************)
(* From the environment and the secrets to what a process runs with: the   *)
(* service (LoadConfig, newDispatcher) and the tool that creates the topic *)
(* (loadTopicSettings) read the same variables with code of their own.     *)
(***************************************************************************)
EXTENDS Naturals, Sequences

CONSTANTS
    Texts,       \* strings
    Runes,       \* Runes[t]: how many characters t has
    Items,       \* Items[t]: t split at commas, each part trimmed
    Truths,      \* strings that ParseBool takes for true
    Falsehoods,  \* ... and for false
    Positive,    \* strings that are positive integers
    Durations,   \* strings that are positive durations
    Certified,   \* paths of files with certificates
    Refused      \* instead of a result: the process ends with an error

Variables ==
    {"AUTH_MODE", "PARTNER_ID", "API_KEY", "DEFAULT_CURRENCY", "TRANSACTION_TYPES",
     "STORE_DRIVER", "POSTGRES_URL", "LOCAL_SECRET_FILE", "AWS_SECRET_ID",
     "KAFKA_BROKERS", "KAFKA_TOPIC", "KAFKA_TLS", "KAFKA_CA_FILE",
     "KAFKA_SASL_USERNAME", "KAFKA_SASL_PASSWORD", "KAFKA_TOPIC_PARTITIONS",
     "KAFKA_TOPIC_REPLICATION", "KAFKA_TOPIC_RETENTION"}

ASSUME ConfigurationAssumption ==
    /\ {"", "USD", "toll", "disabled", "api_key", "localhost:9092"} \subseteq Texts
    /\ Runes \in [Texts -> Nat]
    /\ Runes["USD"] = 3
    /\ Items \in [Texts -> Seq(Texts)]

Or(text, default) == IF text = "" THEN default ELSE text

Listed(text) == {item \in {Items[text][k] : k \in DOMAIN Items[text]} : item # ""}

-----------------------------------------------------------------------------
(* A secret fills in what the environment leaves open; secret is Refused   *)
(* if its provider cannot load it.                                         *)
Overlay(env, secret) == [v \in Variables |-> Or(env[v], secret[v])]

Configured(env, secret) ==
    CASE env["LOCAL_SECRET_FILE"] # "" /\ env["AWS_SECRET_ID"] # "" -> Refused
      [] env["LOCAL_SECRET_FILE"] = "" /\ env["AWS_SECRET_ID"] = "" -> env
      [] OTHER -> IF secret = Refused THEN Refused ELSE Overlay(env, secret)

(* Mutant of CurrencyFits: no limit.                                       *)
CurrencyFitsAlways(currency) == currency # ""

CurrencyFits(currency) == Runes[currency] <= 8

Loads(env) ==
    /\ Or(env["AUTH_MODE"], "disabled") \in {"disabled", "api_key"}
    /\ env["AUTH_MODE"] = "api_key" => env["PARTNER_ID"] # "" /\ env["API_KEY"] # ""
    /\ CurrencyFits(Or(env["DEFAULT_CURRENCY"], "USD"))
    /\ Listed(Or(env["KAFKA_BROKERS"], "localhost:9092")) # {}
    /\ Or(env["STORE_DRIVER"], "memory") \in {"memory", "ndjson", "dynamodb", "postgres"}
    /\ env["STORE_DRIVER"] = "postgres" => env["POSTGRES_URL"] # ""
    /\ env["KAFKA_TLS"] \in Truths \cup Falsehoods \cup {""}

Security(env) ==
    [TLS |-> env["KAFKA_TLS"] \in Truths, CAFile |-> env["KAFKA_CA_FILE"],
     SASLUsername |-> env["KAFKA_SASL_USERNAME"], SASLPassword |-> env["KAFKA_SASL_PASSWORD"]]

DefaultTopic == "transaction.review-candidates.v1"

LoadConfig(env) ==
    IF ~ Loads(env) THEN Refused ELSE
    [AuthMode |-> Or(env["AUTH_MODE"], "disabled"),
     PartnerID |-> env["PARTNER_ID"],
     APIKey |-> env["API_KEY"],
     DefaultCurrency |-> Or(env["DEFAULT_CURRENCY"], "USD"),
     TransactionTypes |-> IF Listed(env["TRANSACTION_TYPES"]) = {} THEN {"toll"}
                          ELSE Listed(env["TRANSACTION_TYPES"]),
     StoreDriver |-> Or(env["STORE_DRIVER"], "memory"),
     KafkaBrokers |-> Listed(Or(env["KAFKA_BROKERS"], "localhost:9092")),
     KafkaTopic |-> Or(env["KAFKA_TOPIC"], DefaultTopic),
     KafkaSecurity |-> Security(env)]

(* runWithAWSProvider up to the starter of the mode.                       *)
ServiceConfig(env, secret, mode) ==
    LET lookup == Configured(env, secret)
        config == IF lookup = Refused THEN Refused ELSE LoadConfig(lookup)
    IN  IF config # Refused /\ config.StoreDriver = "ndjson" /\ mode # "local"
        THEN Refused ELSE config

-----------------------------------------------------------------------------
(* Mutant of kafkaSecurity: a CA file without TLS is ignored.              *)
kafkaSecurityIgnoresCA(security) ==
    /\ security.SASLUsername = "" <=> security.SASLPassword = ""
    /\ security.SASLUsername # "" => security.TLS
    /\ security.TLS /\ security.CAFile # "" => security.CAFile \in Certified

(* What a connection to Kafka, the writer's or the tool's, insists on.     *)
kafkaSecurity(security) ==
    /\ security.SASLUsername = "" <=> security.SASLPassword = ""
    /\ security.SASLUsername # "" => security.TLS
    /\ security.CAFile # "" => security.TLS /\ security.CAFile \in Certified

NewWriter(config) ==
    /\ config.KafkaBrokers # {}
    /\ config.KafkaTopic # ""
    /\ kafkaSecurity(config.KafkaSecurity)

TopicOnly(env) ==
    /\ env["KAFKA_TOPIC_PARTITIONS"] \in Positive \cup {""}
    /\ env["KAFKA_TOPIC_REPLICATION"] \in Positive \cup {""}
    /\ env["KAFKA_TOPIC_RETENTION"] \in Durations \cup {""}

loadTopicSettings(env) ==
    LET security == Security(env)
    IN  IF /\ Items[env["KAFKA_BROKERS"]][1] # ""
           /\ TopicOnly(env)
           /\ env["KAFKA_TLS"] \in Truths \cup Falsehoods \cup {""}
           /\ security.SASLUsername = "" <=> security.SASLPassword = ""
           /\ security.SASLUsername # "" \/ security.CAFile # "" => security.TLS
        THEN [Broker |-> Items[env["KAFKA_BROKERS"]][1],
              Topic |-> Or(env["KAFKA_TOPIC"], DefaultTopic),
              Security |-> security]
        ELSE Refused

(* loadTopicSettings and secureKafkaDial.                                  *)
TopicSettings(env) ==
    LET settings == loadTopicSettings(env)
    IN  IF settings # Refused /\ kafkaSecurity(settings.Security) THEN settings
                                                                 ELSE Refused

=============================================================================
