------------------------------- MODULE Ingest -------------------------------
(***************************************************************************)
(* What handler.transactions decides about one request before the store is *)
(* asked: the order of its refusals, toDomain, Validate and Fingerprint.   *)
(***************************************************************************)
EXTENDS Configuration

CONSTANTS
    Absent, Null, Other,   \* a field that is not there, is null, has another type
    Blank,                 \* strings of nothing but spaces, "" included
    Amounts,               \* strings that are decimal numbers
    Times,                 \* strings that are RFC 3339 times
    Instant,               \* Instant[t]: the instant of t
    Offset,                \* Offset[t]: its offset from UTC
    ZeroTime,              \* the instant that stands for "not set"
    Objects,               \* JSON objects of any content
    Canonical              \* Canonical[o]: o with sorted keys, without spaces

ASSUME IngestAssumption ==
    /\ {Absent, Null, Other} \cap (Texts \cup Objects) = {}
    /\ {Absent, Null, Other} \cap
         [number: Texts \cup {Absent, Null, Other},
          jurisdiction: Texts \cup {Absent, Null, Other}] = {}
    /\ Absent # Null /\ Absent # Other /\ Null # Other
    /\ Times \subseteq Texts
    /\ \A t \in Texts : Runes[t] = 0 <=> t = ""
    /\ "" \in Blank

(* A field where a value of S belongs.                                     *)
Json(S) == S \cup {Absent, Null, Other}

Plates == [number: Json(Texts), jurisdiction: Json(Texts)]

RequiredStrings ==
    {"source", "source_reference", "transaction_type", "transaction_time_utc",
     "base_amount"}

OptionalStrings == {"currency", "transponder_number"}

OptionalObjects == {"location", "metadata"}

(* One JSON object whose other fields are ignored.                         *)
Fields == RequiredStrings \cup OptionalStrings \cup OptionalObjects \cup {"plate"}

-----------------------------------------------------------------------------
(* Mutant of Currency: an empty string counts as no currency.              *)
CurrencyIfNotEmpty(body, config) ==
    IF body["currency"] \in Texts \ {""} THEN body["currency"] ELSE config.DefaultCurrency

Currency(body, config) ==
    IF body["currency"] \in Texts THEN body["currency"] ELSE config.DefaultCurrency

(* toDomain returns no error.                                              *)
Decodes(body, config) ==
    /\ \A f \in RequiredStrings : body[f] \in Texts
    /\ body["transaction_time_utc"] \in Times
    /\ Offset[body["transaction_time_utc"]] = 0
    /\ \A f \in OptionalStrings : body[f] \in Texts \cup {Absent, Null}
    /\ Runes[Currency(body, config)] <= 8
    /\ body["plate"] \in [number: Texts, jurisdiction: Texts] \cup {Absent}
    /\ \A f \in OptionalObjects : body[f] \in Objects \cup {Absent}

toDomain(body, config) ==
    [Source |-> body["source"], SourceReference |-> body["source_reference"],
     TransactionType |-> body["transaction_type"],
     TransactionTimeUTC |-> Instant[body["transaction_time_utc"]],
     BaseAmount |-> body["base_amount"], Currency |-> Currency(body, config),
     Plate |-> body["plate"],
     TransponderNumber |-> IF body["transponder_number"] \in Texts
                           THEN body["transponder_number"] ELSE "",
     Location |-> body["location"], Metadata |-> body["metadata"]]

validBounded(text, min, max) == Runes[text] \in min..max

(* Mutant of HasIdentifier: spaces pass for a transponder number.          *)
HasIdentifierUntrimmed(t) ==
    t.Plate # Absent \/ t.TransponderNumber # ""

HasIdentifier(t) ==
    t.Plate # Absent \/ t.TransponderNumber \notin Blank

Validate(t, types) ==
    /\ validBounded(t.Source, 1, 64)
    /\ validBounded(t.SourceReference, 1, 128)
    /\ t.TransactionType # ""
    /\ t.TransactionType \in types
    /\ t.TransactionTimeUTC # ZeroTime
    /\ t.BaseAmount \in Amounts
    /\ Runes[t.Currency] <= 8
    /\ HasIdentifier(t)
    /\ t.Plate # Absent => /\ validBounded(t.Plate.number, 1, 16)
                           /\ validBounded(t.Plate.jurisdiction, 1, 8)
    /\ Runes[t.TransponderNumber] <= 64

canonicalObject(object) == IF object = Absent THEN Absent ELSE Canonical[object]

(* What is hashed: the instant in one notation, objects in canonical form. *)
Fingerprint(t) ==
    [t EXCEPT !.Location = canonicalObject(@), !.Metadata = canonicalObject(@)]

-----------------------------------------------------------------------------
Authenticate(key, config) ==
    config.AuthMode = "disabled" \/ (key # "" /\ key = config.APIKey)

(* How the body ends.  "padded": the limit is met behind the object.       *)
Framings == {"object", "malformed", "oversized", "second value", "padded"}

(* The refusals in the order in which they are tried.                      *)
Stages(r, config) ==
    << [status |-> 405, passed |-> r.method = "POST"],
       [status |-> 401, passed |-> Authenticate(r.key, config)],
       [status |-> 415, passed |-> r.media = "application/json"],
       [status |-> 413, passed |-> ~ r.declaredTooLarge],
       [status |-> 413, passed |-> r.framing # "oversized"],
       [status |-> 400, passed |-> r.framing = "object"],
       [status |-> 400, passed |-> Decodes(r.body, config)],
       [status |-> 400, passed |-> Decodes(r.body, config) =>
                          Validate(toDomain(r.body, config), config.TransactionTypes)] >>

(* The status of the refusal, or 200 if the store decides.                 *)
Decision(r, config) ==
    LET stages  == Stages(r, config)
        refused == {k \in DOMAIN stages : ~ stages[k].passed}
    IN  IF refused = {} THEN 200
        ELSE stages[CHOOSE k \in refused : \A j \in refused : k <= j].status

-----------------------------------------------------------------------------
(* The published schema, field by field.                                   *)
Schema ==
    [source             |-> [required |-> TRUE,  nullable |-> FALSE, length |-> 1..64],
     source_reference   |-> [required |-> TRUE,  nullable |-> FALSE, length |-> 1..128],
     transponder_number |-> [required |-> FALSE, nullable |-> TRUE,  length |-> 0..64],
     currency           |-> [required |-> FALSE, nullable |-> TRUE,  length |-> 0..8]]

Conforms(value, field) ==
    \/ value = Absent /\ ~ field.required
    \/ value = Null /\ field.nullable
    \/ value \in Texts /\ Runes[value] \in field.length

MeetsContract(body, types) ==
    /\ \A f \in DOMAIN Schema : Conforms(body[f], Schema[f])
    /\ body["transaction_type"] \in types
    /\ body["transaction_time_utc"] \in {t \in Times : Offset[t] = 0 /\ Instant[t] # ZeroTime}
    /\ body["base_amount"] \in Amounts
    /\ body["plate"] \in {p \in [number: Texts, jurisdiction: Texts] :
                            Runes[p.number] \in 1..16 /\ Runes[p.jurisdiction] \in 1..8}
                         \cup {Absent}
    /\ \A f \in OptionalObjects : body[f] \in Objects \cup {Absent}
    /\ body["plate"] # Absent \/ body["transponder_number"] \in Texts \ Blank

=============================================================================
