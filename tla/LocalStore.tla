----------------------------- MODULE LocalStore -----------------------------
(***************************************************************************)
(* The stores of the combined local process, memory and NDJSON: two maps   *)
(* behind one mutex, so that every operation is one step.  The NDJSON      *)
(* store appends a record to its log before it applies it to the maps, and *)
(* rebuilds the maps from the log when it is opened.                       *)
(***************************************************************************)
EXTENDS Ports

CONSTANTS
    Keys,          \* strings source + ":" + source_reference
    Key,           \* Key[i]: the string of identity i
    Rank,          \* Rank[e]: place of event ID e in string order
    Drivers,       \* the stores to choose from
    AppendFaults   \* what a failing append may leave in the log

ASSUME LocalStoreAssumption ==
    /\ Key \in [Identities -> Keys]
    /\ Rank \in [Requests -> Nat]
    /\ \A d, e \in Requests : Rank[d] = Rank[e] => d = e
    /\ Drivers \subseteq {"memory", "ndjson"}
    /\ AppendFaults \subseteq {"nothing", "unsynced", "torn"}

VARIABLES
    driver,   \* STORE_DRIVER
    memory,   \* the maps transactions and events of the open store
    log       \* the records of the NDJSON file

(* Only the NDJSON store keeps a log.                                      *)
Durable == driver = "ndjson"

NoTransaction == [id |-> NoId, fingerprint |-> <<>>]

(* storedEvent; a zero time is 0, never later than the clock.              *)
NewEvent == [known |-> TRUE, attempts |-> 0, retryAt |-> 0, leaseUntil |-> 0,
             claimToken |-> NoToken, published |-> FALSE, terminal |-> FALSE]

Empty == [transactions |-> [k \in Keys |-> NoTransaction],
          events |-> [e \in Requests |-> [NewEvent EXCEPT !.known = FALSE]]]

Memories ==
    [transactions: [Keys -> [id: Requests, fingerprint: Fingerprints] \cup {NoTransaction}],
     events: [Requests -> [known: BOOLEAN, attempts: Nat, retryAt: Nat,
                           leaseUntil: Nat, claimToken: Tokens \cup {NoToken},
                           published: BOOLEAN, terminal: BOOLEAN]]]

(* logRecord; Torn is a line that does not decode.  What is appended to a  *)
(* torn line is part of that line: the log cannot be read in either case.  *)
AcceptedRecord(a)  == [kind |-> "accepted", of |-> a]
FailedRecord(f)    == [kind |-> "failed", of |-> f]
PublishedRecord(e) == [kind |-> "published", of |-> e]
Torn               == [kind |-> "torn"]

LogRecords ==
    [kind: {"accepted"}, of: Acceptances]
        \cup [kind: {"failed"}, of: Failures]
        \cup [kind: {"published"}, of: Requests]
        \cup {Torn}

-----------------------------------------------------------------------------
(* Mutant of Apply: a failure is applied without its terminal flag.        *)
ApplyWithoutTerminal(m, record) ==
    CASE record.kind = "accepted" ->
           [transactions |-> [m.transactions EXCEPT ![Key[record.of.identity]] =
                                [id |-> record.of.id,
                                 fingerprint |-> record.of.fingerprint]],
            events |-> [m.events EXCEPT ![record.of.id] = NewEvent]]
      [] record.kind = "failed" ->
           [m EXCEPT !.events[record.of.event] =
              [@ EXCEPT !.attempts = record.of.attempts, !.retryAt = record.of.retry_at,
                        !.leaseUntil = 0, !.claimToken = NoToken]]
      [] record.kind = "published" ->
           [m EXCEPT !.events[record.of] =
              [@ EXCEPT !.published = TRUE, !.leaseUntil = 0, !.claimToken = NoToken]]

(* Store.apply: the effect of a record on the maps.                        *)
Apply(m, record) ==
    CASE record.kind = "accepted" ->
           [transactions |-> [m.transactions EXCEPT ![Key[record.of.identity]] =
                                [id |-> record.of.id,
                                 fingerprint |-> record.of.fingerprint]],
            events |-> [m.events EXCEPT ![record.of.id] = NewEvent]]
      [] record.kind = "failed" ->
           [m EXCEPT !.events[record.of.event] =
              [@ EXCEPT !.attempts = record.of.attempts, !.retryAt = record.of.retry_at,
                        !.terminal = record.of.terminal,
                        !.leaseUntil = 0, !.claimToken = NoToken]]
      [] record.kind = "published" ->
           [m EXCEPT !.events[record.of] =
              [@ EXCEPT !.published = TRUE, !.leaseUntil = 0, !.claimToken = NoToken]]

(* Events that a prefix of the log has introduced.                         *)
Introduced(lines) ==
    {lines[n].of.id : n \in {k \in DOMAIN lines : lines[k].kind = "accepted"}}

(* NewStore reads the log to its end: every line decodes, and every        *)
(* outcome refers to an event that an earlier line introduced.             *)
Readable(lines) ==
    \A n \in DOMAIN lines :
        LET before == Introduced(SubSeq(lines, 1, n - 1))
        IN  /\ lines[n] # Torn
            /\ lines[n].kind = "failed" => lines[n].of.event \in before
            /\ lines[n].kind = "published" => lines[n].of \in before

Replay(lines) ==
    LET after[n \in 0..Len(lines)] ==
          IF n = 0 THEN Empty ELSE Apply(after[n - 1], lines[n])
    IN  after[Len(lines)]

NewStore ==
    /\ Readable(log)
    /\ memory' = Replay(log)
    /\ UNCHANGED log

(* What an append that fails may leave behind: nothing (open, chmod or     *)
(* write failed), the whole record (Sync failed) or a part of it.          *)
Leftovers(record) ==
    {lines \in {<<>>, <<record>>, <<Torn>>} :
        \/ lines = <<>> /\ "nothing" \in AppendFaults
        \/ lines = <<record>> /\ "unsynced" \in AppendFaults
        \/ lines = <<Torn>> /\ "torn" \in AppendFaults}

(* Append, then apply.                                                     *)
Write(record) ==
    /\ log' = IF Durable THEN Append(log, record) ELSE log
    /\ memory' = Apply(memory, record)

(* The append fails: the error is returned before the record is applied.   *)
WriteFails(record) ==
    /\ Durable
    /\ \E lines \in Leftovers(record) : log' = log \o lines
    /\ UNCHANGED memory

-----------------------------------------------------------------------------
(* Accept.                                                                 *)

Existing(a) == memory.transactions[Key[a.identity]]

Known(a) == Existing(a) # NoTransaction

KnownOutcome(a) ==
    IF Existing(a).fingerprint = a.fingerprint THEN StoreReplay(Existing(a).id)
                                               ELSE StoreConflict

-----------------------------------------------------------------------------
(* The outbox port.                                                        *)

Claimable(now) ==
    {e \in Requests : /\ memory.events[e].known
                      /\ ~ memory.events[e].published
                      /\ ~ memory.events[e].terminal
                      /\ memory.events[e].retryAt <= now
                      /\ memory.events[e].leaseUntil <= now}

EventsOf(events) == {events[k] : k \in DOMAIN events}

(* The first claimable events in the order of their IDs: always one        *)
(* sequence, of all claimable events unless the limit cuts it off.         *)
Selected(now, limit) ==
    {events \in UNION {[1..n -> Claimable(now)] : n \in 0..limit} :
        /\ \A j, k \in DOMAIN events : j < k => Rank[events[j]] < Rank[events[k]]
        /\ \A e \in Claimable(now) \ EventsOf(events) :
              /\ Len(events) = limit
              /\ \A k \in DOMAIN events : Rank[events[k]] < Rank[e]}

(* Mutant of ClaimPending: the token is returned but not kept.             *)
ClaimPendingTokenNotKept(now, lease, token, events) ==
    /\ memory' = [memory EXCEPT !.events = [e \in Requests |->
                    IF e \in EventsOf(events)
                    THEN [@[e] EXCEPT !.leaseUntil = now + lease] ELSE @[e]]]
    /\ UNCHANGED log

(* Claims are never logged.  The code draws one token per event; tokens    *)
(* are only compared for one event, so one per batch is the same.          *)
ClaimPending(now, lease, token, events) ==
    /\ memory' = [memory EXCEPT !.events = [e \in Requests |->
                    IF e \in EventsOf(events)
                    THEN [@[e] EXCEPT !.leaseUntil = now + lease,
                                      !.claimToken = token]
                    ELSE @[e]]]
    /\ UNCHANGED log

PendingOf(events, token) ==
    [k \in DOMAIN events |-> [event    |-> events[k],
                              attempts |-> memory.events[events[k]].attempts,
                              token    |-> token]]

ClaimHeld(event, token) ==
    /\ memory.events[event].known
    /\ memory.events[event].claimToken # NoToken
    /\ memory.events[event].claimToken = token

=============================================================================
