---------------------------- MODULE LocalProofs -----------------------------
(***************************************************************************)
(* Proofs about mode "local", for every set of requests, identities,       *)
(* bodies and tokens, every order of the IDs, either store and every       *)
(* setting of the Dispatcher.                                              *)
(***************************************************************************)
EXTENDS LocalService, CoreProofs, SequenceTheorems

-----------------------------------------------------------------------------
(* Replay.  What NewStore makes of a log, by induction over its lines.     *)

After(f, lines, n) ==
    f = [k \in 0..n |-> IF k = 0 THEN Empty ELSE Apply(f[k - 1], lines[k])]

(* The maps after each line of the log are well defined.                   *)
LEMMA AfterExists ==
    ASSUME NEW lines, NEW n \in Nat
    PROVE  \E f : After(f, lines, n)
  <1> DEFINE S == {k \in Nat : ~ \E f : After(f, lines, k)}
  <1>1. SUFFICES ASSUME S # {} PROVE FALSE
    OBVIOUS
  <1>2. PICK m \in S : \A k \in S : m <= k
    <2>1. S \in SUBSET Nat
      OBVIOUS
    <2> HIDE DEF S
    <2> QED
      BY <1>1, <2>1, LeastElement
  <1>3. m \in Nat /\ ~ \E f : After(f, lines, m)
    BY <1>2
  <1>4. CASE m = 0
    <2> DEFINE f == [k \in 0..0 |-> Empty]
    <2>1. \A k \in 0..0 : k = 0
      OBVIOUS
    <2>2. f = [k \in 0..0 |-> IF k = 0 THEN Empty ELSE Apply(f[k - 1], lines[k])]
      BY <2>1
    <2> QED
      BY <1>3, <1>4, <2>2 DEF After
  <1>5. CASE m # 0
    <2>1. m - 1 \in Nat /\ m - 1 \notin S
      BY <1>2, <1>3, <1>5
    <2>2. PICK f : After(f, lines, m - 1)
      BY <2>1
    <2> DEFINE g == [k \in 0..m |-> IF k = m THEN Apply(f[m - 1], lines[m]) ELSE f[k]]
    <2>3. ASSUME NEW k \in 0..m
          PROVE  g[k] = IF k = 0 THEN Empty ELSE Apply(g[k - 1], lines[k])
      <3>1. CASE k = m
        <4>1. m - 1 \in 0..m /\ m - 1 # m
          BY <1>3, <1>5
        <4>2. g[m - 1] = f[m - 1]
          BY <4>1
        <4> QED
          BY <1>5, <3>1, <4>2
      <3>2. CASE k # m
        <4>1. k \in 0..(m - 1)
          BY <1>3, <3>2
        <4>2. f[k] = IF k = 0 THEN Empty ELSE Apply(f[k - 1], lines[k])
          BY <2>2, <4>1 DEF After
        <4>3. k # 0 => k - 1 \in 0..m /\ k - 1 # m
          BY <1>3, <4>1
        <4> QED
          BY <3>2, <4>2, <4>3
      <3> QED
        BY <3>1, <3>2
    <2>4. g = [k \in 0..m |-> IF k = 0 THEN Empty ELSE Apply(g[k - 1], lines[k])]
      <3> HIDE DEF g
      <3>1. \E h : g = [k \in 0..m |-> h[k]]
        BY DEF g
      <3> QED
        BY <2>3, <3>1
    <2> HIDE DEF g
    <2> QED
      BY <1>3, <2>4 DEF After
  <1> QED
    BY <1>4, <1>5

(* Replay goes through the log line by line.                               *)
LEMMA ReplayLineByLine ==
    ASSUME NEW lines
    PROVE  Len(lines) \in Nat =>
             \E f : After(f, lines, Len(lines)) /\ Replay(lines) = f[Len(lines)]
  <1> SUFFICES ASSUME Len(lines) \in Nat
               PROVE  \E f : After(f, lines, Len(lines)) /\ Replay(lines) = f[Len(lines)]
    OBVIOUS
  <1>1. PICK n \in Nat : n = Len(lines)
    OBVIOUS
  <1>2. \E f : After(f, lines, n)
    BY AfterExists
  <1> DEFINE after == CHOOSE f : After(f, lines, n)
  <1>3. After(after, lines, n)
    BY <1>2
  <1>4. Replay(lines) = after[n]
    BY <1>1 DEF Replay, After
  <1> QED
    BY <1>1, <1>3, <1>4

(* A set of maps that contains the empty ones and is closed under the      *)
(* records of a log contains what the log leads to.                        *)
LEMMA ReplayIn ==
    ASSUME NEW M, NEW lines, Len(lines) \in Nat, Empty \in M,
           \A m \in M : \A k \in 1..Len(lines) : Apply(m, lines[k]) \in M
    PROVE  Replay(lines) \in M
  <1>1. PICK f : After(f, lines, Len(lines)) /\ Replay(lines) = f[Len(lines)]
    BY ReplayLineByLine
  <1>2. PICK n \in Nat : n = Len(lines)
    OBVIOUS
  <1>3. \A k \in 0..n : f[k] = IF k = 0 THEN Empty ELSE Apply(f[k - 1], lines[k])
    BY <1>1, <1>2 DEF After
  <1> DEFINE S == {k \in 0..n : f[k] \notin M}
  <1>4. SUFFICES ASSUME S # {} PROVE FALSE
    BY <1>1, <1>2
  <1>5. PICK m \in S : \A k \in S : m <= k
    <2>1. S \in SUBSET Nat
      OBVIOUS
    <2> HIDE DEF S
    <2> QED
      BY <1>4, <2>1, LeastElement
  <1>6. m \in 0..n /\ f[m] \notin M
    BY <1>5
  <1>7. m # 0
    BY <1>3, <1>6
  <1>8. m - 1 \in 0..n /\ m - 1 \notin S
    BY <1>5, <1>6, <1>7
  <1>9. f[m - 1] \in M
    BY <1>8
  <1>10. f[m] = Apply(f[m - 1], lines[m])
    BY <1>3, <1>6, <1>7
  <1>11. m \in 1..n
    BY <1>6, <1>7
  <1> QED
    BY <1>2, <1>6, <1>9, <1>10, <1>11

(* An empty log gives empty maps, and one more record is applied last.     *)
LEMMA ReplayEmpty == Replay(<<>>) = Empty
  <1>1. PICK f : After(f, <<>>, 0) /\ Replay(<<>>) = f[0]
    BY ReplayLineByLine
  <1> QED
    BY <1>1 DEF After

(* Replaying one more line applies it to what the lines before gave.       *)
LEMMA ReplayAppend ==
    ASSUME NEW T, NEW lines \in Seq(T), NEW record \in T
    PROVE  Replay(Append(lines, record)) = Apply(Replay(lines), record)
  <1> DEFINE longer == Append(lines, record)
  <1>1. PICK n \in Nat : n = Len(lines)
    OBVIOUS
  <1>2. /\ Len(longer) = n + 1
        /\ longer[n + 1] = record
        /\ \A k \in 1..n : longer[k] = lines[k]
    BY <1>1
  <1> HIDE DEF longer
  <1>3. PICK f : After(f, lines, n) /\ Replay(lines) = f[n]
    BY <1>1, ReplayLineByLine
  <1>4. PICK g : After(g, longer, n + 1) /\ Replay(longer) = g[n + 1]
    BY <1>2, ReplayLineByLine
  <1>5. \A k \in 0..n : f[k] = IF k = 0 THEN Empty ELSE Apply(f[k - 1], lines[k])
    BY <1>3 DEF After
  <1>6. \A k \in 0..(n + 1) : g[k] = IF k = 0 THEN Empty ELSE Apply(g[k - 1], longer[k])
    BY <1>4 DEF After
  <1> DEFINE S == {k \in 0..n : g[k] # f[k]}
  <1>7. S = {}
    <2>1. SUFFICES ASSUME S # {} PROVE FALSE
      OBVIOUS
    <2>2. PICK m \in S : \A k \in S : m <= k
      <3>1. S \in SUBSET Nat
        OBVIOUS
      <3> HIDE DEF S
      <3> QED
        BY <2>1, <3>1, LeastElement
    <2>3. m \in 0..n /\ g[m] # f[m]
      BY <2>2
    <2>4. m # 0
      BY <1>5, <1>6, <2>3
    <2>5. m - 1 \in 0..n /\ m - 1 \notin S
      BY <2>2, <2>3, <2>4
    <2>6. g[m - 1] = f[m - 1]
      BY <2>5
    <2>7. m \in 1..n /\ m \in 0..(n + 1)
      BY <2>3, <2>4
    <2>8. g[m] = Apply(g[m - 1], longer[m]) /\ f[m] = Apply(f[m - 1], lines[m])
      BY <1>5, <1>6, <2>3, <2>4, <2>7
    <2> QED
      BY <1>2, <2>3, <2>6, <2>7, <2>8
  <1>8. g[n] = f[n]
    <2>1. n \in 0..n /\ n \notin S
      BY <1>7
    <2> QED
      BY <2>1
  <1>9. g[n + 1] = Apply(g[n], longer[n + 1])
    <2>1. n + 1 \in 0..(n + 1) /\ n + 1 # 0 /\ (n + 1) - 1 = n
      OBVIOUS
    <2> QED
      BY <1>6, <2>1
  <1> QED
    BY <1>2, <1>3, <1>4, <1>8, <1>9 DEF longer

-----------------------------------------------------------------------------
(* Records.  What each of them does to the maps.                           *)

Rows == [id: Requests, fingerprint: Fingerprints] \cup {NoTransaction}

StoredEvents == [known: BOOLEAN, attempts: Nat, retryAt: Nat, leaseUntil: Nat,
                 claimToken: Tokens \cup {NoToken}, published: BOOLEAN, terminal: BOOLEAN]

(* The maps before the first record are empty.                             *)
LEMMA EmptyType ==
    /\ Empty \in Memories
    /\ \A k \in Keys : Empty.transactions[k] = NoTransaction
    /\ \A e \in Requests :
          /\ ~ Empty.events[e].known
          /\ Empty.events[e].leaseUntil = 0 /\ Empty.events[e].claimToken = NoToken
          /\ ~ Empty.events[e].published /\ ~ Empty.events[e].terminal
          /\ Empty.events[e].attempts = 0
  <1>1. [NewEvent EXCEPT !.known = FALSE] \in StoredEvents
    BY DEF NewEvent, StoredEvents
  <1> QED
    BY <1>1 DEF Empty, Memories, StoredEvents, NewEvent

(* Maps consist of rows and events.                                        *)
LEMMA MemoryParts ==
    ASSUME NEW m
    PROVE  /\ m \in Memories <=>
                /\ m = [transactions |-> m.transactions, events |-> m.events]
                /\ m.transactions \in [Keys -> Rows]
                /\ m.events \in [Requests -> StoredEvents]
  BY DEF Memories, Rows, StoredEvents

(* An accepted record writes one row and one event.                        *)
LEMMA AcceptedEffect ==
    ASSUME NEW m \in Memories, NEW a \in Acceptances
    PROVE  LET n == Apply(m, AcceptedRecord(a))
           IN  /\ n \in Memories
               /\ n.transactions = [m.transactions EXCEPT ![Key[a.identity]] =
                                      [id |-> a.id, fingerprint |-> a.fingerprint]]
               /\ n.events = [m.events EXCEPT ![a.id] = NewEvent]
  <1> DEFINE row == [id |-> a.id, fingerprint |-> a.fingerprint]
             n == [transactions |-> [m.transactions EXCEPT ![Key[a.identity]] = row],
                   events |-> [m.events EXCEPT ![a.id] = NewEvent]]
  <1>1. Apply(m, AcceptedRecord(a)) = n
    BY DEF Apply, AcceptedRecord
  <1>2. row \in Rows /\ NewEvent \in StoredEvents
    BY DEF Acceptances, Rows, NewEvent, StoredEvents
  <1>3. m.transactions \in [Keys -> Rows] /\ m.events \in [Requests -> StoredEvents]
    BY MemoryParts
  <1>4. n \in Memories
    <2> HIDE DEF row
    <2>1. [m.transactions EXCEPT ![Key[a.identity]] = row] \in [Keys -> Rows]
      BY <1>2, <1>3, Zenon
    <2>2. [m.events EXCEPT ![a.id] = NewEvent] \in [Requests -> StoredEvents]
      BY <1>2, <1>3, Zenon
    <2> QED
      BY <2>1, <2>2, MemoryParts
  <1> QED
    BY <1>1, <1>4

(* What a stored event becomes when its publication is applied.            *)
LEMMA EventAfterPublication ==
    ASSUME NEW s \in StoredEvents
    PROVE  [s EXCEPT !.published = TRUE, !.leaseUntil = 0, !.claimToken = NoToken]
             = [known |-> s.known, attempts |-> s.attempts, retryAt |-> s.retryAt,
                leaseUntil |-> 0, claimToken |-> NoToken,
                published |-> TRUE, terminal |-> s.terminal]
  <1> DEFINE after == [s EXCEPT !.published = TRUE, !.leaseUntil = 0,
                                !.claimToken = NoToken]
  <1>1. after \in StoredEvents
    <2>1. 0 \in Nat /\ NoToken \in Tokens \cup {NoToken} /\ TRUE \in BOOLEAN
      OBVIOUS
    <2> QED
      BY <2>1, Zenon DEF StoredEvents
  <1>2. PICK x : x = after
    OBVIOUS
  <1>3. /\ x.known = s.known /\ x.attempts = s.attempts /\ x.retryAt = s.retryAt
        /\ x.leaseUntil = 0 /\ x.claimToken = NoToken
        /\ x.published = TRUE /\ x.terminal = s.terminal
    BY <1>2, Zenon DEF StoredEvents
  <1>4. x \in StoredEvents
    BY <1>1, <1>2
  <1> HIDE DEF after
  <1>5. x = [known |-> s.known, attempts |-> s.attempts, retryAt |-> s.retryAt,
             leaseUntil |-> 0, claimToken |-> NoToken,
             published |-> TRUE, terminal |-> s.terminal]
    BY <1>3, <1>4 DEF StoredEvents
  <1> QED
    BY <1>2, <1>5 DEF after

(* A failure changes the event it is about.                                *)
LEMMA FailedEffect ==
    ASSUME NEW m \in Memories, NEW f \in Failures
    PROVE  LET n == Apply(m, FailedRecord(f))
           IN  /\ n \in Memories
               /\ n.transactions = m.transactions
               /\ n.events = [m.events EXCEPT ![f.event] =
                     [known |-> m.events[f.event].known, attempts |-> f.attempts,
                      retryAt |-> f.retry_at, leaseUntil |-> 0, claimToken |-> NoToken,
                      published |-> m.events[f.event].published,
                      terminal |-> f.terminal]]
  <1> DEFINE e == f.event
             event == [known |-> m.events[e].known, attempts |-> f.attempts,
                       retryAt |-> f.retry_at, leaseUntil |-> 0, claimToken |-> NoToken,
                       published |-> m.events[e].published, terminal |-> f.terminal]
             n == [transactions |-> m.transactions,
                   events |-> [m.events EXCEPT ![e] = event]]
  <1>1. /\ e \in Requests
        /\ m = [transactions |-> m.transactions, events |-> m.events]
        /\ m.events \in [Requests -> StoredEvents]
        /\ m.transactions \in [Keys -> Rows]
    BY MemoryParts DEF Failures
  <1>2. m.events[e] \in StoredEvents
    BY <1>1
  <1>3. event \in StoredEvents
    BY <1>2 DEF StoredEvents, Failures
  <1>4. Apply(m, FailedRecord(f)) =
          [m EXCEPT !.events[e] =
             [@ EXCEPT !.attempts = f.attempts, !.retryAt = f.retry_at,
                       !.terminal = f.terminal, !.leaseUntil = 0,
                       !.claimToken = NoToken]]
    BY DEF Apply, FailedRecord
  <1>5. Apply(m, FailedRecord(f)) = n
    <2>1. [m.events[e] EXCEPT !.attempts = f.attempts, !.retryAt = f.retry_at,
                              !.terminal = f.terminal, !.leaseUntil = 0,
                              !.claimToken = NoToken] = event
      <3>1. f.attempts \in Nat /\ f.retry_at \in Nat /\ f.terminal \in BOOLEAN
        BY DEF Failures
      <3>2. PICK s \in StoredEvents, a \in Nat, t \in Nat, terminal \in BOOLEAN :
              s = m.events[e] /\ a = f.attempts /\ t = f.retry_at /\ terminal = f.terminal
        BY <1>2, <3>1
      <3> DEFINE after == [s EXCEPT !.attempts = a, !.retryAt = t, !.terminal = terminal,
                                    !.leaseUntil = 0, !.claimToken = NoToken]
      <3>3. after \in StoredEvents
        <4>1. 0 \in Nat /\ NoToken \in Tokens \cup {NoToken}
          OBVIOUS
        <4> QED
          BY <4>1, Zenon DEF StoredEvents
      <3>4. PICK x : x = after
        OBVIOUS
      <3>5. /\ x.known = s.known /\ x.attempts = a /\ x.retryAt = t
            /\ x.leaseUntil = 0 /\ x.claimToken = NoToken
            /\ x.published = s.published /\ x.terminal = terminal
        BY <3>4, Zenon DEF StoredEvents
      <3>6. x \in StoredEvents
        BY <3>3, <3>4
      <3>7. x = [known |-> s.known, attempts |-> a, retryAt |-> t,
                 leaseUntil |-> 0, claimToken |-> NoToken,
                 published |-> s.published, terminal |-> terminal]
        <4> HIDE DEF after
        <4> QED
          BY <3>5, <3>6 DEF StoredEvents
      <3> QED
        BY <3>2, <3>4, <3>7
    <2> HIDE DEF event
    <2> QED
      BY <1>1, <1>4, <2>1
  <1>6. n \in Memories
    <2> HIDE DEF event
    <2>1. [m.events EXCEPT ![e] = event] \in [Requests -> StoredEvents]
      BY <1>1, <1>3, Zenon
    <2> QED
      BY <1>1, <2>1, MemoryParts
  <1> QED
    BY <1>5, <1>6

(* A publication changes the event it is about.                            *)
LEMMA PublishedEffect ==
    ASSUME NEW m \in Memories, NEW e \in Requests
    PROVE  LET n == Apply(m, PublishedRecord(e))
           IN  /\ n \in Memories
               /\ n.transactions = m.transactions
               /\ n.events = [m.events EXCEPT ![e] =
                     [known |-> m.events[e].known, attempts |-> m.events[e].attempts,
                      retryAt |-> m.events[e].retryAt, leaseUntil |-> 0,
                      claimToken |-> NoToken, published |-> TRUE,
                      terminal |-> m.events[e].terminal]]
  <1> DEFINE event == [known |-> m.events[e].known, attempts |-> m.events[e].attempts,
                       retryAt |-> m.events[e].retryAt, leaseUntil |-> 0,
                       claimToken |-> NoToken, published |-> TRUE,
                       terminal |-> m.events[e].terminal]
             n == [transactions |-> m.transactions,
                   events |-> [m.events EXCEPT ![e] = event]]
  <1>1. /\ m = [transactions |-> m.transactions, events |-> m.events]
        /\ m.events \in [Requests -> StoredEvents]
        /\ m.transactions \in [Keys -> Rows]
    BY MemoryParts
  <1>2. m.events[e] \in StoredEvents
    BY <1>1
  <1>3. event \in StoredEvents
    BY <1>2 DEF StoredEvents
  <1>4. Apply(m, PublishedRecord(e)) =
          [m EXCEPT !.events[e] =
             [@ EXCEPT !.published = TRUE, !.leaseUntil = 0, !.claimToken = NoToken]]
    BY DEF Apply, PublishedRecord
  <1>5. Apply(m, PublishedRecord(e)) = n
    <2>1. [m.events[e] EXCEPT !.published = TRUE, !.leaseUntil = 0,
                              !.claimToken = NoToken] = event
      BY <1>2, EventAfterPublication
    <2> HIDE DEF event
    <2> QED
      BY <1>1, <1>4, <2>1
  <1>6. n \in Memories
    <2> HIDE DEF event
    <2>1. [m.events EXCEPT ![e] = event] \in [Requests -> StoredEvents]
      BY <1>1, <1>3, Zenon
    <2> QED
      BY <1>1, <2>1, MemoryParts
  <1> QED
    BY <1>5, <1>6

(* The same, row by row and event by event.                                *)
LEMMA AcceptedAt ==
    ASSUME NEW m \in Memories, NEW a \in Acceptances
    PROVE  /\ \A e \in Requests : Apply(m, AcceptedRecord(a)).events[e] =
                 IF e = a.id THEN NewEvent ELSE m.events[e]
           /\ \A k \in Keys : Apply(m, AcceptedRecord(a)).transactions[k] =
                 IF k = Key[a.identity] THEN [id |-> a.id, fingerprint |-> a.fingerprint]
                 ELSE m.transactions[k]
  <1>1. m.transactions \in [Keys -> Rows] /\ m.events \in [Requests -> StoredEvents]
    BY MemoryParts
  <1>2. PICK n : n = Apply(m, AcceptedRecord(a))
    OBVIOUS
  <1>3. /\ n.transactions = [m.transactions EXCEPT ![Key[a.identity]] =
                               [id |-> a.id, fingerprint |-> a.fingerprint]]
        /\ n.events = [m.events EXCEPT ![a.id] = NewEvent]
    BY <1>2, AcceptedEffect, Zenon
  <1>4. /\ \A e \in Requests : n.events[e] = IF e = a.id THEN NewEvent ELSE m.events[e]
        /\ \A k \in Keys : n.transactions[k] =
              IF k = Key[a.identity] THEN [id |-> a.id, fingerprint |-> a.fingerprint]
              ELSE m.transactions[k]
    BY <1>1, <1>3
  <1> QED
    BY <1>2, <1>4, Zenon

(* A logged failure changes the event it names and no other one.           *)
LEMMA FailedAt ==
    ASSUME NEW m \in Memories, NEW f \in Failures
    PROVE  \A e \in Requests : Apply(m, FailedRecord(f)).events[e] =
             IF e = f.event
             THEN [known |-> m.events[e].known, attempts |-> f.attempts,
                   retryAt |-> f.retry_at, leaseUntil |-> 0, claimToken |-> NoToken,
                   published |-> m.events[e].published, terminal |-> f.terminal]
             ELSE m.events[e]
  <1>1. m.events \in [Requests -> StoredEvents] /\ f.event \in Requests
    BY MemoryParts DEF Failures
  <1>2. PICK n, event :
          /\ n = Apply(m, FailedRecord(f))
          /\ event = [known |-> m.events[f.event].known, attempts |-> f.attempts,
                      retryAt |-> f.retry_at, leaseUntil |-> 0, claimToken |-> NoToken,
                      published |-> m.events[f.event].published,
                      terminal |-> f.terminal]
    OBVIOUS
  <1>3. n.events = [m.events EXCEPT ![f.event] = event]
    BY <1>2, FailedEffect, Zenon
  <1>4. \A e \in Requests : n.events[e] = IF e = f.event THEN event ELSE m.events[e]
    BY <1>1, <1>3
  <1> QED
    BY <1>2, <1>4

(* What a failed attempt makes of its event.                               *)
FailedEvent(event, f) ==
    [known |-> event.known, attempts |-> f.attempts, retryAt |-> f.retry_at,
     leaseUntil |-> 0, claimToken |-> NoToken, published |-> event.published,
     terminal |-> f.terminal]

(* The same, with the failed event named.                                  *)
LEMMA FailedEventAt ==
    ASSUME NEW m \in Memories, NEW f \in Failures
    PROVE  \A e \in Requests : Apply(m, FailedRecord(f)).events[e] =
             IF e = f.event THEN FailedEvent(m.events[e], f) ELSE m.events[e]
  BY FailedAt DEF FailedEvent

(* A logged publication changes the event it names and no other one.       *)
LEMMA PublishedAt ==
    ASSUME NEW m \in Memories, NEW d \in Requests
    PROVE  \A e \in Requests : Apply(m, PublishedRecord(d)).events[e] =
             IF e = d
             THEN [known |-> m.events[e].known, attempts |-> m.events[e].attempts,
                   retryAt |-> m.events[e].retryAt, leaseUntil |-> 0,
                   claimToken |-> NoToken, published |-> TRUE,
                   terminal |-> m.events[e].terminal]
             ELSE m.events[e]
  <1>1. m.events \in [Requests -> StoredEvents]
    BY MemoryParts
  <1>2. PICK n, event :
          /\ n = Apply(m, PublishedRecord(d))
          /\ event = [known |-> m.events[d].known, attempts |-> m.events[d].attempts,
                      retryAt |-> m.events[d].retryAt, leaseUntil |-> 0,
                      claimToken |-> NoToken, published |-> TRUE,
                      terminal |-> m.events[d].terminal]
    OBVIOUS
  <1>3. n.events = [m.events EXCEPT ![d] = event]
    BY <1>2, PublishedEffect, Zenon
  <1>4. \A e \in Requests : n.events[e] = IF e = d THEN event ELSE m.events[e]
    BY <1>1, <1>3
  <1> QED
    BY <1>2, <1>4

(* The outcome of a publication writes no row, and introduces no event.    *)
LEMMA OutcomeKeeps ==
    ASSUME NEW m \in Memories, NEW record,
           \/ \E f \in Failures : record = FailedRecord(f)
           \/ \E d \in Requests : record = PublishedRecord(d)
    PROVE  /\ Apply(m, record).transactions = m.transactions
           /\ \A e \in Requests : Apply(m, record).events[e].known = m.events[e].known
  <1>1. CASE \E f \in Failures : record = FailedRecord(f)
    <2>1. PICK f \in Failures : record = FailedRecord(f)
      BY <1>1
    <2>2. PICK n : n = Apply(m, FailedRecord(f))
      OBVIOUS
    <2>3. n.transactions = m.transactions
      BY <2>2, FailedEffect, Zenon
    <2>4. \A e \in Requests : n.events[e].known = m.events[e].known
      <3>1. ASSUME NEW e \in Requests PROVE n.events[e].known = m.events[e].known
        <4>1. n.events[e] =
                IF e = f.event
                THEN [known |-> m.events[e].known, attempts |-> f.attempts,
                        retryAt |-> f.retry_at, leaseUntil |-> 0, claimToken |-> NoToken,
                        published |-> m.events[e].published, terminal |-> f.terminal]
                ELSE m.events[e]
          BY <2>2, FailedAt, Zenon
        <4> QED
          BY <4>1
      <3> QED
        BY <3>1
    <2> QED
      BY <2>1, <2>2, <2>3, <2>4
  <1>2. CASE \E d \in Requests : record = PublishedRecord(d)
    <2>1. PICK d \in Requests : record = PublishedRecord(d)
      BY <1>2
    <2>2. PICK n : n = Apply(m, PublishedRecord(d))
      OBVIOUS
    <2>3. n.transactions = m.transactions
      BY <2>2, PublishedEffect, Zenon
    <2>4. \A e \in Requests : n.events[e].known = m.events[e].known
      <3>1. ASSUME NEW e \in Requests PROVE n.events[e].known = m.events[e].known
        <4>1. n.events[e] =
                IF e = d
                THEN [known |-> m.events[e].known, attempts |-> m.events[e].attempts,
                        retryAt |-> m.events[e].retryAt, leaseUntil |-> 0,
                        claimToken |-> NoToken, published |-> TRUE,
                        terminal |-> m.events[e].terminal]
                ELSE m.events[e]
          BY <2>2, PublishedAt, Zenon
        <4> QED
          BY <4>1
      <3> QED
        BY <3>1
    <2> QED
      BY <2>1, <2>2, <2>3, <2>4
  <1> QED
    BY <1>1, <1>2

(* Every line that decodes is one of the three records.                    *)
Lines == LogRecords \ {Torn}

(* Which three records these are.                                          *)
LEMMA LineKinds ==
    ASSUME NEW record \in Lines
    PROVE  \/ \E a \in Acceptances : record = AcceptedRecord(a)
           \/ \E f \in Failures : record = FailedRecord(f)
           \/ \E e \in Requests : record = PublishedRecord(e)
  BY DEF Lines, LogRecords, AcceptedRecord, FailedRecord, PublishedRecord, Torn

(* Applying a line keeps the maps well-formed.                             *)
LEMMA ApplyType ==
    ASSUME NEW m \in Memories, NEW record \in Lines
    PROVE  Apply(m, record) \in Memories
  BY LineKinds, AcceptedEffect, FailedEffect, PublishedEffect

-----------------------------------------------------------------------------
(* Type correctness.                                                       *)

(* A log that NewStore reads to its end has no torn line.                  *)
LEMMA ReadableLines ==
    ASSUME NEW lines \in Seq(LogRecords), Readable(lines)
    PROVE  \A k \in 1..Len(lines) : lines[k] \in Lines
  BY DEF Readable, Lines

(* Replaying a readable log gives well-formed maps.                        *)
LEMMA ReplayType ==
    ASSUME NEW lines \in Seq(LogRecords), Readable(lines)
    PROVE  Replay(lines) \in Memories
  <1>1. \A m \in Memories : \A k \in 1..Len(lines) : Apply(m, lines[k]) \in Memories
    BY ReadableLines, ApplyType
  <1>2. Empty \in Memories /\ Len(lines) \in Nat
    BY EmptyType
  <1> QED
    BY <1>1, <1>2, ReplayIn

(* What a failing append leaves behind are lines of the log.               *)
LEMMA LeftoversType ==
    ASSUME NEW record \in LogRecords, NEW lines \in Leftovers(record),
           log \in Seq(LogRecords)
    PROVE  log \o lines \in Seq(LogRecords) /\ Append(log, Torn) \in Seq(LogRecords)
  <1>1. Torn \in LogRecords
    BY DEF LogRecords
  <1>2. lines \in Seq(LogRecords)
    <2>1. <<>> \in Seq(LogRecords) /\ <<record>> \in Seq(LogRecords)
          /\ <<Torn>> \in Seq(LogRecords)
      BY <1>1
    <2>2. lines = <<>> \/ lines = <<record>> \/ lines = <<Torn>>
      BY DEF Leftovers
    <2> QED
      BY <2>1, <2>2
  <1> QED
    BY <1>1, <1>2

(* The records that the API and the dispatcher write.                      *)
LEMMA WrittenRecords ==
    /\ \A a \in Acceptances : AcceptedRecord(a) \in Lines
    /\ \A f \in Failures : FailedRecord(f) \in Lines
    /\ \A e \in Requests : PublishedRecord(e) \in Lines
  BY DEF Lines, LogRecords, AcceptedRecord, FailedRecord, PublishedRecord, Torn

(* The outcome that a settling worker logs is one of them.                 *)
LEMMA OutcomeRecordType ==
    ASSUME DispatcherType, BusyInv, NEW w \in Workers, Settling(w)
    PROVE  OutcomeRecord(w) \in Lines
  <1>1. worker[w].batch # <<>>
    BY DEF BusyInv, Settling
  <1>2. Pending(w) \in PendingEvents
    BY <1>1, TailOfBatch DEF DispatcherType, Pending
  <1>3. Pending(w).event \in Requests
    BY <1>2 DEF PendingEvents
  <1>4. Failure(w) \in Failures
    BY <1>1, FailureType
  <1> QED
    BY <1>3, <1>4, WrittenRecords DEF OutcomeRecord

(* A claimed batch consists of distinct claimable events.                  *)
LEMMA ClaimedBatch ==
    ASSUME memory \in Memories, NEW now, NEW token \in Tokens,
           NEW events \in Selected(now, BatchSize)
    PROVE  /\ PendingOf(events, token) \in Seq(PendingEvents)
           /\ DOMAIN PendingOf(events, token) = DOMAIN events
           /\ \A k \in DOMAIN events :
                 /\ events[k] \in Claimable(now)
                 /\ events[k] \in EventsOf(events)
                 /\ PendingOf(events, token)[k] =
                      [event |-> events[k], attempts |-> memory.events[events[k]].attempts,
                       token |-> token]
           /\ \A j, k \in DOMAIN events : events[j] = events[k] => j = k
           /\ EventsOf(events) \subseteq Claimable(now)
  <1>1. PICK n \in 0..BatchSize : events \in [1..n -> Claimable(now)]
    BY DEF Selected
  <1>2. \A j, k \in 1..n : j < k => Rank[events[j]] < Rank[events[k]]
    BY <1>1 DEF Selected
  <1>3. \A k \in 1..n : events[k] \in Requests /\ Rank[events[k]] \in Nat
    BY <1>1, LocalStoreAssumption DEF Claimable
  <1>4. \A j, k \in 1..n : events[j] = events[k] => j = k
    <2> SUFFICES ASSUME NEW j \in 1..n, NEW k \in 1..n, j < k
                 PROVE  events[j] # events[k]
      OBVIOUS
    <2>1. Rank[events[j]] < Rank[events[k]]
      BY <1>2
    <2> QED
      BY <1>3, <2>1
  <1>5. \A k \in 1..n : [event |-> events[k],
                         attempts |-> memory.events[events[k]].attempts,
                         token |-> token] \in PendingEvents
    BY <1>3 DEF Memories, PendingEvents
  <1>6. PendingOf(events, token) \in [1..n -> PendingEvents]
    BY <1>1, <1>5 DEF PendingOf
  <1>7. PendingOf(events, token) \in Seq(PendingEvents)
    BY <1>1, <1>6
  <1> QED
    BY <1>1, <1>4, <1>7 DEF PendingOf, EventsOf

(* A claim draws a token that no claim of this process bears.              *)
LEMMA FreshTokenIsFresh ==
    UsedTokens # Tokens => FreshToken \in Tokens /\ FreshToken \notin UsedTokens
  BY DEF FreshToken, UsedTokens

(* What a claim makes of the events.                                       *)
LEMMA ClaimEffect ==
    ASSUME memory \in Memories, NEW now \in Nat, NEW token \in Tokens,
           NEW events, ClaimPending(now, Lease, token, events)
    PROVE  /\ memory' \in Memories
           /\ memory'.transactions = memory.transactions
           /\ \A e \in Requests :
                 /\ memory'.events[e].known = memory.events[e].known
                 /\ memory'.events[e].attempts = memory.events[e].attempts
                 /\ memory'.events[e].retryAt = memory.events[e].retryAt
                 /\ memory'.events[e].published = memory.events[e].published
                 /\ memory'.events[e].terminal = memory.events[e].terminal
                 /\ e \in EventsOf(events) => memory'.events[e].claimToken = token
                 /\ e \notin EventsOf(events) => memory'.events[e] = memory.events[e]
  <1> DEFINE one(e) == [memory.events[e] EXCEPT !.leaseUntil = now + Lease,
                                                !.claimToken = token]
             next(e) == IF e \in EventsOf(events) THEN one(e) ELSE memory.events[e]
             changed == [e \in Requests |-> next(e)]
  <1>1. /\ memory = [transactions |-> memory.transactions, events |-> memory.events]
        /\ memory.events \in [Requests -> StoredEvents]
        /\ memory.transactions \in [Keys -> Rows]
    BY MemoryParts
  <1>2. now + Lease \in Nat
    BY DispatcherAssumption
  <1>3. ASSUME NEW e \in Requests
        PROVE  /\ one(e) \in StoredEvents
               /\ one(e).known = memory.events[e].known
               /\ one(e).attempts = memory.events[e].attempts
               /\ one(e).retryAt = memory.events[e].retryAt
               /\ one(e).published = memory.events[e].published
               /\ one(e).terminal = memory.events[e].terminal
               /\ one(e).claimToken = token
    <2>1. memory.events[e] \in StoredEvents /\ token \in Tokens \cup {NoToken}
      BY <1>1
    <2>2. one(e) \in StoredEvents
      BY <1>2, <2>1, Zenon DEF StoredEvents
    <2> QED
      BY <2>1, <2>2, Zenon DEF StoredEvents
  <1>4. memory' = [memory EXCEPT !.events = changed]
    BY DEF ClaimPending
  <1>5. memory' = [transactions |-> memory.transactions, events |-> changed]
    <2> HIDE DEF changed
    <2> QED
      BY <1>1, <1>4
  <1>6. \A e \in Requests : next(e) \in StoredEvents
    BY <1>1, <1>3
  <1>7. changed \in [Requests -> StoredEvents]
    <2> HIDE DEF next
    <2> QED
      BY <1>6
  <1>8. memory' \in Memories
    <2> HIDE DEF changed
    <2> QED
      BY <1>1, <1>5, <1>7, MemoryParts
  <1>9. \A e \in Requests : memory'.events[e] = next(e)
    BY <1>5
  <1> HIDE DEF one
  <1> QED
    BY <1>3, <1>5, <1>8, <1>9

(* A record that is appended and applied.                                  *)
LEMMA WriteType ==
    ASSUME memory \in Memories, log \in Seq(LogRecords), NEW record \in Lines,
           Write(record)
    PROVE  memory' \in Memories /\ log' \in Seq(LogRecords)
  <1>1. record \in LogRecords
    BY DEF Lines
  <1> QED
    BY <1>1, ApplyType DEF Write

(* The end of the process leaves nothing but what is durable.              *)
LEMMA EndType ==
    ASSUME request \in RequestType, DispatcherType, End
    PROVE  request' \in RequestType /\ DispatcherType' /\ memory' \in Memories /\ BusyInv'
  <1> DEFINE States == [pc: {"unsent", "accepting", "answered", "lost"},
                        identity: Identities, body: Bodies, occurred_at: Nat,
                        reply: Replies]
             next(r) == IF request[r].pc = "accepting"
                        THEN [request[r] EXCEPT !.pc = "lost"] ELSE request[r]
  <1>1. ASSUME NEW r \in Requests PROVE next(r) \in States
    <2>1. request[r] \in States
      BY DEF RequestType
    <2>2. [request[r] EXCEPT !.pc = "lost"] \in States
      BY <2>1, Zenon
    <2> QED
      BY <2>1, <2>2
  <1>2. request' = [r \in Requests |-> next(r)]
    BY DEF End
  <1>3. request' \in [Requests -> States]
    <2> HIDE DEF next, States
    <2> QED
      BY <1>1, <1>2
  <1>4. DispatcherType' /\ BusyInv'
    BY DEF End, DispatcherType, BusyInv, Stopped
  <1> QED
    BY <1>3, <1>4, EmptyType DEF End, RequestType

(* The records of appends that may be under way.                           *)
LEMMA AppendingType ==
    ASSUME request \in RequestType, DispatcherType, BusyInv
    PROVE  Appending \subseteq Lines
  <1>1. \A r \in Requests : AcceptedRecord(Acceptance(r)) \in Lines
    BY AcceptanceType, WrittenRecords
  <1>2. \A w \in Workers : Settling(w) => OutcomeRecord(w) \in Lines
    BY OutcomeRecordType
  <1> QED
    BY <1>1, <1>2 DEF Appending

TypeInv == TypeOK /\ BusyInv

(* Every step of a request keeps the types.                                *)
LEMMA RequestStepType ==
    ASSUME TypeInv, NEW r \in Requests, RequestNext(r), UNCHANGED driver
    PROVE  TypeInv'
  <1> USE DEF TypeInv, TypeOK
  <1> DEFINE a == Acceptance(r)
  <1>1. a \in Acceptances /\ AcceptedRecord(a) \in Lines /\ clock \in Nat
    BY AcceptanceType, WrittenRecords DEF DispatcherType
  <1>2. UNCHANGED <<worker, topic, clock, process>>
    BY DEF RequestNext, Invalid, Submit, AcceptKnown, AcceptNew, AcceptFails, dispatcherVars
  <1>3. DispatcherType' /\ BusyInv'
    BY <1>2 DEF DispatcherType, BusyInv
  <1>4. faults' \in Nat
    BY DEF RequestNext, Invalid, Submit, AcceptKnown, AcceptNew, AcceptFails, Fault
  <1>5. Known(a) => KnownOutcome(a) \in Outcomes
    <2> SUFFICES ASSUME Known(a) PROVE KnownOutcome(a) \in Outcomes
      OBVIOUS
    <2>1. Existing(a) \in Rows /\ Existing(a) # NoTransaction
      BY <1>1, LocalStoreAssumption, MemoryParts DEF Known, Existing, Acceptances
    <2>2. Existing(a).id \in Requests
      BY <2>1 DEF Rows
    <2> QED
      BY <2>2 DEF KnownOutcome, StoreReplay, StoreConflict, Outcomes, Ids
  <1>6. StoreAccepted(r) \in Outcomes /\ StoreError \in Outcomes
    BY DEF StoreAccepted, StoreError, Outcomes, Ids
  <1>7. request' \in RequestType
    <2>1. ASSUME NEW outcome \in Outcomes, FinishAccept(r, outcome)
          PROVE  request' \in RequestType
      BY <1>1, <2>1, IntakeType
    <2>2. CASE Invalid(r) \/ Submit(r)
      BY <1>1, <1>6, <2>2, IntakeType DEF Invalid, Submit
    <2>3. CASE AcceptKnown(r)
      BY <1>5, <2>1, <2>3 DEF AcceptKnown
    <2>4. CASE AcceptNew(r) \/ AcceptFails(r)
      BY <1>6, <2>1, <2>4 DEF AcceptNew, AcceptFails
    <2> QED
      BY <2>2, <2>3, <2>4 DEF RequestNext
  <1>8. memory' \in Memories /\ log' \in Seq(LogRecords)
    <2>1. CASE Invalid(r) \/ Submit(r) \/ AcceptKnown(r)
      BY <2>1 DEF Invalid, Submit, AcceptKnown, storeVars
    <2>2. CASE AcceptNew(r)
      BY <1>1, <2>2, WriteType DEF AcceptNew
    <2>3. CASE AcceptFails(r)
      BY <1>1, <2>3, LeftoversType DEF AcceptFails, WriteFails, Lines
    <2> QED
      BY <2>1, <2>2, <2>3 DEF RequestNext
  <1> QED
    BY <1>2, <1>3, <1>4, <1>7, <1>8

(* Every step of the dispatcher keeps the types.                           *)
LEMMA WorkerStepType ==
    ASSUME TypeInv, NEW w \in Workers, WorkerNext(w), UNCHANGED driver
    PROVE  TypeInv'
  <1> USE DEF TypeInv, TypeOK
  <1>1. worker[w].pc \in {"publish", "mark", "record"} => worker[w].batch # <<>>
    BY DEF BusyInv
  <1>2. CASE WorkerStep(w)
    <2>1. DispatcherType'
      BY <1>1, <1>2, RunType DEF WorkerStep
    <2>2. BusyInv'
      BY <1>2, BusyStep DEF WorkerStep
    <2> QED
      BY <1>2, <2>1, <2>2 DEF WorkerStep, intakeVars, storeVars
  <1>3. CASE Claim(w)
    <2>1. PICK events \in Selected(worker[w].now, BatchSize) :
            /\ ClaimPending(worker[w].now, Lease, FreshToken, events)
            /\ Claimed(w, PendingOf(events, FreshToken))
      BY <1>3 DEF Claim
    <2>2. FreshToken \in Tokens /\ worker[w].now \in Nat
      BY <1>3, FreshTokenIsFresh DEF Claim, DispatcherType
    <2>3. PendingOf(events, FreshToken) \in Seq(PendingEvents)
      BY <2>2, ClaimedBatch
    <2>4. DispatcherType'
      BY <2>1, <2>3, ContinueType DEF Claimed
    <2>5. BusyInv'
      BY <2>1, BusyStep DEF Claimed
    <2>6. memory' \in Memories
      BY <2>1, <2>2, ClaimEffect
    <2>7. UNCHANGED log
      BY <2>1 DEF ClaimPending
    <2> QED
      BY <1>3, <2>4, <2>5, <2>6, <2>7 DEF Claim, intakeVars
  <1>4. CASE Settle(w)
    <2>1. OutcomeRecord(w) \in Lines /\ Tail(worker[w].batch) \in Seq(PendingEvents)
      <3>1. worker[w].batch \in Seq(PendingEvents) /\ worker[w].batch # <<>>
        BY <1>1, <1>4 DEF Settle, Settling, DispatcherType
      <3> QED
        BY <1>4, <3>1, OutcomeRecordType, TailOfBatch DEF Settle
    <2>2. DispatcherType' /\ BusyInv'
      BY <1>4, <2>1, ContinueType, BusyStep DEF Settle, Advance
    <2>3. memory' \in Memories /\ log' \in Seq(LogRecords)
      BY <1>4, <2>1, WriteType DEF Settle
    <2> QED
      BY <1>4, <2>2, <2>3 DEF Settle, intakeVars
  <1>5. CASE SettleFails(w)
    <2>1. OutcomeRecord(w) \in Lines
      BY <1>5, OutcomeRecordType DEF SettleFails
    <2>2. log' \in Seq(LogRecords)
      BY <1>5, <2>1, LeftoversType DEF SettleFails, Lines
    <2>3. request' \in RequestType /\ DispatcherType' /\ memory' \in Memories /\ BusyInv'
      BY <1>5, EndType DEF SettleFails
    <2> QED
      BY <1>5, <2>2, <2>3 DEF SettleFails, End, Fault
  <1> QED
    BY <1>2, <1>3, <1>4, <1>5 DEF WorkerNext

(* The process stops, and starts again when the log can be read.           *)
LEMMA ProcessStepType ==
    ASSUME TypeInv, Stop \/ Start, UNCHANGED driver
    PROVE  TypeInv'
  <1> USE DEF TypeInv, TypeOK
  <1>1. CASE Stop
    <2>1. log' \in Seq(LogRecords)
      <3>1. Appending \subseteq LogRecords
        BY AppendingType DEF Lines
      <3>2. Torn \in LogRecords
        BY DEF LogRecords
      <3>3. \/ UNCHANGED log
            \/ \E record \in Appending \cup {Torn} : log' = Append(log, record)
        BY <1>1 DEF Stop
      <3>4. \A record \in LogRecords : Append(log, record) \in Seq(LogRecords)
        OBVIOUS
      <3> QED
        BY <3>1, <3>2, <3>3, <3>4
    <2>2. request' \in RequestType /\ DispatcherType' /\ memory' \in Memories /\ BusyInv'
      BY <1>1, EndType DEF Stop
    <2> QED
      BY <1>1, <2>1, <2>2 DEF Stop, End, Fault
  <1>2. CASE Start
    <2>1. memory' \in Memories /\ UNCHANGED log
      BY <1>2, ReplayType DEF Start, NewStore
    <2>2. DispatcherType' /\ BusyInv'
      BY <1>2 DEF Start, DispatcherType, BusyInv, Idle
    <2> QED
      BY <1>2, <2>1, <2>2 DEF Start, intakeVars
  <1> QED
    BY <1>1, <1>2

(* The initial state is well-formed.                                       *)
LEMMA TypeInit == Init => TypeInv
  <1> SUFFICES ASSUME Init PROVE TypeInv
    OBVIOUS
  <1>1. request \in RequestType
    BY DEF Init, IntakeInit, RequestType, NoReply, Replies, ReplyCodes, Ids
  <1>2. DispatcherType /\ BusyInv
    BY DEF Init, DispatcherInit, DispatcherType, BusyInv, Idle
  <1>3. memory \in Memories /\ log \in Seq(LogRecords)
    BY EmptyType DEF Init
  <1> QED
    BY <1>1, <1>2, <1>3 DEF Init, TypeInv, TypeOK

(* Every step keeps the state well-formed.                                 *)
LEMMA TypeStep == TypeInv /\ [Next]_vars => TypeInv'
  <1> SUFFICES ASSUME TypeInv, [Next]_vars PROVE TypeInv'
    OBVIOUS
  <1>1. ASSUME UNCHANGED <<intakeVars, dispatcherVars, driver, storeVars, process, faults>>
        PROVE  TypeInv'
    BY <1>1 DEF TypeInv, TypeOK, DispatcherType, BusyInv,
                intakeVars, dispatcherVars, storeVars
  <1>2. ASSUME PassTime, UNCHANGED driver PROVE TypeInv'
    BY <1>2 DEF PassTime, Tick, TypeInv, TypeOK, DispatcherType, BusyInv,
                intakeVars, storeVars
  <1> QED
    BY <1>1, <1>2, RequestStepType, WorkerStepType, ProcessStepType DEF Next, vars

(* Type correctness across the ends and restarts of the process: what is   *)
(* rebuilt from the log are again maps of rows and events.                 *)
THEOREM TypeCorrect == Spec => []TypeOK
  <1>1. TypeInv => TypeOK
    BY DEF TypeInv
  <1> QED
    BY <1>1, TypeInit, TypeStep, PTL DEF Spec

-----------------------------------------------------------------------------
(* The log and the events it has introduced.                               *)

(* One more line introduces the event of an accepted record.               *)
LEMMA IntroducedAppend ==
    ASSUME NEW lines \in Seq(LogRecords), NEW record \in LogRecords
    PROVE  Introduced(Append(lines, record)) =
             Introduced(lines) \cup
               {e \in Requests : record.kind = "accepted" /\ e = record.of.id}
  <1> DEFINE longer == Append(lines, record)
  <1>1. PICK n \in Nat : n = Len(lines)
    OBVIOUS
  <1>2. /\ DOMAIN longer = 1..(n + 1) /\ DOMAIN lines = 1..n
        /\ longer[n + 1] = record
        /\ \A k \in 1..n : longer[k] = lines[k]
    BY <1>1
  <1>3. record.kind = "accepted" => record.of.id \in Requests
    BY DEF LogRecords, Acceptances, Torn
  <1>4. \A k \in 1..(n + 1) : k \in 1..n \/ k = n + 1
    OBVIOUS
  <1>5. \A k \in 1..n : k \in 1..(n + 1)
    OBVIOUS
  <1>6. n + 1 \in 1..(n + 1)
    OBVIOUS
  <1> HIDE DEF longer
  <1>7. ASSUME NEW e
        PROVE  e \in Introduced(longer) <=>
                 e \in Introduced(lines) \/ (record.kind = "accepted" /\ e = record.of.id)
    <2>1. e \in Introduced(longer) <=>
            \E k \in 1..(n + 1) : longer[k].kind = "accepted" /\ e = longer[k].of.id
      BY <1>2 DEF Introduced
    <2>2. e \in Introduced(lines) <=>
            \E k \in 1..n : lines[k].kind = "accepted" /\ e = lines[k].of.id
      BY <1>2 DEF Introduced
    <2> QED
      BY <1>2, <1>4, <1>5, <1>6, <2>1, <2>2
  <1> QED
    BY <1>3, <1>7 DEF longer

(* What a failing append makes of the log.                                 *)
LEMMA LogAfterFailure ==
    ASSUME log \in Seq(LogRecords), NEW record \in LogRecords,
           NEW lines \in Leftovers(record)
    PROVE  \/ log \o lines = log
           \/ log \o lines = Append(log, record) /\ "unsynced" \in AppendFaults
           \/ log \o lines = Append(log, Torn) /\ "torn" \in AppendFaults
  <1>1. \/ lines = <<>>
        \/ lines = <<record>> /\ "unsynced" \in AppendFaults
        \/ lines = <<Torn>> /\ "torn" \in AppendFaults
    BY DEF Leftovers
  <1>2. log \o <<>> = log
    OBVIOUS
  <1>3. \A x \in LogRecords : log \o <<x>> = Append(log, x)
    OBVIOUS
  <1>4. Torn \in LogRecords
    BY DEF LogRecords
  <1> QED
    BY <1>1, <1>2, <1>3, <1>4

(* Whatever becomes of an append, at most the event of its own record is   *)
(* introduced by it.                                                       *)
LEMMA IntroducedStep ==
    ASSUME log \in Seq(LogRecords), NEW record \in Lines,
           log' \in {log, Append(log, record), Append(log, Torn)}
    PROVE  /\ Introduced(log) \subseteq Introduced(log')
           /\ \A e \in Introduced(log') :
                 e \in Introduced(log) \/ (record.kind = "accepted" /\ e = record.of.id)
  <1>1. record \in LogRecords /\ Torn \in LogRecords /\ Torn.kind = "torn"
    BY DEF Lines, LogRecords, Torn
  <1>2. CASE log' = log
    BY <1>2
  <1>3. CASE log' = Append(log, record)
    BY <1>1, <1>3, IntroducedAppend
  <1>4. CASE log' = Append(log, Torn)
    BY <1>1, <1>4, IntroducedAppend
  <1> QED
    BY <1>2, <1>3, <1>4

(* Only an accepted record introduces an event.                            *)
LEMMA ApplyKnown ==
    ASSUME NEW m \in Memories, NEW record \in Lines, NEW e \in Requests,
           Apply(m, record).events[e].known
    PROVE  m.events[e].known \/ (record.kind = "accepted" /\ e = record.of.id)
  <1>1. CASE \E a \in Acceptances : record = AcceptedRecord(a)
    <2>1. PICK a \in Acceptances : record = AcceptedRecord(a)
      BY <1>1
    <2>2. PICK n : record = AcceptedRecord(a) /\ n = Apply(m, AcceptedRecord(a))
      BY <2>1
    <2>3. n.events[e] = IF e = a.id THEN NewEvent ELSE m.events[e]
      BY <2>2, AcceptedAt, Zenon
    <2>4. n.events[e].known
      BY <2>2
    <2> QED
      BY <2>2, <2>3, <2>4 DEF AcceptedRecord
  <1>2. CASE \/ \E f \in Failures : record = FailedRecord(f)
             \/ \E d \in Requests : record = PublishedRecord(d)
    <2>1. Apply(m, record).events[e].known = m.events[e].known
      BY <1>2, OutcomeKeeps, Zenon
    <2> QED
      BY <2>1
  <1> QED
    BY <1>1, <1>2, LineKinds

(* The maps that a log leads to hold no event that it did not introduce,   *)
(* and no claims.                                                          *)
LEMMA ReplayKnown ==
    ASSUME NEW lines \in Seq(LogRecords), Readable(lines)
    PROVE  \A e \in Requests : Replay(lines).events[e].known => e \in Introduced(lines)
  <1> DEFINE M == {m \in Memories :
                     \A e \in Requests : m.events[e].known => e \in Introduced(lines)}
  <1>1. Empty \in M /\ Len(lines) \in Nat
    BY EmptyType
  <1>2. ASSUME NEW m \in Memories, NEW k \in 1..Len(lines),
               \A e \in Requests : m.events[e].known => e \in Introduced(lines)
        PROVE  Apply(m, lines[k]) \in M
    <2> HIDE DEF M
    <2>1. lines[k] \in Lines
      BY ReadableLines
    <2>2. Apply(m, lines[k]) \in Memories
      BY <2>1, ApplyType
    <2>3. ASSUME NEW e \in Requests, Apply(m, lines[k]).events[e].known
          PROVE  e \in Introduced(lines)
      <3>1. m.events[e].known \/ (lines[k].kind = "accepted" /\ e = lines[k].of.id)
        BY <2>1, <2>3, ApplyKnown
      <3> QED
        BY <1>2, <3>1 DEF Introduced
    <2> QED
      BY <2>2, <2>3 DEF M
  <1>3. \A m \in M : \A k \in 1..Len(lines) : Apply(m, lines[k]) \in M
    BY <1>2
  <1>4. Replay(lines) \in M
    <2> HIDE DEF M
    <2> QED
      BY <1>1, <1>3, ReplayIn
  <1> QED
    BY <1>4

-----------------------------------------------------------------------------
(* The only claimant.                                                      *)

Done(r) == request[r].pc \in {"answered", "lost"}

(* Every event that is stored was accepted by a request that is over, so   *)
(* no row is ever written for an event that a batch holds.                 *)
OnceInv ==
    /\ \A e \in Requests : memory.events[e].known => Done(e)
    /\ \A e \in Introduced(log) : Done(e)

(* No event is in a batch twice.                                           *)
HeldInv ==
    /\ SoleClaimant
    /\ \A w \in Workers : \A j, k \in DOMAIN worker[w].batch :
          worker[w].batch[j].event = worker[w].batch[k].event => j = k

(* Only requests name the events of a log.                                 *)
LEMMA IntroducedRequests ==
    ASSUME log \in Seq(LogRecords)
    PROVE  Introduced(log) \subseteq Requests
  <1>1. \A record \in LogRecords : record.kind = "accepted" => record.of.id \in Requests
    BY DEF LogRecords, Acceptances, Torn
  <1> QED
    BY <1>1 DEF Introduced

(* Any end of the process answers nobody: requests in flight are lost.     *)
LEMMA EndLoses ==
    ASSUME request \in RequestType, End
    PROVE  \A r \in Requests :
             /\ Done(r) => request'[r] = request[r]
             /\ request[r].pc = "accepting" => Done(r)'
             /\ request'[r].pc # "accepting"
             /\ request'[r].identity = request[r].identity
             /\ request'[r].body = request[r].body
             /\ request'[r].reply = request[r].reply
  <1> SUFFICES ASSUME NEW r \in Requests
               PROVE  /\ Done(r) => request'[r] = request[r]
                      /\ request[r].pc = "accepting" => Done(r)'
                      /\ request'[r].pc # "accepting"
                      /\ request'[r].identity = request[r].identity
                      /\ request'[r].body = request[r].body
                      /\ request'[r].reply = request[r].reply
    OBVIOUS
  <1>1. request'[r] = IF request[r].pc = "accepting"
                      THEN [request[r] EXCEPT !.pc = "lost"] ELSE request[r]
    BY DEF End
  <1> QED
    BY <1>1 DEF RequestType, Done

(* What a request's own step does to the requests.                         *)
LEMMA RequestEffect ==
    ASSUME request \in RequestType, NEW r \in Requests, RequestNext(r)
    PROVE  /\ \A q \in Requests \ {r} : request'[q] = request[q]
           /\ ~ Done(r)
           /\ AcceptNew(r) \/ AcceptFails(r) \/ AcceptKnown(r) => Done(r)'
  <1>1. PICK s : request' = [request EXCEPT ![r] = s]
    <2>1. CASE Invalid(r)
      BY <2>1, Zenon DEF Invalid, RejectInvalid
    <2>2. CASE Submit(r)
      BY <2>2, Zenon DEF Submit, BeginAccept
    <2>3. CASE AcceptNew(r) \/ AcceptFails(r) \/ AcceptKnown(r)
      <3>1. PICK outcome : FinishAccept(r, outcome)
        BY <2>3 DEF AcceptNew, AcceptFails, AcceptKnown
      <3> QED
        BY <3>1, Zenon DEF FinishAccept
    <2> QED
      BY <2>1, <2>2, <2>3 DEF RequestNext
  <1>2. \A q \in Requests \ {r} : request'[q] = request[q]
    BY <1>1 DEF RequestType
  <1>3. ~ Done(r)
    BY DEF RequestNext, Invalid, Submit, AcceptNew, AcceptFails, AcceptKnown,
           RejectInvalid, BeginAccept, FinishAccept, Done
  <1>4. ASSUME AcceptNew(r) \/ AcceptFails(r) \/ AcceptKnown(r) PROVE Done(r)'
    <2>1. PICK outcome : FinishAccept(r, outcome)
      BY <1>4 DEF AcceptNew, AcceptFails, AcceptKnown
    <2>2. PICK reply : request' = [request EXCEPT ![r].pc = "answered", ![r].reply = reply]
      BY <2>1, Zenon DEF FinishAccept
    <2>3. request'[r].pc = "answered"
      BY <2>2 DEF RequestType
    <2> QED
      BY <2>3 DEF Done
  <1> QED
    BY <1>2, <1>3, <1>4

(* A request that is over stays over.                                      *)
LEMMA DoneStays ==
    ASSUME TypeInv, [Next]_vars, NEW e \in Requests, Done(e)
    PROVE  request'[e] = request[e] /\ Done(e)'
  <1> USE DEF TypeInv, TypeOK
  <1>1. CASE UNCHANGED request
    BY <1>1 DEF Done
  <1>2. CASE \E r \in Requests : RequestNext(r)
    <2>1. PICK r \in Requests : RequestNext(r)
      BY <1>2
    <2>2. e # r /\ request'[e] = request[e]
      BY <2>1, RequestEffect
    <2> QED
      BY <2>2 DEF Done
  <1>3. CASE End
    BY <1>3, EndLoses DEF Done
  <1>4. (\E r \in Requests : RequestNext(r)) \/ End \/ UNCHANGED request
    BY DEF Next, WorkerNext, WorkerStep, Claim, Settle, SettleFails, Stop, Start,
           PassTime, vars, intakeVars
  <1> QED
    BY <1>1, <1>2, <1>3, <1>4

(* What an append may introduce, the request it belongs to is over.        *)
LEMMA IntroducedDone ==
    ASSUME TypeInv, OnceInv, [Next]_vars, NEW record \in Lines,
           log' \in {log, Append(log, record), Append(log, Torn)},
           record.kind = "accepted" => Done(record.of.id)'
    PROVE  (\A e \in Introduced(log) : Done(e))'
  <1>1. log \in Seq(LogRecords)
    BY DEF TypeInv, TypeOK
  <1>2. \A e \in Introduced(log) : e \in Requests /\ Done(e)
    BY <1>1, IntroducedRequests DEF OnceInv
  <1>3. \A e \in Introduced(log) : Done(e)'
    BY <1>2, DoneStays
  <1>4. \A e \in Introduced(log') :
           e \in Introduced(log) \/ (record.kind = "accepted" /\ e = record.of.id)
    BY <1>1, IntroducedStep
  <1> QED
    BY <1>3, <1>4 DEF Done

(* The record of an append that a stop may cut off.                        *)
LEMMA AppendingRecord ==
    ASSUME TypeInv, NEW record \in Appending
    PROVE  /\ record \in Lines
           /\ \/ \E r \in Requests : /\ request[r].pc = "accepting"
                                     /\ ~ Known(Acceptance(r))
                                     /\ record = AcceptedRecord(Acceptance(r))
              \/ \E w \in Workers : Settling(w) /\ record = OutcomeRecord(w)
  BY AppendingType DEF Appending, TypeInv, TypeOK

(* What an append by Stop leaves in the log.                               *)
LEMMA StopLog ==
    ASSUME Stop
    PROVE  \/ UNCHANGED log
           \/ \E record \in Appending :
                 log' \in {log, Append(log, record), Append(log, Torn)}
  <1>1. CASE Appending = {}
    BY <1>1 DEF Stop
  <1>2. CASE Appending # {}
    BY <1>2 DEF Stop
  <1> QED
    BY <1>1, <1>2

(* Logging an outcome introduces no event.                                 *)
LEMMA OutcomeIsNoAcceptance ==
    ASSUME DispatcherType, BusyInv, NEW w \in Workers, Settling(w)
    PROVE  /\ OutcomeRecord(w).kind # "accepted"
           /\ \/ \E f \in Failures : OutcomeRecord(w) = FailedRecord(f)
              \/ \E d \in Requests : OutcomeRecord(w) = PublishedRecord(d)
           /\ Pending(w) \in PendingEvents
           /\ worker[w].batch # <<>>
  <1>1. worker[w].batch # <<>>
    BY DEF BusyInv, Settling
  <1>2. Pending(w) \in PendingEvents
    BY <1>1, TailOfBatch DEF DispatcherType, Pending
  <1>3. Pending(w).event \in Requests
    BY <1>2 DEF PendingEvents
  <1>4. Failure(w) \in Failures
    BY <1>1, FailureType
  <1> QED
    BY <1>1, <1>2, <1>3, <1>4 DEF OutcomeRecord, FailedRecord, PublishedRecord

(* Every step keeps each event with the request that drew it.              *)
LEMMA OnceStep ==
    ASSUME TypeInv, OnceInv, [Next]_vars
    PROVE  OnceInv'
  <1> USE DEF TypeInv, TypeOK
  <1>0. \A e \in Requests : Done(e) => Done(e)'
    BY DoneStays
  <1>1. ASSUME UNCHANGED memory
        PROVE  (\A e \in Requests : memory.events[e].known => Done(e))'
    BY <1>0, <1>1 DEF OnceInv
  <1>2. ASSUME UNCHANGED log
        PROVE  (\A e \in Introduced(log) : Done(e))'
    BY <1>0, <1>2, IntroducedRequests DEF OnceInv, Done
  <1>3. ASSUME memory' = Empty
        PROVE  (\A e \in Requests : memory.events[e].known => Done(e))'
    BY <1>3, EmptyType
  <1>4. ASSUME NEW r \in Requests, RequestNext(r) PROVE OnceInv'
    <2> DEFINE a == Acceptance(r)
               record == AcceptedRecord(a)
    <2>1. a \in Acceptances /\ a.id = r /\ record \in Lines /\ record \in LogRecords
      BY AcceptanceType, WrittenRecords DEF Lines
    <2>2. record.kind = "accepted" /\ record.of.id = r
      BY <2>1 DEF AcceptedRecord
    <2>3. CASE Invalid(r) \/ Submit(r) \/ AcceptKnown(r)
      BY <1>1, <1>2, <2>3 DEF Invalid, Submit, AcceptKnown, storeVars, OnceInv
    <2>4. CASE AcceptNew(r)
      <3>1. Done(r)'
        BY <1>4, <2>4, RequestEffect
      <3>2. /\ log' \in {log, Append(log, record), Append(log, Torn)}
            /\ memory' = Apply(memory, record)
        BY <2>4 DEF AcceptNew, Write
      <3>3. (\A e \in Introduced(log) : Done(e))'
        <4> HIDE DEF record
        <4> QED
          BY <2>1, <2>2, <3>1, <3>2, IntroducedDone DEF Done
      <3>4. ASSUME NEW e \in Requests, memory'.events[e].known PROVE Done(e)'
        <4>1. memory.events[e].known \/ e = r
          <5> HIDE DEF record
          <5> QED
            BY <2>1, <2>2, <3>2, <3>4, ApplyKnown
        <4> QED
          BY <1>0, <3>1, <4>1 DEF OnceInv
      <3> QED
        BY <3>3, <3>4 DEF OnceInv
    <2>5. CASE AcceptFails(r)
      <3>1. Done(r)'
        BY <1>4, <2>5, RequestEffect
      <3>2. UNCHANGED memory
        BY <2>5 DEF AcceptFails, WriteFails
      <3>3. PICK lines \in Leftovers(record) : log' = log \o lines
        BY <2>5 DEF AcceptFails, WriteFails
      <3>4. (\A e \in Introduced(log) : Done(e))'
        <4> HIDE DEF record
        <4>1. log' \in {log, Append(log, record), Append(log, Torn)}
          BY <2>1, <3>3, LogAfterFailure
        <4> QED
          BY <2>1, <2>2, <3>1, <4>1, IntroducedDone DEF Done
      <3> QED
        BY <1>1, <3>2, <3>4 DEF OnceInv
    <2> QED
      BY <1>4, <2>3, <2>4, <2>5 DEF RequestNext
  <1>5. ASSUME NEW w \in Workers, WorkerNext(w) PROVE OnceInv'
    <2>1. CASE WorkerStep(w)
      BY <1>1, <1>2, <2>1 DEF WorkerStep, storeVars, OnceInv
    <2>2. CASE Claim(w)
      <3>1. PICK events \in Selected(worker[w].now, BatchSize) :
              ClaimPending(worker[w].now, Lease, FreshToken, events)
        BY <2>2 DEF Claim
      <3>2. FreshToken \in Tokens /\ worker[w].now \in Nat
        BY <2>2, FreshTokenIsFresh DEF Claim, DispatcherType
      <3>3. \A e \in Requests : memory'.events[e].known = memory.events[e].known
        BY <3>1, <3>2, ClaimEffect
      <3>4. UNCHANGED log
        BY <3>1 DEF ClaimPending
      <3> QED
        BY <1>0, <1>2, <3>3, <3>4 DEF OnceInv
    <2>3. CASE Settle(w)
      <3>1. OutcomeRecord(w) \in Lines /\ OutcomeRecord(w).kind # "accepted"
        BY <2>3, OutcomeRecordType, OutcomeIsNoAcceptance DEF Settle
      <3>2. /\ log' \in {log, Append(log, OutcomeRecord(w)), Append(log, Torn)}
            /\ memory' = Apply(memory, OutcomeRecord(w))
        BY <2>3 DEF Settle, Write
      <3>3. (\A e \in Introduced(log) : Done(e))'
        BY <3>1, <3>2, IntroducedDone
      <3>4. ASSUME NEW e \in Requests, memory'.events[e].known PROVE Done(e)'
        BY <1>0, <3>1, <3>2, <3>4, ApplyKnown DEF OnceInv
      <3> QED
        BY <3>3, <3>4 DEF OnceInv
    <2>4. CASE SettleFails(w)
      <3>1. OutcomeRecord(w) \in Lines /\ OutcomeRecord(w).kind # "accepted"
        BY <2>4, OutcomeRecordType, OutcomeIsNoAcceptance DEF SettleFails
      <3>2. PICK lines \in Leftovers(OutcomeRecord(w)) : log' = log \o lines
        BY <2>4 DEF SettleFails
      <3>3. log' \in {log, Append(log, OutcomeRecord(w)), Append(log, Torn)}
        BY <3>1, <3>2, LogAfterFailure DEF Lines
      <3>4. (\A e \in Introduced(log) : Done(e))'
        BY <3>1, <3>3, IntroducedDone
      <3>5. memory' = Empty
        BY <2>4 DEF SettleFails, End
      <3> QED
        BY <1>3, <3>4, <3>5 DEF OnceInv
    <2> QED
      BY <1>5, <2>1, <2>2, <2>3, <2>4 DEF WorkerNext
  <1>6. CASE Stop
    <2>1. memory' = Empty /\ End
      BY <1>6 DEF Stop, End
    <2>2. ASSUME NEW record \in Appending,
                 log' \in {log, Append(log, record), Append(log, Torn)}
          PROVE  (\A e \in Introduced(log) : Done(e))'
      <3>1. record \in Lines
        BY AppendingRecord
      <3>2. ASSUME record.kind = "accepted" PROVE Done(record.of.id)'
        <4>1. PICK r \in Requests :
                request[r].pc = "accepting" /\ record = AcceptedRecord(Acceptance(r))
          BY <3>2, AppendingRecord, OutcomeIsNoAcceptance
        <4>2. Done(r)'
          BY <2>1, <4>1, EndLoses
        <4>3. record.of.id = r
          BY <4>1, AcceptanceType DEF AcceptedRecord
        <4> QED
          BY <4>2, <4>3 DEF Done
      <3> QED
        BY <2>2, <3>1, <3>2, IntroducedDone
    <2> QED
      BY <1>2, <1>3, <1>6, <2>1, <2>2, StopLog DEF OnceInv
  <1>7. CASE Start
    <2>1. UNCHANGED log /\ memory' = Replay(log) /\ Readable(log)
      BY <1>7 DEF Start, NewStore
    <2>2. ASSUME NEW e \in Requests, memory'.events[e].known PROVE Done(e)'
      BY <1>0, <2>1, <2>2, ReplayKnown DEF OnceInv
    <2> QED
      BY <1>2, <2>1, <2>2 DEF OnceInv
  <1>8. CASE PassTime \/ UNCHANGED vars
    BY <1>1, <1>2, <1>8 DEF PassTime, vars, storeVars, OnceInv
  <1> QED
    BY <1>4, <1>5, <1>6, <1>7, <1>8 DEF Next

(* The outcome of an event leaves every other event as it is.              *)
LEMMA OutcomeLeavesOthers ==
    ASSUME memory \in Memories, DispatcherType, BusyInv, NEW w \in Workers,
           Settling(w), NEW e \in Requests, e # Pending(w).event
    PROVE  Apply(memory, OutcomeRecord(w)).events[e] = memory.events[e]
  <1>1. worker[w].batch # <<>>
    BY OutcomeIsNoAcceptance
  <1>2. Pending(w).event \in Requests /\ Failure(w) \in Failures
    BY OutcomeIsNoAcceptance, FailureType DEF PendingEvents
  <1>3. Failure(w).event = Pending(w).event
    BY DEF Failure
  <1>4. CASE worker[w].pc = "mark"
    <2>1. PICK d \in Requests : d = Pending(w).event
      BY <1>2
    <2>2. OutcomeRecord(w) = PublishedRecord(d)
      BY <1>4, <2>1 DEF OutcomeRecord
    <2>3. Apply(memory, PublishedRecord(d)).events[e] =
            IF e = d
            THEN [known |-> memory.events[e].known, attempts |-> memory.events[e].attempts,
                  retryAt |-> memory.events[e].retryAt, leaseUntil |-> 0,
                  claimToken |-> NoToken, published |-> TRUE,
                  terminal |-> memory.events[e].terminal]
            ELSE memory.events[e]
      BY PublishedAt, Zenon
    <2> QED
      BY <2>1, <2>2, <2>3
  <1>5. CASE worker[w].pc # "mark"
    <2>1. PICK f \in Failures : f = Failure(w)
      BY <1>2
    <2>2. OutcomeRecord(w) = FailedRecord(f)
      BY <1>5, <2>1 DEF OutcomeRecord
    <2>3. f.event = Pending(w).event
      BY <1>3, <2>1
    <2>4. Apply(memory, FailedRecord(f)).events[e] =
            IF e = f.event
            THEN [known |-> memory.events[e].known, attempts |-> f.attempts,
                  retryAt |-> f.retry_at, leaseUntil |-> 0, claimToken |-> NoToken,
                  published |-> memory.events[e].published, terminal |-> f.terminal]
            ELSE memory.events[e]
      BY FailedAt, Zenon
    <2> QED
      BY <2>2, <2>3, <2>4
  <1> QED
    BY <1>4, <1>5

(* The selected events are claimable and distinct.                         *)
LEMMA ChosenEvents ==
    ASSUME memory \in Memories, NEW now, NEW token \in Tokens,
           NEW events \in Selected(now, BatchSize)
    PROVE  /\ \A k \in DOMAIN events : /\ events[k] \in Claimable(now)
                                       /\ events[k] \in EventsOf(events)
           /\ \A j, k \in DOMAIN events : events[j] = events[k] => j = k
  BY ClaimedBatch, Zenon

(* A batch stays held while neither it nor its events change.              *)
LEMMA KeepHeld ==
    ASSUME HeldInv, DispatcherType,
           \A w \in Workers : worker'[w].batch = worker[w].batch,
           \A w \in Workers : \A k \in DOMAIN worker[w].batch :
              memory'.events[worker[w].batch[k].event]
                 = memory.events[worker[w].batch[k].event]
    PROVE  HeldInv'
  <1>1. ASSUME NEW w \in Workers, NEW k \in DOMAIN worker'[w].batch
        PROVE  /\ ClaimHeld(worker[w].batch[k].event, worker[w].batch[k].token)'
               /\ memory'.events[worker'[w].batch[k].event].attempts
                    = worker'[w].batch[k].attempts
    <2>1. worker'[w].batch = worker[w].batch /\ k \in DOMAIN worker[w].batch
      BY <1>1
    <2>2. /\ ClaimHeld(worker[w].batch[k].event, worker[w].batch[k].token)
          /\ memory.events[worker[w].batch[k].event].attempts = worker[w].batch[k].attempts
      BY <2>1 DEF HeldInv, SoleClaimant
    <2>3. memory'.events[worker[w].batch[k].event] = memory.events[worker[w].batch[k].event]
      BY <2>1
    <2> QED
      BY <2>1, <2>2, <2>3 DEF ClaimHeld
  <1>2. SoleClaimant'
    BY <1>1 DEF SoleClaimant
  <1>3. ASSUME NEW w \in Workers, NEW j \in DOMAIN worker'[w].batch,
               NEW k \in DOMAIN worker'[w].batch,
               worker'[w].batch[j].event = worker'[w].batch[k].event
        PROVE  j = k
    <2>1. worker'[w].batch = worker[w].batch
      BY <1>3
    <2> QED
      BY <1>3, <2>1 DEF HeldInv
  <1> QED
    BY <1>2, <1>3 DEF HeldInv

(* The only worker holds its batch when every event of it is held.         *)
LEMMA HoldBatch ==
    ASSUME NEW w \in Workers, \A v \in Workers : v = w,
           NEW batch, worker'[w].batch = batch,
           \A k \in DOMAIN batch :
              /\ memory'.events[batch[k].event].known
              /\ memory'.events[batch[k].event].claimToken # NoToken
              /\ memory'.events[batch[k].event].claimToken = batch[k].token
              /\ memory'.events[batch[k].event].attempts = batch[k].attempts,
           \A j, k \in DOMAIN batch : batch[j].event = batch[k].event => j = k
    PROVE  HeldInv'
  <1>1. \A v \in Workers : worker'[v].batch = batch
    OBVIOUS
  <1>2. SoleClaimant'
    BY <1>1 DEF SoleClaimant, ClaimHeld
  <1>3. \A v \in Workers : \A j, k \in DOMAIN worker'[v].batch :
           worker'[v].batch[j].event = worker'[v].batch[k].event => j = k
    BY <1>1
  <1> QED
    BY <1>2, <1>3 DEF HeldInv

(* A worker without a batch holds nothing.                                 *)
LEMMA EmptyHeld ==
    ASSUME \A w \in Workers : worker[w].batch = <<>>
    PROVE  HeldInv
  BY DEF HeldInv, SoleClaimant

(* Every step keeps what the worker has claimed its own.                   *)
LEMMA HeldStep ==
    ASSUME TypeInv, OnceInv, HeldInv, [Next]_vars
    PROVE  HeldInv'
  <1> USE DEF TypeInv, TypeOK
  <1>0. \A w \in Workers : worker[w].batch \in Seq(PendingEvents)
    BY DEF DispatcherType
  <1>1. CASE UNCHANGED <<worker, memory>>
    BY <1>1, KeepHeld
  <1>2. ASSUME NEW r \in Requests, AcceptNew(r) PROVE HeldInv'
    <2> DEFINE a == Acceptance(r)
    <2>1. a \in Acceptances /\ a.id = r
      BY AcceptanceType
    <2>2. UNCHANGED worker /\ memory' = Apply(memory, AcceptedRecord(a))
      BY <1>2 DEF AcceptNew, Write, dispatcherVars
    <2>3. ~ memory.events[r].known
      BY <1>2 DEF AcceptNew, OnceInv, Done
    <2>4. ASSUME NEW w \in Workers, NEW k \in DOMAIN worker[w].batch
          PROVE  memory'.events[worker[w].batch[k].event]
                    = memory.events[worker[w].batch[k].event]
      <3>1. worker[w].batch[k] \in PendingEvents
        BY <1>0
      <3>2. PICK e \in Requests : e = worker[w].batch[k].event
        BY <3>1 DEF PendingEvents
      <3>3. e # r
        BY <2>3, <3>2 DEF HeldInv, SoleClaimant, ClaimHeld
      <3>4. memory'.events[e] = memory.events[e]
        <4> HIDE DEF a
        <4> QED
          BY <2>1, <2>2, <3>3, AcceptedAt
      <3> QED
        BY <3>2, <3>4
    <2> QED
      BY <2>2, <2>4, KeepHeld
  <1>3. ASSUME NEW w \in Workers, WorkerStep(w) PROVE HeldInv'
    <2>1. UNCHANGED memory
      BY <1>3 DEF WorkerStep, storeVars
    <2>2. \A v \in Workers : worker'[v].batch = worker[v].batch
      <3>1. CASE StartBatch(w)
        BY <3>1 DEF StartBatch, DispatcherType
      <3>2. CASE PublishOk(w)
        BY <3>2 DEF PublishOk, DispatcherType
      <3>3. CASE PublishError(w)
        BY <3>3 DEF PublishError, DispatcherType
      <3> QED
        BY <1>3, <3>1, <3>2, <3>3 DEF WorkerStep
    <2> QED
      BY <2>1, <2>2, KeepHeld
  <1>4. ASSUME NEW w \in Workers, Claim(w) PROVE HeldInv'
    <2>1. PICK events \in Selected(worker[w].now, BatchSize) :
            /\ ClaimPending(worker[w].now, Lease, FreshToken, events)
            /\ Claimed(w, PendingOf(events, FreshToken))
      BY <1>4 DEF Claim
    <2>2. FreshToken \in Tokens /\ worker[w].now \in Nat
      BY <1>4, FreshTokenIsFresh DEF Claim, DispatcherType
    <2> DEFINE batch == PendingOf(events, FreshToken)
    <2>3. /\ DOMAIN batch = DOMAIN events
          /\ \A k \in DOMAIN events :
                /\ events[k] \in Claimable(worker[w].now)
                /\ events[k] \in EventsOf(events)
                /\ batch[k] = [event |-> events[k],
                               attempts |-> memory.events[events[k]].attempts,
                               token |-> FreshToken]
          /\ \A j, k \in DOMAIN events : events[j] = events[k] => j = k
      <3>1. DOMAIN batch = DOMAIN events
        BY DEF PendingOf
      <3>2. \A k \in DOMAIN events :
               batch[k] = [event |-> events[k],
                           attempts |-> memory.events[events[k]].attempts,
                           token |-> FreshToken]
        BY DEF PendingOf
      <3> HIDE DEF batch
      <3>3. /\ \A k \in DOMAIN events : /\ events[k] \in Claimable(worker[w].now)
                                        /\ events[k] \in EventsOf(events)
            /\ \A j, k \in DOMAIN events : events[j] = events[k] => j = k
        BY <2>1, <2>2, ChosenEvents
      <3> QED
        BY <3>1, <3>2, <3>3
    <2> HIDE DEF batch
    <2>4. \A v \in Workers : v = w
      BY LocalServiceAssumption
    <2>5. worker'[w].batch = batch \/ worker'[w].batch = <<>>
      BY <2>1 DEF Claimed, Continue, DispatcherType, Idle, batch
    <2>6. \A e \in EventsOf(events) \cap Requests :
             /\ memory'.events[e].known = memory.events[e].known
             /\ memory'.events[e].attempts = memory.events[e].attempts
             /\ memory'.events[e].claimToken = FreshToken
      BY <2>1, <2>2, ClaimEffect
    <2>7. FreshToken # NoToken
      BY <2>2, NullAssumption
    <2>8. CASE worker'[w].batch = <<>>
      BY <2>4, <2>8, EmptyHeld DEF HeldInv, SoleClaimant
    <2>9. CASE worker'[w].batch = batch
      <3>1. ASSUME NEW k \in DOMAIN batch
            PROVE  /\ memory'.events[batch[k].event].known
                   /\ memory'.events[batch[k].event].claimToken # NoToken
                   /\ memory'.events[batch[k].event].claimToken = batch[k].token
                   /\ memory'.events[batch[k].event].attempts = batch[k].attempts
        <4>1. PICK e \in Requests : e = events[k] /\ e \in EventsOf(events)
                                    /\ memory.events[e].known
          BY <2>3 DEF Claimable
        <4>2. batch[k].event = e /\ batch[k].token = FreshToken
              /\ batch[k].attempts = memory.events[e].attempts
          BY <2>3, <4>1
        <4> QED
          BY <2>6, <2>7, <4>1, <4>2
      <3>2. \A j, k \in DOMAIN batch : batch[j].event = batch[k].event => j = k
        BY <2>3
      <3> QED
        BY <2>4, <2>9, <3>1, <3>2, HoldBatch
    <2> QED
      BY <2>5, <2>8, <2>9
  <1>5. ASSUME NEW w \in Workers, Settle(w) PROVE HeldInv'
    <2>1. worker[w].batch # <<>> /\ Settling(w) /\ memory' = Apply(memory, OutcomeRecord(w))
      BY <1>5, OutcomeIsNoAcceptance DEF Settle, Write
    <2>2. \A v \in Workers : v = w
      BY LocalServiceAssumption
    <2> DEFINE rest == Tail(worker[w].batch)
    <2>3. worker'[w].batch = rest \/ worker'[w].batch = <<>>
      BY <1>5 DEF Settle, Advance, Continue, DispatcherType, Idle
    <2>4. /\ Pending(w) = worker[w].batch[1]
          /\ 1 \in DOMAIN worker[w].batch
          /\ \A k \in DOMAIN rest :
               k + 1 \in DOMAIN worker[w].batch /\ k + 1 # 1
               /\ rest[k] = worker[w].batch[k + 1]
      <3>1. PICK s \in Seq(PendingEvents) : s = worker[w].batch /\ s # <<>>
        BY <1>0, <2>1
      <3> QED
        BY <3>1, TailOfBatch DEF Pending
    <2>5. CASE worker'[w].batch = <<>>
      BY <2>2, <2>5, EmptyHeld DEF HeldInv, SoleClaimant
    <2>6. CASE worker'[w].batch = rest
      <3>1. ASSUME NEW k \in DOMAIN rest
            PROVE  /\ memory'.events[rest[k].event].known
                   /\ memory'.events[rest[k].event].claimToken # NoToken
                   /\ memory'.events[rest[k].event].claimToken = rest[k].token
                   /\ memory'.events[rest[k].event].attempts = rest[k].attempts
        <4>1. PICK n \in DOMAIN worker[w].batch :
                n # 1 /\ rest[k] = worker[w].batch[n]
          BY <2>4
        <4>2. rest[k] \in PendingEvents
          BY <1>0, <4>1
        <4>3. PICK e \in Requests : e = rest[k].event
          BY <4>2 DEF PendingEvents
        <4>4. e # Pending(w).event
          BY <2>4, <4>1, <4>3 DEF HeldInv
        <4>5. memory'.events[e] = memory.events[e]
          BY <2>1, <4>4, OutcomeLeavesOthers
        <4>6. ClaimHeld(e, rest[k].token) /\ memory.events[e].attempts = rest[k].attempts
          BY <4>1, <4>3 DEF HeldInv, SoleClaimant
        <4> QED
          BY <4>3, <4>5, <4>6 DEF ClaimHeld
      <3>2. ASSUME NEW j \in DOMAIN rest, NEW k \in DOMAIN rest,
                   rest[j].event = rest[k].event
            PROVE  j = k
        <4>1. rest[j] = worker[w].batch[j + 1] /\ rest[k] = worker[w].batch[k + 1]
              /\ j + 1 \in DOMAIN worker[w].batch /\ k + 1 \in DOMAIN worker[w].batch
          BY <2>4
        <4>2. j + 1 = k + 1
          BY <3>2, <4>1 DEF HeldInv
        <4>3. j \in Nat /\ k \in Nat
          <5>1. rest \in Seq(PendingEvents)
            BY <1>0, <2>1, TailOfBatch
          <5> HIDE DEF rest
          <5> QED
            BY <5>1
        <4> QED
          BY <4>2, <4>3
      <3> HIDE DEF rest
      <3> QED
        BY <2>2, <2>6, <3>1, <3>2, HoldBatch
    <2> QED
      BY <2>3, <2>5, <2>6
  <1>6. CASE End \/ Start
    <2>1. \A w \in Workers : worker'[w].batch = <<>>
      BY <1>6 DEF End, Start, Stopped, Idle
    <2> QED
      BY <2>1 DEF HeldInv, SoleClaimant
  <1>7. \/ UNCHANGED <<worker, memory>>
        \/ \E r \in Requests : AcceptNew(r)
        \/ \E w \in Workers : WorkerStep(w) \/ Claim(w) \/ Settle(w)
        \/ End \/ Start
    BY DEF Next, RequestNext, Invalid, Submit, AcceptKnown, AcceptFails, WriteFails,
           WorkerNext, SettleFails, Stop, PassTime, Tick, vars, dispatcherVars, storeVars
  <1> QED
    BY <1>1, <1>2, <1>3, <1>4, <1>5, <1>6, <1>7

(* Nothing is stored or held in the beginning.                             *)
LEMMA OnceHeldInit == Init => OnceInv /\ HeldInv
  <1> SUFFICES ASSUME Init PROVE OnceInv /\ HeldInv
    OBVIOUS
  <1>1. HeldInv
    BY EmptyHeld DEF Init, DispatcherInit, Idle
  <1>2. OnceInv
    BY EmptyType DEF Init, OnceInv, Introduced
  <1> QED
    BY <1>1, <1>2

(* The dispatcher of the local process holds the claim of every event in   *)
(* its batch until it settles it, however long that takes and however      *)
(* often the process restarts: claim fencing never ends the process.       *)
THEOREM SoleClaimantCorrect == Spec => []SoleClaimant
  <1>1. Init => TypeInv /\ OnceInv /\ HeldInv
    BY TypeInit, OnceHeldInit
  <1>2. TypeInv /\ OnceInv /\ HeldInv /\ [Next]_vars => (TypeInv /\ OnceInv /\ HeldInv)'
    BY TypeStep, OnceStep, HeldStep
  <1>3. HeldInv => SoleClaimant
    BY DEF HeldInv
  <1> QED
    BY <1>1, <1>2, <1>3, PTL DEF Spec

-----------------------------------------------------------------------------
(* The log is the state.                                                   *)

(* The maps without the claims, which are never logged.                    *)
Unclaimed(m) ==
    [m EXCEPT !.events = [e \in Requests |->
       [@[e] EXCEPT !.leaseUntil = 0, !.claimToken = NoToken]]]

UnclaimedEvent(s) ==
    [known |-> s.known, attempts |-> s.attempts, retryAt |-> s.retryAt, leaseUntil |-> 0,
     claimToken |-> NoToken, published |-> s.published, terminal |-> s.terminal]

(* Maps are equal when their rows and events are.                          *)
LEMMA MemoryEqual ==
    ASSUME NEW m \in Memories, NEW n \in Memories,
           m.transactions = n.transactions,
           \A e \in Requests : m.events[e] = n.events[e]
    PROVE  m = n
  <1>1. /\ m = [transactions |-> m.transactions, events |-> m.events]
        /\ n = [transactions |-> n.transactions, events |-> n.events]
        /\ m.events \in [Requests -> StoredEvents]
        /\ n.events \in [Requests -> StoredEvents]
    BY MemoryParts
  <1>2. m.events = n.events
    BY <1>1
  <1> QED
    BY <1>1, <1>2

(* Dropping the claims drops the lease and the token of every event.       *)
LEMMA UnclaimedAt ==
    ASSUME NEW m \in Memories
    PROVE  /\ Unclaimed(m) \in Memories
           /\ Unclaimed(m).transactions = m.transactions
           /\ \A e \in Requests : Unclaimed(m).events[e] = UnclaimedEvent(m.events[e])
  <1> DEFINE one(e) == [m.events[e] EXCEPT !.leaseUntil = 0, !.claimToken = NoToken]
             changed == [e \in Requests |-> one(e)]
  <1>1. /\ m = [transactions |-> m.transactions, events |-> m.events]
        /\ m.events \in [Requests -> StoredEvents]
        /\ m.transactions \in [Keys -> Rows]
    BY MemoryParts
  <1>2. ASSUME NEW e \in Requests
        PROVE  one(e) \in StoredEvents /\ one(e) = UnclaimedEvent(m.events[e])
    <2>1. PICK s \in StoredEvents : s = m.events[e]
      BY <1>1
    <2> DEFINE after == [s EXCEPT !.leaseUntil = 0, !.claimToken = NoToken]
    <2>2. after \in StoredEvents
      <3>1. 0 \in Nat /\ NoToken \in Tokens \cup {NoToken}
        OBVIOUS
      <3> QED
        BY <3>1, Zenon DEF StoredEvents
    <2>3. PICK x : x = after
      OBVIOUS
    <2>4. /\ x.known = s.known /\ x.attempts = s.attempts /\ x.retryAt = s.retryAt
          /\ x.leaseUntil = 0 /\ x.claimToken = NoToken
          /\ x.published = s.published /\ x.terminal = s.terminal
      BY <2>3, Zenon DEF StoredEvents
    <2>5. x \in StoredEvents
      BY <2>2, <2>3
    <2>6. one(e) = x
      BY <2>1, <2>3
    <2> HIDE DEF after, one
    <2>7. x = UnclaimedEvent(s)
      BY <2>4, <2>5 DEF StoredEvents, UnclaimedEvent
    <2> QED
      BY <2>1, <2>5, <2>6, <2>7
  <1>3. Unclaimed(m) = [m EXCEPT !.events = changed]
    BY DEF Unclaimed
  <1>4. Unclaimed(m) = [transactions |-> m.transactions, events |-> changed]
    <2> HIDE DEF changed
    <2> QED
      BY <1>1, <1>3
  <1>5. changed \in [Requests -> StoredEvents]
    <2> HIDE DEF one
    <2> QED
      BY <1>2
  <1>6. Unclaimed(m) \in Memories
    <2> HIDE DEF changed
    <2> QED
      BY <1>1, <1>4, <1>5, MemoryParts
  <1>7. \A e \in Requests : Unclaimed(m).events[e] = one(e)
    <2>1. Unclaimed(m).events = changed
      <3> HIDE DEF changed
      <3> QED
        BY <1>4
    <2> HIDE DEF one
    <2> QED
      BY <2>1
  <1> HIDE DEF one
  <1> QED
    BY <1>2, <1>4, <1>6, <1>7

(* A record does the same to the maps with and without the claims.         *)
LEMMA ApplyUnclaimed ==
    ASSUME NEW m \in Memories, NEW record \in Lines
    PROVE  Apply(Unclaimed(m), record) = Unclaimed(Apply(m, record))
  <1>1. PICK u \in Memories : u = Unclaimed(m)
    BY UnclaimedAt
  <1>2. u.transactions = m.transactions
    BY <1>1, UnclaimedAt
  <1>3. \A e \in Requests : u.events[e] = UnclaimedEvent(m.events[e])
    BY <1>1, UnclaimedAt
  <1>4. PICK n \in Memories : n = Apply(m, record)
    BY ApplyType
  <1>5. PICK v \in Memories : v = Unclaimed(n)
    BY UnclaimedAt
  <1>6. v.transactions = n.transactions
    BY <1>5, UnclaimedAt
  <1>7. \A e \in Requests : v.events[e] = UnclaimedEvent(n.events[e])
    BY <1>5, UnclaimedAt
  <1>8. PICK x \in Memories : x = Apply(u, record)
    BY ApplyType
  <1>9. x.transactions = v.transactions /\ \A e \in Requests : x.events[e] = v.events[e]
    <2>1. CASE \E a \in Acceptances : record = AcceptedRecord(a)
      <3>1. PICK a \in Acceptances : record = AcceptedRecord(a)
        BY <2>1
      <3>2. x = Apply(u, AcceptedRecord(a))
        BY <1>8, <3>1
      <3>2n. n = Apply(m, AcceptedRecord(a))
        BY <1>4, <3>1
      <3>3. /\ x.transactions = [u.transactions EXCEPT ![Key[a.identity]] =
                                   [id |-> a.id, fingerprint |-> a.fingerprint]]
            /\ n.transactions = [m.transactions EXCEPT ![Key[a.identity]] =
                                   [id |-> a.id, fingerprint |-> a.fingerprint]]
        BY <3>2, <3>2n, AcceptedEffect, Zenon
      <3>4. ASSUME NEW e \in Requests PROVE x.events[e] = v.events[e]
        <4>1. x.events[e] = IF e = a.id THEN NewEvent ELSE u.events[e]
          BY <3>2, AcceptedAt, Zenon
        <4>2. n.events[e] = IF e = a.id THEN NewEvent ELSE m.events[e]
          BY <3>2n, AcceptedAt, Zenon
        <4>3. UnclaimedEvent(NewEvent) = NewEvent
          BY DEF UnclaimedEvent, NewEvent
        <4> QED
          BY <1>3, <1>7, <4>1, <4>2, <4>3
      <3> QED
        BY <1>2, <1>6, <3>3, <3>4
    <2>2. CASE \E f \in Failures : record = FailedRecord(f)
      <3>1. PICK f \in Failures : record = FailedRecord(f)
        BY <2>2
      <3>2. x = Apply(u, FailedRecord(f))
        BY <1>8, <3>1
      <3>2n. n = Apply(m, FailedRecord(f))
        BY <1>4, <3>1
      <3>3. x.transactions = u.transactions /\ n.transactions = m.transactions
        BY <1>4, <1>8, <2>2, OutcomeKeeps
      <3>4. ASSUME NEW e \in Requests PROVE x.events[e] = v.events[e]
        <4>1. x.events[e] =
                IF e = f.event THEN FailedEvent(u.events[e], f) ELSE u.events[e]
          BY <3>2, FailedEventAt, Zenon
        <4>2. n.events[e] =
                IF e = f.event THEN FailedEvent(m.events[e], f) ELSE m.events[e]
          BY <3>2n, FailedEventAt, Zenon
        <4>3. u.events[e] = UnclaimedEvent(m.events[e])
              /\ v.events[e] = UnclaimedEvent(n.events[e])
          BY <1>3, <1>7
        <4> QED
          BY <4>1, <4>2, <4>3 DEF UnclaimedEvent, FailedEvent
      <3> QED
        BY <1>2, <1>6, <3>3, <3>4
    <2>3. CASE \E d \in Requests : record = PublishedRecord(d)
      <3>1. PICK d \in Requests : record = PublishedRecord(d)
        BY <2>3
      <3>2. x = Apply(u, PublishedRecord(d))
        BY <1>8, <3>1
      <3>2n. n = Apply(m, PublishedRecord(d))
        BY <1>4, <3>1
      <3>3. x.transactions = u.transactions /\ n.transactions = m.transactions
        BY <1>4, <1>8, <2>3, OutcomeKeeps
      <3>4. ASSUME NEW e \in Requests PROVE x.events[e] = v.events[e]
        <4>1. x.events[e] =
                IF e = d
                THEN [known |-> u.events[e].known, attempts |-> u.events[e].attempts,
                      retryAt |-> u.events[e].retryAt, leaseUntil |-> 0,
                      claimToken |-> NoToken, published |-> TRUE,
                      terminal |-> u.events[e].terminal]
                ELSE u.events[e]
          BY <3>2, PublishedAt, Zenon
        <4>2. n.events[e] =
                IF e = d
                THEN [known |-> m.events[e].known, attempts |-> m.events[e].attempts,
                      retryAt |-> m.events[e].retryAt, leaseUntil |-> 0,
                      claimToken |-> NoToken, published |-> TRUE,
                      terminal |-> m.events[e].terminal]
                ELSE m.events[e]
          BY <3>2n, PublishedAt, Zenon
        <4>3. u.events[e] = UnclaimedEvent(m.events[e])
              /\ v.events[e] = UnclaimedEvent(n.events[e])
          BY <1>3, <1>7
        <4>4. CASE e # d
          BY <4>1, <4>2, <4>3, <4>4
        <4>5. CASE e = d
          <5>1. PICK p : p = TRUE
            OBVIOUS
          <5>2. n.events[e] =
                  [known |-> m.events[e].known, attempts |-> m.events[e].attempts,
                   retryAt |-> m.events[e].retryAt, leaseUntil |-> 0,
                   claimToken |-> NoToken, published |-> p,
                   terminal |-> m.events[e].terminal]
            BY <4>2, <4>5, <5>1
          <5>3. x.events[e] =
                  [known |-> u.events[e].known, attempts |-> u.events[e].attempts,
                   retryAt |-> u.events[e].retryAt, leaseUntil |-> 0,
                   claimToken |-> NoToken, published |-> p,
                   terminal |-> u.events[e].terminal]
            BY <4>1, <4>5, <5>1
          <5> QED
            BY <4>3, <5>2, <5>3 DEF UnclaimedEvent
        <4> QED
          BY <4>4, <4>5
      <3> QED
        BY <1>2, <1>6, <3>3, <3>4
    <2> QED
      BY <2>1, <2>2, <2>3, LineKinds
  <1>10. x = v
    BY <1>9, MemoryEqual
  <1> QED
    BY <1>1, <1>4, <1>5, <1>8, <1>10

(* The maps rebuilt from a log hold no claim.                              *)
LEMMA ReplayUnclaimed ==
    ASSUME NEW lines \in Seq(LogRecords), Readable(lines)
    PROVE  Unclaimed(Replay(lines)) = Replay(lines)
  <1> DEFINE M == {m \in Memories : Unclaimed(m) = m}
  <1>1. Unclaimed(Empty) = Empty
    <2>1. PICK u \in Memories : u = Unclaimed(Empty)
      BY EmptyType, UnclaimedAt
    <2>2. u.transactions = Empty.transactions
          /\ \A e \in Requests : u.events[e] = UnclaimedEvent(Empty.events[e])
      BY <2>1, EmptyType, UnclaimedAt
    <2>3. \A e \in Requests : UnclaimedEvent(Empty.events[e]) = Empty.events[e]
      BY DEF UnclaimedEvent, Empty, NewEvent
    <2> QED
      BY <2>1, <2>2, <2>3, EmptyType, MemoryEqual
  <1>2. Empty \in M /\ Len(lines) \in Nat
    BY <1>1, EmptyType
  <1>3. ASSUME NEW m \in Memories, Unclaimed(m) = m, NEW k \in 1..Len(lines)
        PROVE  Apply(m, lines[k]) \in M
    <2>1. PICK record \in Lines : record = lines[k]
      BY ReadableLines
    <2>2. Apply(m, record) \in Memories
      BY ApplyType
    <2>3. Unclaimed(Apply(m, record)) = Apply(m, record)
      BY <1>3, ApplyUnclaimed
    <2> QED
      BY <2>1, <2>2, <2>3
  <1>4. \A m \in M : \A k \in 1..Len(lines) : Apply(m, lines[k]) \in M
    BY <1>3
  <1>5. Replay(lines) \in M
    <2> HIDE DEF M
    <2> QED
      BY <1>2, <1>4, ReplayIn
  <1> QED
    BY <1>5

LogStateInv == process = "up" /\ Durable => Replay(log) = Unclaimed(memory)

(* A record that is appended and applied keeps log and maps together.      *)
LEMMA WriteKeepsLog ==
    ASSUME memory \in Memories, log \in Seq(LogRecords), LogStateInv,
           process = "up", UNCHANGED driver, NEW record \in Lines, Write(record)
    PROVE  LogStateInv'
  <1> SUFFICES ASSUME Durable PROVE Replay(log') = Unclaimed(memory')
    BY DEF LogStateInv, Durable
  <1>1. log' = Append(log, record) /\ memory' = Apply(memory, record)
    BY DEF Write
  <1>2. record \in LogRecords
    BY DEF Lines
  <1>3. Replay(log') = Apply(Replay(log), record)
    BY <1>1, <1>2, ReplayAppend
  <1>4. Replay(log) = Unclaimed(memory)
    BY DEF LogStateInv
  <1> QED
    BY <1>1, <1>3, <1>4, ApplyUnclaimed

(* A claim leaves what is logged as it is.                                 *)
LEMMA ClaimKeepsLog ==
    ASSUME memory \in Memories, NEW now \in Nat, NEW token \in Tokens, NEW events,
           ClaimPending(now, Lease, token, events)
    PROVE  Unclaimed(memory') = Unclaimed(memory)
  <1>1. PICK m \in Memories : m = memory'
    BY ClaimEffect
  <1>2. m.transactions = memory.transactions
    BY <1>1, ClaimEffect
  <1>3. \A e \in Requests : UnclaimedEvent(m.events[e]) = UnclaimedEvent(memory.events[e])
    <2> SUFFICES ASSUME NEW e \in Requests
                 PROVE  UnclaimedEvent(m.events[e]) = UnclaimedEvent(memory.events[e])
      OBVIOUS
    <2>1. /\ m.events[e].known = memory.events[e].known
          /\ m.events[e].attempts = memory.events[e].attempts
          /\ m.events[e].retryAt = memory.events[e].retryAt
          /\ m.events[e].published = memory.events[e].published
          /\ m.events[e].terminal = memory.events[e].terminal
      BY <1>1, ClaimEffect
    <2> QED
      BY <2>1 DEF UnclaimedEvent
  <1>4. PICK u \in Memories, v \in Memories : u = Unclaimed(m) /\ v = Unclaimed(memory)
    BY UnclaimedAt
  <1>5. u.transactions = v.transactions
    BY <1>2, <1>4, UnclaimedAt
  <1>6. \A e \in Requests : u.events[e] = v.events[e]
    <2>1. \A e \in Requests : u.events[e] = UnclaimedEvent(m.events[e])
      BY <1>4, UnclaimedAt
    <2>2. \A e \in Requests : v.events[e] = UnclaimedEvent(memory.events[e])
      BY <1>4, UnclaimedAt
    <2> QED
      BY <1>3, <2>1, <2>2
  <1>7. u = v
    BY <1>5, <1>6, MemoryEqual
  <1> QED
    BY <1>1, <1>4, <1>7

(* Every step keeps the log and the maps together.                         *)
LEMMA LogStateStep ==
    ASSUME AppendFaults \subseteq {"nothing"}, TypeInv, LogStateInv,
           process = "down" => \A w \in Workers : worker[w].pc = "stopped",
           process = "down" => \A r \in Requests : request[r].pc # "accepting",
           [Next]_vars
    PROVE  LogStateInv'
  <1> USE DEF TypeInv, TypeOK
  <1>1. UNCHANGED driver
    BY DEF Next, vars
  <1>2. CASE UNCHANGED <<memory, log, process>>
    BY <1>1, <1>2 DEF LogStateInv, Durable
  <1>3. ASSUME NEW r \in Requests, AcceptNew(r) PROVE LogStateInv'
    <2>1. AcceptedRecord(Acceptance(r)) \in Lines
      BY AcceptanceType, WrittenRecords
    <2>2. process = "up" /\ Write(AcceptedRecord(Acceptance(r))) /\ UNCHANGED process
      BY <1>3 DEF AcceptNew
    <2>3. LogStateInv'
      BY <1>1, <2>1, <2>2, WriteKeepsLog
    <2> QED
      BY <2>3
  <1>4. ASSUME NEW r \in Requests, AcceptFails(r) PROVE LogStateInv'
    <2>1. AcceptedRecord(Acceptance(r)) \in LogRecords
      BY AcceptanceType, WrittenRecords DEF Lines
    <2>2. UNCHANGED <<memory, process>>
      BY <1>4 DEF AcceptFails, WriteFails
    <2>3. PICK lines \in Leftovers(AcceptedRecord(Acceptance(r))) : log' = log \o lines
      BY <1>4 DEF AcceptFails, WriteFails
    <2>4. log' = log
      BY <2>1, <2>3, LogAfterFailure
    <2> QED
      BY <1>2, <2>2, <2>4
  <1>5. ASSUME NEW w \in Workers, Claim(w) PROVE LogStateInv'
    <2>1. PICK events \in Selected(worker[w].now, BatchSize) :
            ClaimPending(worker[w].now, Lease, FreshToken, events)
      BY <1>5 DEF Claim
    <2>2. FreshToken \in Tokens /\ worker[w].now \in Nat
      BY <1>5, FreshTokenIsFresh DEF Claim, DispatcherType
    <2>3. Unclaimed(memory') = Unclaimed(memory)
      BY <2>1, <2>2, ClaimKeepsLog
    <2>4. UNCHANGED <<log, process>>
      BY <1>5, <2>1 DEF Claim, ClaimPending
    <2> QED
      BY <1>1, <2>3, <2>4 DEF LogStateInv, Durable
  <1>6. ASSUME NEW w \in Workers, Settle(w) PROVE LogStateInv'
    <2>1. OutcomeRecord(w) \in Lines
      BY <1>6, OutcomeRecordType DEF Settle
    <2>2. process = "up" /\ Write(OutcomeRecord(w)) /\ UNCHANGED process
      BY <1>6 DEF Settle, Settling
    <2> QED
      BY <1>1, <2>1, <2>2, WriteKeepsLog
  <1>7. CASE End
    BY <1>7 DEF End, LogStateInv
  <1>8. CASE Start
    <2>1. UNCHANGED log /\ memory' = Replay(log) /\ Readable(log)
      BY <1>8 DEF Start, NewStore
    <2> QED
      BY <2>1, ReplayUnclaimed DEF LogStateInv
  <1>9. \/ UNCHANGED <<memory, log, process>>
        \/ \E r \in Requests : AcceptNew(r) \/ AcceptFails(r)
        \/ \E w \in Workers : Claim(w) \/ Settle(w)
        \/ End \/ Start
    BY DEF Next, RequestNext, Invalid, Submit, AcceptKnown, WorkerNext, WorkerStep,
           SettleFails, Stop, PassTime, vars, storeVars
  <1> QED
    BY <1>2, <1>3, <1>4, <1>5, <1>6, <1>7, <1>8, <1>9

(* Nothing is in flight while the process is down.                         *)
DownInv ==
    process = "down" => /\ \A w \in Workers : worker[w].pc = "stopped"
                        /\ \A r \in Requests : request[r].pc # "accepting"
                        /\ Durable

(* Nothing starts to move while the process is down.                       *)
LEMMA DownStep ==
    ASSUME TypeInv, DownInv, [Next]_vars
    PROVE  DownInv'
  <1> USE DEF TypeInv, TypeOK
  <1>1. UNCHANGED driver
    BY DEF Next, vars
  <1>2. CASE process = "up" /\ UNCHANGED process
    BY <1>2 DEF DownInv
  <1>3. CASE End
    <2>1. End /\ Durable
      BY <1>3 DEF Next, RequestNext, Invalid, Submit, AcceptKnown, AcceptNew, AcceptFails,
                  WorkerNext, WorkerStep, Claim, Settle, SettleFails, Stop, Start,
                  PassTime, vars, End
    <2> QED
      BY <1>1, <2>1, EndLoses DEF End, Stopped, DownInv, Durable
  <1>4. CASE Start
    BY <1>4 DEF Start, DownInv
  <1>5. CASE process = "down" /\ UNCHANGED <<process, worker, request>>
    BY <1>1, <1>5 DEF DownInv, Durable
  <1>6. CASE process = "down" /\ ~ Start
    BY <1>5, <1>6 DEF DownInv, Next, RequestNext, Invalid, Submit, AcceptKnown, AcceptNew,
       AcceptFails, WorkerNext, WorkerStep, StartBatch, PublishOk, PublishError, Claim,
       Settle, SettleFails, Settling, Stop, End, PassTime, Tick, vars, intakeVars,
       dispatcherVars
  <1>7. process = "up" => UNCHANGED process \/ End
    BY DEF Next, RequestNext, Invalid, Submit, AcceptKnown, AcceptNew, AcceptFails,
           WorkerNext, WorkerStep, Claim, Settle, SettleFails, Stop, Start, PassTime, vars
  <1> QED
    BY <1>2, <1>3, <1>4, <1>6, <1>7

(* The process is up in the beginning.                                     *)
LEMMA DownInit == Init => DownInv
  BY DEF Init, DownInv

(* Log and maps are empty in the beginning.                                *)
LEMMA LogStateInit == Init => LogStateInv
  <1> SUFFICES ASSUME Init PROVE Replay(log) = Unclaimed(memory)
    BY DEF LogStateInv
  <1>1. Readable(<<>>) /\ <<>> \in Seq(LogRecords)
    BY DEF Readable
  <1>2. Unclaimed(Replay(<<>>)) = Replay(<<>>)
    BY <1>1, ReplayUnclaimed
  <1> QED
    BY <1>2, ReplayEmpty DEF Init

(* As long as a failed append leaves nothing behind, a restart rebuilds    *)
(* exactly the maps of the process that ended, whichever records were      *)
(* written in which order; only the claims are gone.                       *)
THEOREM LogIsStateCorrect ==
    ASSUME AppendFaults \subseteq {"nothing"}
    PROVE  Spec => []LogIsState
  <1>1. Init => TypeInv /\ DownInv /\ LogStateInv
    BY TypeInit, DownInit, LogStateInit
  <1>2. TypeInv /\ DownInv /\ LogStateInv /\ [Next]_vars
           => (TypeInv /\ DownInv /\ LogStateInv)'
    <2> SUFFICES ASSUME TypeInv, DownInv, LogStateInv, [Next]_vars
                 PROVE  TypeInv' /\ DownInv' /\ LogStateInv'
      OBVIOUS
    <2>1. TypeInv' /\ DownInv'
      BY TypeStep, DownStep
    <2>2. LogStateInv'
      BY LogStateStep DEF DownInv
    <2> QED
      BY <2>1, <2>2
  <1>3. LogStateInv => LogIsState
    BY DEF LogStateInv, LogIsState, Unclaimed
  <1> QED
    BY <1>1, <1>2, <1>3, PTL DEF Spec

-----------------------------------------------------------------------------
(* Replies survive.                                                        *)

(* One more line keeps the log readable when its event was introduced.     *)
LEMMA ReadableAppend ==
    ASSUME NEW lines \in Seq(LogRecords), Readable(lines), NEW record \in Lines,
           record.kind = "failed" => record.of.event \in Introduced(lines),
           record.kind = "published" => record.of \in Introduced(lines)
    PROVE  Readable(Append(lines, record))
  <1> DEFINE longer == Append(lines, record)
  <1>1. PICK n \in Nat : n = Len(lines)
    OBVIOUS
  <1>2. /\ DOMAIN longer = 1..(n + 1) /\ DOMAIN lines = 1..n
        /\ longer[n + 1] = record
        /\ \A k \in 1..n : longer[k] = lines[k]
        /\ longer \in Seq(LogRecords)
    BY <1>1 DEF Lines
  <1> HIDE DEF longer
  <1>3. ASSUME NEW k \in 1..(n + 1)
        PROVE  SubSeq(longer, 1, k - 1) = SubSeq(lines, 1, k - 1)
    <2>1. k - 1 \in 0..n
      OBVIOUS
    <2>2. \A i \in 1..(k - 1) : longer[i] = lines[i]
      BY <1>2
    <2>3. PICK x, y : x = SubSeq(longer, 1, k - 1) /\ y = SubSeq(lines, 1, k - 1)
      OBVIOUS
    <2>4. PICK j \in Nat : j = k - 1 /\ j <= n
      BY <2>1
    <2>5. \A i \in 1..j : longer[i] \in LogRecords /\ lines[i] \in LogRecords
      BY <1>1, <1>2, <2>4
    <2>6. x \in Seq(LogRecords) /\ Len(x) = (IF 1 <= j THEN j - 1 + 1 ELSE 0)
          /\ \A i \in 1..(j - 1 + 1) : x[i] = longer[1 + i - 1]
      BY <2>3, <2>4, <2>5, SubSeqProperties
    <2>7. y \in Seq(LogRecords) /\ Len(y) = (IF 1 <= j THEN j - 1 + 1 ELSE 0)
          /\ \A i \in 1..(j - 1 + 1) : y[i] = lines[1 + i - 1]
      BY <2>3, <2>4, <2>5, SubSeqProperties
    <2>8. Len(x) = j /\ Len(y) = j /\ \A i \in 1..j : x[i] = y[i]
      <3>1. Len(x) = j /\ Len(y) = j
        BY <2>4, <2>6, <2>7
      <3>2. ASSUME NEW i \in 1..j PROVE x[i] = y[i]
        <4>1. i \in 1..(j - 1 + 1) /\ 1 + i - 1 = i
          BY <2>4
        <4>2. x[i] = longer[i] /\ y[i] = lines[i]
          BY <2>6, <2>7, <4>1
        <4> QED
          BY <2>2, <2>4, <4>2
      <3> QED
        BY <3>1, <3>2
    <2>9. x = y
      BY <2>6, <2>7, <2>8
    <2> QED
      BY <2>3, <2>9
  <1>4. SubSeq(lines, 1, (n + 1) - 1) = lines
    BY <1>1
  <1>5. ASSUME NEW k \in 1..(n + 1)
        PROVE  LET before == Introduced(SubSeq(longer, 1, k - 1))
               IN  /\ longer[k] # Torn
                   /\ longer[k].kind = "failed" => longer[k].of.event \in before
                   /\ longer[k].kind = "published" => longer[k].of \in before
    <2>1. CASE k \in 1..n
      BY <1>2, <1>3, <2>1 DEF Readable
    <2>2. CASE k = n + 1
      <3>1. record # Torn
        BY DEF Lines
      <3> QED
        BY <1>2, <1>3, <1>4, <2>2, <3>1
    <2> QED
      BY <2>1, <2>2
  <1> QED
    BY <1>2, <1>5 DEF Readable, longer

(* The maps that are durable: what a restart rebuilds.                     *)
Rebuilt == IF Durable THEN Replay(log) ELSE memory

Row(k) == Rebuilt.transactions[k]

Promised(q) == request[q].reply.code \in {"created", "replayed", "conflict"}

(* What the answer of a request says of the row of its identity.           *)
Kept(q) ==
    LET row == Row(Key[request[q].identity])
        own == Fingerprint(request[q].identity, request[q].body)
    IN  /\ request[q].reply.code = "created" => row = [id |-> q, fingerprint |-> own]
        /\ request[q].reply.code = "replayed" =>
              row = [id |-> request[q].reply.id, fingerprint |-> own]
        /\ request[q].reply.code = "conflict" =>
              row # NoTransaction /\ row.fingerprint # own

(* The running process knows every row that it has answered from, so it    *)
(* appends no other acceptance for that identity; and it knows no event    *)
(* that the log has not introduced, so it appends no outcome that would    *)
(* make the log unreadable.                                                *)
RowsInv ==
    /\ Readable(log)
    /\ process = "up" /\ Durable =>
         \A e \in Requests : memory.events[e].known => e \in Introduced(log)
    /\ process = "up" =>
         \A k \in Keys : memory.transactions[k] # NoTransaction
                            => Row(k) = memory.transactions[k]
    /\ \A q \in Requests : Promised(q) =>
         /\ request[q].pc = "answered"
         /\ Kept(q)
         /\ process = "up" => memory.transactions[Key[request[q].identity]] # NoTransaction

(* Maps rebuilt from a readable log are well-formed.                       *)
LEMMA RebuiltType ==
    ASSUME TypeInv, Readable(log)
    PROVE  Rebuilt \in Memories
  BY ReplayType DEF TypeInv, TypeOK, Rebuilt

(* Every request has a key of the maps.                                    *)
LEMMA KeyType ==
    ASSUME TypeInv, NEW q \in Requests
    PROVE  Key[request[q].identity] \in Keys
  BY LocalStoreAssumption DEF TypeInv, TypeOK, RequestType

(* What one append does to the durable rows.                               *)
LEMMA RebuiltStep ==
    ASSUME TypeInv, Readable(log), UNCHANGED driver, NEW record \in Lines,
           Durable => log' \in {log, Append(log, record)},
           ~ Durable => memory' \in {memory, Apply(memory, record)},
           NEW k \in Keys
    PROVE  \/ Row(k)' = Row(k)
           \/ \E a \in Acceptances :
                 /\ record = AcceptedRecord(a)
                 /\ k = Key[a.identity]
                 /\ Row(k)' = [id |-> a.id, fingerprint |-> a.fingerprint]
  <1>1. PICK m \in Memories : m = Rebuilt
    BY RebuiltType
  <1>2. Rebuilt' = m \/ Rebuilt' = Apply(m, record)
    <2>1. CASE Durable
      <3>1. m = Replay(log) /\ Rebuilt' = Replay(log')
        BY <1>1, <2>1 DEF Rebuilt, Durable
      <3>2. log' = Append(log, record) => Replay(log') = Apply(Replay(log), record)
        BY ReplayAppend DEF TypeInv, TypeOK, Lines
      <3> QED
        BY <2>1, <3>1, <3>2
    <2>2. CASE ~ Durable
      BY <1>1, <2>2 DEF Rebuilt, Durable
    <2> QED
      BY <2>1, <2>2
  <1>3. CASE Rebuilt' = m
    BY <1>1, <1>3 DEF Row
  <1>4. CASE Rebuilt' = Apply(m, record)
    <2>1. Row(k) = m.transactions[k] /\ Row(k)' = Apply(m, record).transactions[k]
      BY <1>1, <1>4 DEF Row
    <2>2. CASE \E a \in Acceptances : record = AcceptedRecord(a)
      <3>1. PICK a \in Acceptances : record = AcceptedRecord(a)
        BY <2>2
      <3>2. Apply(m, AcceptedRecord(a)).transactions[k] =
              IF k = Key[a.identity] THEN [id |-> a.id, fingerprint |-> a.fingerprint]
              ELSE m.transactions[k]
        BY AcceptedAt, Zenon
      <3> QED
        BY <2>1, <3>1, <3>2
    <2>3. CASE \/ \E f \in Failures : record = FailedRecord(f)
               \/ \E d \in Requests : record = PublishedRecord(d)
      <3>1. Apply(m, record).transactions = m.transactions
        BY <2>3, OutcomeKeeps, Zenon
      <3> QED
        BY <2>1, <3>1
    <2> QED
      BY <2>2, <2>3, LineKinds
  <1> QED
    BY <1>2, <1>3, <1>4

(* An answer is kept as long as neither it nor its row changes.            *)
LEMMA KeptStays ==
    ASSUME NEW q \in Requests, Kept(q),
           request'[q].identity = request[q].identity,
           request'[q].body = request[q].body,
           request'[q].reply = request[q].reply,
           NEW k \in Keys, k = Key[request[q].identity], Row(k)' = Row(k)
    PROVE  Kept(q)'
  BY DEF Kept, Row, Fingerprint

(* What the end of a request changes of it.                                *)
LEMMA FinishEffect ==
    ASSUME request \in RequestType, NEW r \in Requests, NEW outcome,
           FinishAccept(r, outcome)
    PROVE  /\ request'[r].pc = "answered"
           /\ request'[r].identity = request[r].identity
           /\ request'[r].body = request[r].body
           /\ request'[r].reply = Reply(r, outcome)
           /\ \A q \in Requests \ {r} : request'[q] = request[q]
  <1>1. PICK reply : reply = Reply(r, outcome)
    OBVIOUS
  <1>2. request' = [request EXCEPT ![r].pc = "answered", ![r].reply = reply]
    BY <1>1, Zenon DEF FinishAccept
  <1> QED
    BY <1>1, <1>2 DEF RequestType

(* Reading a batch, publishing or claiming changes no row.                 *)
LEMMA SameRows ==
    ASSUME TypeInv, RowsInv, UNCHANGED <<driver, request, log, process>>,
           memory'.transactions = memory.transactions,
           \A e \in Requests : memory'.events[e].known = memory.events[e].known
    PROVE  RowsInv'
  <1>1. ASSUME NEW k \in Keys PROVE Row(k)' = Row(k)
    BY DEF Row, Rebuilt, Durable
  <1>2. ASSUME NEW q \in Requests, Promised(q)
        PROVE  /\ request[q].pc = "answered"
               /\ Kept(q)'
               /\ process = "up" => memory.transactions[Key[request[q].identity]]
                                       # NoTransaction
    <2>1. PICK k \in Keys : k = Key[request[q].identity]
      BY KeyType
    <2>2. Kept(q)'
      BY <1>1, <1>2, <2>1, KeptStays DEF RowsInv
    <2> QED
      BY <1>2, <2>2 DEF RowsInv
  <1>3. \A k \in Keys : memory'.transactions[k] # NoTransaction /\ process' = "up"
                           => Row(k)' = memory'.transactions[k]
    BY <1>1 DEF RowsInv
  <1>4. \A q \in Requests : Promised(q)' => Promised(q)
    BY DEF Promised
  <1> QED
    BY <1>2, <1>3, <1>4 DEF RowsInv, Durable

(* An answer without an append is about a row that is known.               *)
LEMMA QuietRows ==
    ASSUME TypeInv, RowsInv, UNCHANGED <<driver, memory, log, process>>,
           NEW r \in Requests,
           \A q \in Requests \ {r} : request'[q] = request[q],
           Promised(r)' =>
              /\ request'[r].pc = "answered"
              /\ Kept(r)'
              /\ process = "up" => memory.transactions[Key[request'[r].identity]]
                                      # NoTransaction
    PROVE  RowsInv'
  <1>1. ASSUME NEW k \in Keys PROVE Row(k)' = Row(k)
    BY DEF Row, Rebuilt, Durable
  <1>2. ASSUME NEW q \in Requests, Promised(q)'
        PROVE  /\ request'[q].pc = "answered"
               /\ Kept(q)'
               /\ process' = "up" => memory'.transactions[Key[request'[q].identity]]
                                        # NoTransaction
    <2>1. CASE q = r
      BY <1>2, <2>1
    <2>2. CASE q # r
      <3>1. request'[q] = request[q] /\ Promised(q)
        BY <1>2, <2>2 DEF Promised
      <3>2. PICK k \in Keys : k = Key[request[q].identity]
        BY KeyType
      <3>3. Kept(q)'
        BY <1>1, <3>1, <3>2, KeptStays DEF RowsInv
      <3> QED
        BY <3>1, <3>3 DEF RowsInv
    <2> QED
      BY <2>1, <2>2
  <1> QED
    BY <1>1, <1>2 DEF RowsInv, Durable, Row

(* The answer to a request whose identity is known.                        *)
LEMMA KnownRows ==
    ASSUME TypeInv, DownInv, RowsInv, UNCHANGED driver, NEW r \in Requests, AcceptKnown(r)
    PROVE  RowsInv'
  <1> USE DEF TypeInv, TypeOK
  <1> DEFINE a == Acceptance(r)
             row == Existing(a)
  <1>1. PICK k \in Keys : k = Key[request[r].identity]
    BY KeyType
  <1>2. /\ a.identity = request[r].identity
        /\ a.fingerprint = Fingerprint(request[r].identity, request[r].body)
    BY DEF Acceptance
  <1>3. /\ process = "up" /\ request[r].pc = "accepting"
        /\ row = memory.transactions[k] /\ row # NoTransaction
        /\ FinishAccept(r, KnownOutcome(a))
        /\ UNCHANGED <<memory, log, process>>
    BY <1>1, <1>2 DEF AcceptKnown, Known, Existing, DownInv, storeVars
  <1>4. /\ row \in Rows
        /\ row.id \in Requests
        /\ row = [id |-> row.id, fingerprint |-> row.fingerprint]
    <2>1. memory.transactions[k] \in Rows
      BY MemoryParts
    <2> QED
      BY <1>3, <2>1 DEF Rows
  <1>5. Row(k)' = row
    BY <1>3 DEF RowsInv, Row, Rebuilt, Durable
  <1>6. /\ request'[r].pc = "answered"
        /\ request'[r].identity = request[r].identity
        /\ request'[r].body = request[r].body
        /\ request'[r].reply = Reply(r, KnownOutcome(a))
        /\ \A q \in Requests \ {r} : request'[q] = request[q]
    BY <1>3, FinishEffect
  <1>7. Kept(r)'
    <2>1. CASE row.fingerprint = a.fingerprint
      <3>1. KnownOutcome(a) = [kind |-> "replay", id |-> row.id]
        BY <2>1 DEF KnownOutcome, StoreReplay
      <3>2. row.id # NoId
        BY <1>4, NullAssumption
      <3>3. Reply(r, KnownOutcome(a)) = [code |-> "replayed", id |-> row.id]
        BY <3>1, <3>2 DEF Reply
      <3> QED
        BY <1>1, <1>2, <1>4, <1>5, <1>6, <2>1, <3>3 DEF Kept, Row
    <2>2. CASE row.fingerprint # a.fingerprint
      <3>1. KnownOutcome(a) = [kind |-> "conflict", id |-> NoId]
        BY <2>2 DEF KnownOutcome, StoreConflict
      <3>2. Reply(r, KnownOutcome(a)) = [code |-> "conflict", id |-> NoId]
        BY <3>1 DEF Reply
      <3> QED
        BY <1>1, <1>2, <1>3, <1>5, <1>6, <2>2, <3>2 DEF Kept, Row
    <2> QED
      BY <2>1, <2>2
  <1>8. memory.transactions[Key[request'[r].identity]] # NoTransaction
    BY <1>1, <1>3, <1>6
  <1> QED
    BY <1>3, <1>6, <1>7, <1>8, QuietRows

(* The append of a new acceptance leaves every row that is known alone.    *)
LEMMA AppendKeeps ==
    ASSUME TypeInv, RowsInv, UNCHANGED driver, NEW r \in Requests,
           ~ Known(Acceptance(r)),
           Durable => log' \in {log, Append(log, AcceptedRecord(Acceptance(r)))},
           ~ Durable => memory' \in {memory, Apply(memory, AcceptedRecord(Acceptance(r)))},
           NEW k \in Keys, memory.transactions[k] # NoTransaction
    PROVE  Row(k)' = Row(k)
  <1>1. PICK record \in Lines : record = AcceptedRecord(Acceptance(r))
    BY AcceptanceType, WrittenRecords DEF TypeInv, TypeOK
  <1>2. \/ Row(k)' = Row(k)
        \/ \E a \in Acceptances : record = AcceptedRecord(a) /\ k = Key[a.identity]
    BY <1>1, RebuiltStep DEF RowsInv
  <1>3. ASSUME NEW a \in Acceptances, record = AcceptedRecord(a), k = Key[a.identity]
        PROVE  FALSE
    <2>1. a = Acceptance(r)
      BY <1>1, <1>3 DEF AcceptedRecord
    <2> QED
      BY <1>3, <2>1 DEF Known, Existing
  <1> QED
    BY <1>2, <1>3

(* A new acceptance keeps the log readable, whatever becomes of it.        *)
LEMMA AcceptanceReadable ==
    ASSUME TypeInv, Readable(log), NEW r \in Requests,
           log' \in {log, Append(log, AcceptedRecord(Acceptance(r)))}
    PROVE  Readable(log')
  <1>1. PICK record \in Lines : record = AcceptedRecord(Acceptance(r))
    BY AcceptanceType, WrittenRecords DEF TypeInv, TypeOK
  <1>2. record.kind # "failed" /\ record.kind # "published"
    BY <1>1 DEF AcceptedRecord
  <1> QED
    BY <1>1, <1>2, ReadableAppend DEF TypeInv, TypeOK

(* What was promised to the others is kept when a request is appended.     *)
LEMMA OthersKept ==
    ASSUME TypeInv, RowsInv, NEW q \in Requests, Promised(q), process = "up",
           request'[q] = request[q],
           \A k \in Keys : memory.transactions[k] # NoTransaction => Row(k)' = Row(k)
    PROVE  request[q].pc = "answered" /\ Kept(q)'
           /\ memory.transactions[Key[request[q].identity]] # NoTransaction
  <1>1. PICK k \in Keys : k = Key[request[q].identity]
    BY KeyType
  <1>2. /\ request[q].pc = "answered" /\ Kept(q)
        /\ memory.transactions[k] # NoTransaction
    BY <1>1 DEF RowsInv
  <1>3. Row(k)' = Row(k)
    BY <1>2
  <1>4. Kept(q)'
    BY <1>1, <1>2, <1>3, KeptStays
  <1> QED
    BY <1>1, <1>2, <1>4

(* A new row: in the log, in the maps and in the answer.                   *)
LEMMA NewRows ==
    ASSUME TypeInv, DownInv, RowsInv, UNCHANGED driver, NEW r \in Requests, AcceptNew(r)
    PROVE  RowsInv'
  <1> USE DEF TypeInv, TypeOK
  <1>1. PICK a \in Acceptances : a = Acceptance(r) /\ a.id = r
    BY AcceptanceType
  <1>2. PICK record \in Lines : record = AcceptedRecord(a) /\ record \in LogRecords
    BY WrittenRecords DEF Lines
  <1>3. record.kind = "accepted" /\ record.of.id = r
    BY <1>1, <1>2 DEF AcceptedRecord
  <1>4. /\ process = "up" /\ process' = "up" /\ ~ Known(Acceptance(r))
        /\ memory' = Apply(memory, record)
        /\ log' = IF Durable THEN Append(log, record) ELSE log
        /\ FinishAccept(r, StoreAccepted(r))
    BY <1>1, <1>2 DEF AcceptNew, Write, DownInv
  <1>5. /\ request'[r].pc = "answered"
        /\ request'[r].identity = request[r].identity
        /\ request'[r].body = request[r].body
        /\ request'[r].reply = Reply(r, StoreAccepted(r))
        /\ \A q \in Requests \ {r} : request'[q] = request[q]
    BY <1>4, FinishEffect
  <1>6. PICK k0 \in Keys : k0 = Key[request[r].identity]
    BY KeyType
  <1>7. /\ k0 = Key[a.identity]
        /\ a.fingerprint = Fingerprint(request[r].identity, request[r].body)
    BY <1>1, <1>6 DEF Acceptance
  <1> DEFINE row == [id |-> a.id, fingerprint |-> a.fingerprint]
  <1>8. PICK m \in Memories : m = Rebuilt
    BY RebuiltType DEF RowsInv
  <1>9. Rebuilt' = Apply(m, record)
    <2>1. CASE Durable
      <3>1. log' = Append(log, record) /\ Replay(log') = Apply(Replay(log), record)
        BY <1>2, <1>4, <2>1, ReplayAppend
      <3> QED
        BY <1>8, <2>1, <3>1 DEF Rebuilt, Durable
    <2>2. CASE ~ Durable
      BY <1>4, <1>8, <2>2 DEF Rebuilt, Durable
    <2> QED
      BY <2>1, <2>2
  <1>10. \A k \in Keys : /\ Row(k)' = IF k = k0 THEN row ELSE m.transactions[k]
                         /\ memory'.transactions[k] =
                              IF k = k0 THEN row ELSE memory.transactions[k]
    <2> SUFFICES ASSUME NEW k \in Keys
                 PROVE  /\ Row(k)' = IF k = k0 THEN row ELSE m.transactions[k]
                        /\ memory'.transactions[k] =
                             IF k = k0 THEN row ELSE memory.transactions[k]
      OBVIOUS
    <2>1. Apply(m, AcceptedRecord(a)).transactions[k] =
            IF k = Key[a.identity] THEN [id |-> a.id, fingerprint |-> a.fingerprint]
            ELSE m.transactions[k]
      BY AcceptedAt, Zenon
    <2>2. Apply(memory, AcceptedRecord(a)).transactions[k] =
            IF k = Key[a.identity] THEN [id |-> a.id, fingerprint |-> a.fingerprint]
            ELSE memory.transactions[k]
      BY AcceptedAt, Zenon
    <2>3. Row(k)' = Apply(m, AcceptedRecord(a)).transactions[k]
      BY <1>2, <1>9 DEF Row
    <2> QED
      BY <1>2, <1>4, <1>7, <2>1, <2>2, <2>3
  <1>11. \A k \in Keys : memory.transactions[k] # NoTransaction => Row(k)' = Row(k)
    BY <1>1, <1>2, <1>4, AppendKeeps
  <1>12. row # NoTransaction
    <2>1. row.id \in Requests /\ NoTransaction.id = NoId
      BY <1>1 DEF NoTransaction
    <2> QED
      BY <2>1, NullAssumption
  <1>13. Kept(r)'
    <2>1. Reply(r, StoreAccepted(r)) = [code |-> "created", id |-> r]
      BY DEF Reply, StoreAccepted
    <2>2. Row(k0)' = row
      BY <1>10
    <2> QED
      BY <1>1, <1>5, <1>6, <1>7, <2>1, <2>2 DEF Kept, Row
  <1>14. Readable(log')
    <2>1. log' \in {log, Append(log, AcceptedRecord(Acceptance(r)))}
      BY <1>1, <1>2, <1>4
    <2> QED
      BY <2>1, AcceptanceReadable DEF RowsInv
  <1>15. ASSUME Durable, NEW e \in Requests, memory'.events[e].known
         PROVE  e \in Introduced(log')
    <2>1. memory.events[e].known \/ e = r
      BY <1>2, <1>3, <1>4, <1>15, ApplyKnown
    <2>2. Introduced(log') = Introduced(log)
            \cup {d \in Requests : record.kind = "accepted" /\ d = record.of.id}
      BY <1>2, <1>4, <1>15, IntroducedAppend
    <2> QED
      BY <1>3, <1>4, <1>15, <2>1, <2>2 DEF RowsInv
  <1>16. ASSUME NEW k \in Keys, memory'.transactions[k] # NoTransaction
         PROVE  Row(k)' = memory'.transactions[k]
    <2>1. CASE k = k0
      BY <1>10, <2>1
    <2>2. CASE k # k0
      BY <1>4, <1>10, <1>11, <1>16, <2>2 DEF RowsInv
    <2> QED
      BY <2>1, <2>2
  <1>17. ASSUME NEW q \in Requests, Promised(q)'
         PROVE  request'[q].pc = "answered" /\ Kept(q)'
                /\ memory'.transactions[Key[request'[q].identity]] # NoTransaction
    <2>1. CASE q = r
      BY <1>5, <1>6, <1>10, <1>12, <1>13, <2>1
    <2>2. CASE q # r
      <3>1. request'[q] = request[q] /\ Promised(q)
        BY <1>5, <1>17, <2>2 DEF Promised
      <3>2. request[q].pc = "answered" /\ Kept(q)'
            /\ memory.transactions[Key[request[q].identity]] # NoTransaction
        BY <1>4, <1>11, <3>1, OthersKept
      <3>3. memory'.transactions[Key[request[q].identity]] # NoTransaction
        BY <1>10, <1>12, <3>2, KeyType
      <3> QED
        BY <3>1, <3>2, <3>3
    <2> QED
      BY <2>1, <2>2
  <1> QED
    BY <1>14, <1>15, <1>16, <1>17 DEF RowsInv, Durable

(* A failed append leaves no row that contradicts an answer: the identity  *)
(* is unknown to the running process, so nobody was answered about it.     *)
LEMMA FailedAcceptRows ==
    ASSUME "torn" \notin AppendFaults, TypeInv, DownInv, RowsInv, UNCHANGED driver,
           NEW r \in Requests, AcceptFails(r)
    PROVE  RowsInv'
  <1> USE DEF TypeInv, TypeOK
  <1>1. PICK record \in Lines :
          record = AcceptedRecord(Acceptance(r)) /\ record \in LogRecords
    BY AcceptanceType, WrittenRecords DEF Lines
  <1>2. /\ process = "up" /\ UNCHANGED <<memory, process>> /\ Durable
        /\ ~ Known(Acceptance(r)) /\ FinishAccept(r, StoreError)
    BY DEF AcceptFails, WriteFails, DownInv
  <1>3. log' \in {log, Append(log, record)}
    <2>1. PICK lines \in Leftovers(record) : log' = log \o lines
      BY <1>1 DEF AcceptFails, WriteFails
    <2> QED
      BY <1>1, <2>1, LogAfterFailure
  <1>4. \A k \in Keys : memory.transactions[k] # NoTransaction => Row(k)' = Row(k)
    BY <1>1, <1>2, <1>3, AppendKeeps
  <1>5. Readable(log')
    BY <1>1, <1>3, AcceptanceReadable DEF RowsInv
  <1>6. Introduced(log) \subseteq Introduced(log')
    BY <1>3, IntroducedStep
  <1>7. /\ request'[r].reply = Reply(r, StoreError)
        /\ \A q \in Requests \ {r} : request'[q] = request[q]
    BY <1>2, FinishEffect
  <1>8. ~ Promised(r)'
    <2>1. Reply(r, StoreError).code = "unavailable"
      BY DEF Reply, StoreError
    <2> QED
      BY <1>7, <2>1 DEF Promised
  <1>9. ASSUME NEW q \in Requests, Promised(q)'
        PROVE  request'[q].pc = "answered" /\ Kept(q)'
               /\ memory'.transactions[Key[request'[q].identity]] # NoTransaction
    <2>1. q # r /\ request'[q] = request[q] /\ Promised(q)
      BY <1>7, <1>8, <1>9 DEF Promised
    <2> QED
      BY <1>2, <1>4, <2>1, OthersKept
  <1>10. ASSUME NEW k \in Keys, memory'.transactions[k] # NoTransaction
         PROVE  Row(k)' = memory'.transactions[k]
    BY <1>2, <1>4, <1>10 DEF RowsInv
  <1> QED
    BY <1>2, <1>5, <1>6, <1>9, <1>10 DEF RowsInv, Durable

(* The worker settles only events that it holds, and those are in the log. *)
LEMMA OutcomeReadable ==
    ASSUME TypeInv, HeldInv, RowsInv, process = "up", Durable,
           NEW w \in Workers, Settling(w),
           log' \in {log, Append(log, OutcomeRecord(w))}
    PROVE  Readable(log')
  <1> USE DEF TypeInv, TypeOK
  <1>1. OutcomeRecord(w) \in Lines
    BY OutcomeRecordType
  <1>2. Pending(w) \in PendingEvents /\ worker[w].batch # <<>>
    BY OutcomeIsNoAcceptance
  <1>3. Pending(w).event \in Requests /\ memory.events[Pending(w).event].known
    <2>1. PICK s \in Seq(PendingEvents) : s = worker[w].batch /\ s # <<>>
      BY <1>2 DEF DispatcherType
    <2>2. Pending(w) = worker[w].batch[1] /\ 1 \in DOMAIN worker[w].batch
      BY <2>1, TailOfBatch DEF Pending
    <2> QED
      BY <1>2, <2>2 DEF HeldInv, SoleClaimant, ClaimHeld, PendingEvents
  <1>4. Pending(w).event \in Introduced(log)
    BY <1>3 DEF RowsInv
  <1>5. /\ OutcomeRecord(w).kind = "failed" => OutcomeRecord(w).of.event = Pending(w).event
        /\ OutcomeRecord(w).kind = "published" => OutcomeRecord(w).of = Pending(w).event
    BY DEF OutcomeRecord, FailedRecord, PublishedRecord, Failure
  <1>6. Readable(Append(log, OutcomeRecord(w)))
    BY <1>1, <1>4, <1>5, ReadableAppend DEF RowsInv
  <1> QED
    BY <1>6 DEF RowsInv

(* An outcome touches no row.                                              *)
LEMMA OutcomeKeepsRows ==
    ASSUME TypeInv, RowsInv, UNCHANGED driver, NEW w \in Workers, Settling(w),
           Durable => log' \in {log, Append(log, OutcomeRecord(w))},
           ~ Durable => memory' \in {memory, Apply(memory, OutcomeRecord(w))},
           NEW k \in Keys
    PROVE  Row(k)' = Row(k)
  <1>1. PICK record \in Lines : record = OutcomeRecord(w) /\ record.kind # "accepted"
    BY OutcomeRecordType, OutcomeIsNoAcceptance DEF TypeInv, TypeOK
  <1>2. \/ Row(k)' = Row(k)
        \/ \E a \in Acceptances : record = AcceptedRecord(a)
    BY <1>1, RebuiltStep DEF RowsInv
  <1> QED
    BY <1>1, <1>2 DEF AcceptedRecord

(* Logging an outcome keeps every row.                                     *)
LEMMA SettleRows ==
    ASSUME TypeInv, DownInv, HeldInv, RowsInv, UNCHANGED driver,
           NEW w \in Workers, Settle(w)
    PROVE  RowsInv'
  <1> USE DEF TypeInv, TypeOK
  <1>1. /\ Settling(w) /\ process = "up" /\ UNCHANGED <<process, request>>
        /\ memory' = Apply(memory, OutcomeRecord(w))
        /\ log' = IF Durable THEN Append(log, OutcomeRecord(w)) ELSE log
    BY DEF Settle, Write, Settling, DownInv, intakeVars
  <1>2. \A k \in Keys : Row(k)' = Row(k)
    BY <1>1, OutcomeKeepsRows
  <1>3. PICK record \in Lines : record = OutcomeRecord(w)
    BY <1>1, OutcomeRecordType
  <1>4. /\ memory'.transactions = memory.transactions
        /\ \A e \in Requests : memory'.events[e].known = memory.events[e].known
    <2>1. PICK m \in Memories : m = memory
      OBVIOUS
    <2>2. \/ \E f \in Failures : record = FailedRecord(f)
          \/ \E d \in Requests : record = PublishedRecord(d)
      BY <1>1, <1>3, OutcomeIsNoAcceptance
    <2>3. Apply(m, record).transactions = m.transactions
      BY <2>2, OutcomeKeeps, Zenon
    <2>4. \A e \in Requests : Apply(m, record).events[e].known = m.events[e].known
      BY <2>2, OutcomeKeeps, Zenon
    <2> QED
      BY <1>1, <1>3, <2>1, <2>3, <2>4
  <1>5. Readable(log')
    <2>1. CASE Durable
      BY <1>1, <2>1, OutcomeReadable
    <2>2. CASE ~ Durable
      BY <1>1, <2>2 DEF RowsInv
    <2> QED
      BY <2>1, <2>2
  <1>6. ASSUME Durable PROVE Introduced(log) \subseteq Introduced(log')
    BY <1>1, <1>3, <1>6, IntroducedStep
  <1>7. ASSUME NEW q \in Requests, Promised(q)'
        PROVE  request'[q].pc = "answered" /\ Kept(q)'
               /\ memory'.transactions[Key[request'[q].identity]] # NoTransaction
    <2>1. request'[q] = request[q] /\ Promised(q)
      BY <1>1, <1>7 DEF Promised
    <2> QED
      BY <1>1, <1>2, <1>4, <2>1, OthersKept
  <1>8. ASSUME NEW k \in Keys, memory'.transactions[k] # NoTransaction
        PROVE  Row(k)' = memory'.transactions[k]
    BY <1>1, <1>2, <1>4, <1>8 DEF RowsInv
  <1>9. ASSUME Durable, NEW e \in Requests, memory'.events[e].known
        PROVE  e \in Introduced(log')
    BY <1>1, <1>4, <1>6, <1>9 DEF RowsInv
  <1> QED
    BY <1>5, <1>7, <1>8, <1>9 DEF RowsInv, Durable

(* What a stop or a failed outcome leaves of the last append is whole.     *)
LEMMA EndLog ==
    ASSUME "torn" \notin AppendFaults, TypeInv, DownInv,
           Stop \/ \E w \in Workers : SettleFails(w)
    PROVE  /\ process = "up" /\ Durable /\ End
           /\ \/ log' = log
              \/ \E r \in Requests : /\ request[r].pc = "accepting"
                                     /\ ~ Known(Acceptance(r))
                                     /\ log' = Append(log, AcceptedRecord(Acceptance(r)))
              \/ \E w \in Workers : /\ Settling(w)
                                    /\ log' = Append(log, OutcomeRecord(w))
  <1> USE DEF TypeInv, TypeOK
  <1>1. CASE Stop
    <2>1. process = "up" /\ Durable /\ End
      BY <1>1 DEF Stop, End
    <2>2. log' = log \/ \E record \in Appending : log' = Append(log, record)
      BY <1>1 DEF Stop
    <2> QED
      BY <2>1, <2>2, AppendingRecord
  <1>2. ASSUME NEW w \in Workers, SettleFails(w)
        PROVE  /\ process = "up" /\ Durable /\ End /\ Settling(w)
               /\ log' \in {log, Append(log, OutcomeRecord(w))}
    <2>1. process = "up" /\ Durable /\ End /\ Settling(w)
      BY <1>2 DEF SettleFails, End
    <2>2. PICK lines \in Leftovers(OutcomeRecord(w)) : log' = log \o lines
      BY <1>2 DEF SettleFails
    <2>3. OutcomeRecord(w) \in LogRecords
      BY <2>1, OutcomeRecordType DEF Lines
    <2> QED
      BY <2>1, <2>2, <2>3, LogAfterFailure
  <1> QED
    BY <1>1, <1>2

(* The end of the process keeps what the log has promised.                 *)
LEMMA EndRows ==
    ASSUME "torn" \notin AppendFaults, TypeInv, DownInv, HeldInv, RowsInv, UNCHANGED driver,
           Stop \/ \E w \in Workers : SettleFails(w)
    PROVE  RowsInv'
  <1> USE DEF TypeInv, TypeOK
  <1>1. process = "up" /\ Durable /\ End /\ process' = "down"
    BY EndLog DEF End
  <1>2. Readable(log')
        /\ \A k \in Keys : memory.transactions[k] # NoTransaction => Row(k)' = Row(k)
    <2>1. CASE log' = log
      BY <1>1, <2>1 DEF RowsInv, Row, Rebuilt, Durable
    <2>2. ASSUME NEW r \in Requests, ~ Known(Acceptance(r)),
                 log' = Append(log, AcceptedRecord(Acceptance(r)))
          PROVE  Readable(log')
                 /\ \A k \in Keys : memory.transactions[k] # NoTransaction => Row(k)' = Row(k)
      BY <1>1, <2>2, AcceptanceReadable, AppendKeeps DEF RowsInv
    <2>3. ASSUME NEW w \in Workers, Settling(w), log' = Append(log, OutcomeRecord(w))
          PROVE  Readable(log')
                 /\ \A k \in Keys : memory.transactions[k] # NoTransaction => Row(k)' = Row(k)
      BY <1>1, <2>3, OutcomeReadable, OutcomeKeepsRows
    <2> QED
      BY <2>1, <2>2, <2>3, EndLog
  <1>3. ASSUME NEW q \in Requests, Promised(q)'
        PROVE  request'[q].pc = "answered" /\ Kept(q)'
    <2>1. request'[q].reply = request[q].reply
      BY <1>1, EndLoses
    <2>2. Promised(q)
      BY <1>3, <2>1 DEF Promised
    <2>3. request[q].pc = "answered"
      BY <2>2 DEF RowsInv
    <2>4. request'[q] = request[q]
      BY <1>1, <2>3, EndLoses DEF Done
    <2> QED
      BY <1>1, <1>2, <2>2, <2>3, <2>4, OthersKept
  <1> QED
    BY <1>1, <1>2, <1>3 DEF RowsInv

(* A restart knows what the log holds.                                     *)
LEMMA StartRows ==
    ASSUME TypeInv, DownInv, RowsInv, UNCHANGED driver, Start
    PROVE  RowsInv'
  <1> USE DEF TypeInv, TypeOK
  <1>1. /\ Durable /\ Readable(log) /\ memory' = Replay(log)
        /\ UNCHANGED <<log, request>>
    BY DEF Start, NewStore, DownInv, intakeVars
  <1>2. PICK m \in Memories : m = Replay(log) /\ m = Rebuilt
    BY <1>1, RebuiltType DEF Rebuilt
  <1>3. \A k \in Keys : Row(k) = m.transactions[k] /\ Row(k)' = m.transactions[k]
    BY <1>1, <1>2 DEF Row, Rebuilt, Durable
  <1>4. \A e \in Requests : memory'.events[e].known => e \in Introduced(log)
    BY <1>1, ReplayKnown
  <1>5. ASSUME NEW q \in Requests, Promised(q)'
        PROVE  request'[q].pc = "answered" /\ Kept(q)'
               /\ memory'.transactions[Key[request'[q].identity]] # NoTransaction
    <2>1. request'[q] = request[q] /\ Promised(q)
      BY <1>1, <1>5 DEF Promised
    <2>2. request[q].pc = "answered" /\ Kept(q)
      BY <2>1 DEF RowsInv
    <2>3. PICK k \in Keys : k = Key[request[q].identity]
      BY KeyType
    <2>4. Kept(q)'
      BY <1>3, <2>1, <2>2, <2>3, KeptStays
    <2> DEFINE own == Fingerprint(request[q].identity, request[q].body)
    <2>5. own # <<>>
      BY DEF Fingerprint
    <2>6. Row(k) # NoTransaction
      <3>1. CASE request[q].reply.code = "conflict"
        BY <2>2, <2>3, <3>1 DEF Kept
      <3>2. CASE request[q].reply.code # "conflict"
        <4>1. Row(k).fingerprint = own
          BY <2>1, <2>2, <2>3, <3>2 DEF Kept, Promised
        <4> QED
          BY <2>5, <4>1 DEF NoTransaction
      <3> QED
        BY <3>1, <3>2
    <2> QED
      BY <1>1, <1>2, <1>3, <2>1, <2>2, <2>3, <2>4, <2>6
  <1> QED
    BY <1>1, <1>2, <1>3, <1>4, <1>5 DEF RowsInv, Durable

(* Every step keeps the promises made to clients.                          *)
LEMMA RowsStep ==
    ASSUME "torn" \notin AppendFaults, TypeInv, DownInv, HeldInv, RowsInv, [Next]_vars
    PROVE  RowsInv'
  <1> USE DEF TypeInv, TypeOK
  <1>1. UNCHANGED driver
    BY DEF Next, vars
  <1>2. ASSUME NEW r \in Requests, RequestNext(r) PROVE RowsInv'
    <2>1. \A q \in Requests \ {r} : request'[q] = request[q]
      BY <1>2, RequestEffect
    <2>2. CASE Invalid(r) \/ Submit(r)
      <3>1. UNCHANGED <<memory, log, process>>
        BY <2>2 DEF Invalid, Submit, storeVars
      <3>2. ~ Promised(r)'
        <4>1. CASE Invalid(r)
          <5>1. PICK reply : reply = [code |-> "invalid", id |-> NoId]
            OBVIOUS
          <5>2. request' = [request EXCEPT ![r].pc = "answered", ![r].reply = reply]
            BY <4>1, <5>1, Zenon DEF Invalid, RejectInvalid
          <5>3. request'[r].reply = reply
            BY <5>2 DEF RequestType
          <5> QED
            BY <5>1, <5>3 DEF Promised
        <4>2. CASE Submit(r)
          <5>1. request'[r].reply = request[r].reply /\ request[r].pc = "unsent"
            BY <4>2 DEF Submit, BeginAccept, RequestType
          <5> QED
            BY <5>1 DEF RowsInv, Promised
        <4> QED
          BY <2>2, <4>1, <4>2
      <3> QED
        BY <1>1, <2>1, <3>1, <3>2, QuietRows
    <2>3. CASE AcceptKnown(r)
      BY <1>1, <2>3, KnownRows
    <2>4. CASE AcceptNew(r)
      BY <1>1, <2>4, NewRows
    <2>5. CASE AcceptFails(r)
      BY <1>1, <2>5, FailedAcceptRows
    <2> QED
      BY <1>2, <2>2, <2>3, <2>4, <2>5 DEF RequestNext
  <1>3. ASSUME NEW w \in Workers, Claim(w) PROVE RowsInv'
    <2>1. PICK events \in Selected(worker[w].now, BatchSize) :
            ClaimPending(worker[w].now, Lease, FreshToken, events)
      BY <1>3 DEF Claim
    <2>2. FreshToken \in Tokens /\ worker[w].now \in Nat
      BY <1>3, FreshTokenIsFresh DEF Claim, DispatcherType
    <2>3. /\ memory'.transactions = memory.transactions
          /\ \A e \in Requests : memory'.events[e].known = memory.events[e].known
      BY <2>1, <2>2, ClaimEffect
    <2>4. UNCHANGED <<request, log, process>>
      BY <1>3, <2>1 DEF Claim, ClaimPending, intakeVars
    <2> QED
      BY <1>1, <2>3, <2>4, SameRows
  <1>4. ASSUME NEW w \in Workers, Settle(w) PROVE RowsInv'
    BY <1>1, <1>4, SettleRows
  <1>5. CASE Stop \/ \E w \in Workers : SettleFails(w)
    BY <1>1, <1>5, EndRows
  <1>6. CASE Start
    BY <1>1, <1>6, StartRows
  <1>7. CASE UNCHANGED <<request, memory, log, process>>
    BY <1>1, <1>7, SameRows
  <1>8. \/ \E r \in Requests : RequestNext(r)
        \/ \E w \in Workers : Claim(w) \/ Settle(w)
        \/ Stop \/ \E w \in Workers : SettleFails(w)
        \/ Start
        \/ UNCHANGED <<request, memory, log, process>>
    BY DEF Next, WorkerNext, WorkerStep, PassTime, vars, intakeVars, storeVars
  <1> QED
    BY <1>2, <1>3, <1>4, <1>5, <1>6, <1>7, <1>8

(* Nothing is promised in the beginning.                                   *)
LEMMA RowsInit == Init => RowsInv
  <1> SUFFICES ASSUME Init PROVE RowsInv
    OBVIOUS
  <1>1. Readable(log)
    BY DEF Init, Readable
  <1>2. \A q \in Requests : ~ Promised(q)
    BY DEF Init, IntakeInit, NoReply, Promised
  <1>3. \A k \in Keys : memory.transactions[k] = NoTransaction
    BY EmptyType DEF Init
  <1>4. \A e \in Requests : ~ memory.events[e].known
    BY EmptyType DEF Init
  <1> QED
    BY <1>1, <1>2, <1>3, <1>4 DEF RowsInv

(* Unless a part of a record can be left in the log, no answer is ever     *)
(* taken back by a failed append or a restart: the log can be read, and    *)
(* the row that was acknowledged, or that contradicted the request, is in  *)
(* the maps that NewStore rebuilds.                                        *)
THEOREM RepliesSurviveCorrect ==
    ASSUME "torn" \notin AppendFaults
    PROVE  Spec => []RepliesSurvive
  <1> DEFINE I == TypeInv /\ DownInv /\ OnceInv /\ HeldInv /\ RowsInv
  <1>1. Init => I
    BY TypeInit, DownInit, OnceHeldInit, RowsInit
  <1>2. I /\ [Next]_vars => I'
    <2> SUFFICES ASSUME TypeInv, DownInv, OnceInv, HeldInv, RowsInv, [Next]_vars
                 PROVE  TypeInv' /\ DownInv' /\ OnceInv' /\ HeldInv' /\ RowsInv'
      OBVIOUS
    <2>1. TypeInv' /\ DownInv' /\ OnceInv'
      BY TypeStep, DownStep, OnceStep
    <2>2. HeldInv'
      BY HeldStep
    <2>3. RowsInv'
      BY RowsStep
    <2> QED
      BY <2>1, <2>2, <2>3
  <1>3. I => RepliesSurvive
    <2> SUFFICES ASSUME RowsInv, NEW r \in Requests
                 PROVE  LET row == StoredRow(r)
                            own == Acceptance(r).fingerprint
                        IN  /\ request[r].reply.code = "created" =>
                                  row = [id |-> r, fingerprint |-> own]
                            /\ request[r].reply.code = "replayed" =>
                                  row = [id |-> request[r].reply.id, fingerprint |-> own]
                            /\ request[r].reply.code = "conflict" =>
                                  row # NoTransaction /\ row.fingerprint # own
      BY DEF RepliesSurvive
    <2>1. StoredRow(r) = Row(Key[request[r].identity])
      BY DEF StoredRow, Stored, Row, Rebuilt, RowsInv
    <2>2. Acceptance(r).fingerprint = Fingerprint(request[r].identity, request[r].body)
      BY DEF Acceptance
    <2>3. Promised(r) => Kept(r)
      BY DEF RowsInv
    <2> QED
      BY <2>1, <2>2, <2>3 DEF Promised, Kept
  <1> HIDE DEF I
  <1> QED
    BY <1>1, <1>2, <1>3, PTL DEF Spec


-----------------------------------------------------------------------------
(* The contract.  It speaks of the maps that are durable, which only an    *)
(* append changes: whether the process survives it makes no difference.    *)

(* What the contract sees of a stored event.                               *)
Visible(s) == <<s.known, s.attempts, s.published, s.terminal>>

Open(s) == s.known /\ ~ s.published /\ ~ s.terminal

(* An open event has an attempt left and an event that is held is open, so *)
(* that its outcome is one that the contract allows.                       *)
OpenInv ==
    /\ \A e \in Requests :
          /\ ~ Rebuilt.events[e].known => Rebuilt.events[e].attempts = 0
          /\ Open(Rebuilt.events[e]) => Rebuilt.events[e].attempts < MaxAttempts
    /\ \A w \in Workers : \A k \in DOMAIN worker[w].batch :
          Open(Rebuilt.events[worker[w].batch[k].event])
    /\ \A w \in Workers : worker[w].pc = "mark" => Pending(w).event \in topic

(* The running process sees in its maps what is durable.                   *)
LEMMA UpAgrees ==
    ASSUME TypeInv, LogStateInv, process = "up"
    PROVE  /\ Rebuilt.transactions = memory.transactions
           /\ \A e \in Requests : Visible(Rebuilt.events[e]) = Visible(memory.events[e])
  <1>1. CASE ~ Durable
    BY <1>1 DEF Rebuilt
  <1>2. CASE Durable
    <2>1. memory \in Memories
      BY DEF TypeInv, TypeOK
    <2>2. PICK u : u = Unclaimed(memory)
      OBVIOUS
    <2>3. Rebuilt = u
      BY <1>2, <2>2 DEF Rebuilt, LogStateInv
    <2>4. u.transactions = memory.transactions
      BY <2>1, <2>2, UnclaimedAt
    <2>5. \A e \in Requests : u.events[e] = UnclaimedEvent(memory.events[e])
      BY <2>1, <2>2, UnclaimedAt
    <2>6. ASSUME NEW e \in Requests PROVE Visible(u.events[e]) = Visible(memory.events[e])
      <3>1. PICK s : s = memory.events[e]
        OBVIOUS
      <3>2. u.events[e] = UnclaimedEvent(s)
        BY <2>5, <3>1
      <3>3. Visible(UnclaimedEvent(s)) = Visible(s)
        BY DEF UnclaimedEvent, Visible
      <3> QED
        BY <3>1, <3>2, <3>3
    <2> QED
      BY <2>3, <2>4, <2>6
  <1> QED
    BY <1>1, <1>2

(* What an outcome makes of the events of any maps.                        *)
LEMMA OutcomeAt ==
    ASSUME DispatcherType, BusyInv, NEW m \in Memories, NEW w \in Workers, Settling(w)
    PROVE  LET n == Apply(m, OutcomeRecord(w))
               d == Pending(w).event
           IN  /\ d \in Requests
               /\ n.transactions = m.transactions
               /\ \A e \in Requests \ {d} : n.events[e] = m.events[e]
               /\ n.events[d].known = m.events[d].known
               /\ worker[w].pc = "mark" =>
                     n.events[d].published /\ n.events[d].attempts = m.events[d].attempts
               /\ worker[w].pc # "mark" =>
                     /\ n.events[d].published = m.events[d].published
                     /\ n.events[d].attempts = Pending(w).attempts + 1
                     /\ n.events[d].terminal <=> Pending(w).attempts + 1 >= MaxAttempts
  <1>0. worker[w].batch # <<>> /\ Pending(w) \in PendingEvents
    BY OutcomeIsNoAcceptance
  <1>1. PICK d \in Requests : d = Pending(w).event
    BY <1>0 DEF PendingEvents
  <1>2. PICK n : n = Apply(m, OutcomeRecord(w))
    OBVIOUS
  <1>3. CASE worker[w].pc = "mark"
    <2>1. n = Apply(m, PublishedRecord(d))
      BY <1>1, <1>2, <1>3 DEF OutcomeRecord
    <2>2. n.transactions = m.transactions
      BY <2>1, PublishedEffect, Zenon
    <2>3. ASSUME NEW e \in Requests
          PROVE  n.events[e] =
            IF e = d
            THEN [known |-> m.events[e].known, attempts |-> m.events[e].attempts,
                  retryAt |-> m.events[e].retryAt, leaseUntil |-> 0,
                  claimToken |-> NoToken, published |-> TRUE,
                  terminal |-> m.events[e].terminal]
            ELSE m.events[e]
      BY <2>1, PublishedAt, Zenon
    <2>4. \A e \in Requests \ {d} : n.events[e] = m.events[e]
      BY <2>3
    <2>5. /\ n.events[d].known = m.events[d].known
          /\ n.events[d].published /\ n.events[d].attempts = m.events[d].attempts
      <3>1. n.events[d] =
              [known |-> m.events[d].known, attempts |-> m.events[d].attempts,
               retryAt |-> m.events[d].retryAt, leaseUntil |-> 0,
               claimToken |-> NoToken, published |-> TRUE,
               terminal |-> m.events[d].terminal]
        BY <2>3, Zenon
      <3> QED
        BY <3>1
    <2> QED
      BY <1>1, <1>2, <1>3, <2>2, <2>4, <2>5
  <1>4. CASE worker[w].pc # "mark"
    <2>1. PICK f \in Failures : f = Failure(w)
      BY <1>0, FailureType
    <2>2. /\ f.event = d
          /\ f.attempts = Pending(w).attempts + 1
          /\ f.terminal <=> Pending(w).attempts + 1 >= MaxAttempts
      BY <1>1, <2>1 DEF Failure
    <2>3. n = Apply(m, FailedRecord(f))
      BY <1>2, <1>4, <2>1 DEF OutcomeRecord
    <2>4. n.transactions = m.transactions
      BY <2>3, FailedEffect, Zenon
    <2>5. ASSUME NEW e \in Requests
          PROVE  n.events[e] =
            IF e = f.event
            THEN [known |-> m.events[e].known, attempts |-> f.attempts,
                  retryAt |-> f.retry_at, leaseUntil |-> 0, claimToken |-> NoToken,
                  published |-> m.events[e].published, terminal |-> f.terminal]
            ELSE m.events[e]
      BY <2>3, FailedAt, Zenon
    <2>6. \A e \in Requests \ {d} : n.events[e] = m.events[e]
      BY <2>2, <2>5
    <2>7. /\ n.events[d].known = m.events[d].known
          /\ n.events[d].published = m.events[d].published
          /\ n.events[d].attempts = f.attempts
          /\ n.events[d].terminal = f.terminal
      <3>1. f.event = d
        BY <2>2
      <3>2. n.events[d] =
              [known |-> m.events[d].known, attempts |-> f.attempts,
               retryAt |-> f.retry_at, leaseUntil |-> 0, claimToken |-> NoToken,
               published |-> m.events[d].published, terminal |-> f.terminal]
        BY <2>5, <3>1, Zenon
      <3> QED
        BY <3>2
    <2> QED
      BY <1>1, <1>2, <1>4, <2>2, <2>4, <2>6, <2>7
  <1> QED
    BY <1>3, <1>4


(* One more record in the log, or applied to the maps of the memory store, *)
(* is applied to what is durable.                                          *)
LEMMA AppendRebuilds ==
    ASSUME TypeInv, UNCHANGED driver, NEW record \in Lines,
           Durable => log' = Append(log, record),
           ~ Durable => memory' = Apply(memory, record)
    PROVE  Rebuilt' = Apply(Rebuilt, record)
  <1>1. CASE Durable
    <2>1. Rebuilt' = Replay(log') /\ Rebuilt = Replay(log)
      BY <1>1 DEF Rebuilt, Durable
    <2>2. log \in Seq(LogRecords) /\ record \in LogRecords
      BY DEF TypeInv, TypeOK, Lines
    <2>3. Replay(Append(log, record)) = Apply(Replay(log), record)
      BY <2>2, ReplayAppend
    <2> QED
      BY <1>1, <2>1, <2>3
  <1>2. CASE ~ Durable
    BY <1>2 DEF Rebuilt, Durable
  <1> QED
    BY <1>1, <1>2

(* The acceptance of a request becomes durable, answered or not.           *)
Accepts(r) ==
    /\ process = "up"
    /\ request[r].pc = "accepting"
    /\ ~ Known(Acceptance(r))
    /\ Rebuilt' = Apply(Rebuilt, AcceptedRecord(Acceptance(r)))
    /\ UNCHANGED topic
    /\ UNCHANGED worker \/ worker' = [w \in Workers |-> Stopped]

(* The outcome of a publication becomes durable, confirmed or not.         *)
Settles(w) ==
    /\ process = "up"
    /\ Settling(w)
    /\ Rebuilt' = Apply(Rebuilt, OutcomeRecord(w))
    /\ UNCHANGED topic
    /\ Advance(w) \/ worker' = [v \in Workers |-> Stopped]

(* Nothing becomes durable.                                                *)
Rests ==
    /\ Rebuilt' = Rebuilt
    /\ UNCHANGED topic
    /\ \/ UNCHANGED worker
       \/ worker' = [w \in Workers |-> Stopped]
       \/ worker' = [w \in Workers |-> Idle]

(* The end of the process with what it leaves in the log.                  *)
LEMMA EndKinds ==
    ASSUME AppendFaults \subseteq {"nothing"}, TypeInv, DownInv, UNCHANGED driver,
           Stop \/ \E w \in Workers : SettleFails(w)
    PROVE  \/ Rests
           \/ \E r \in Requests : Accepts(r)
           \/ \E w \in Workers : Settles(w)
  <1>1. "torn" \notin AppendFaults
    OBVIOUS
  <1>2. /\ process = "up" /\ Durable /\ UNCHANGED topic
        /\ worker' = [w \in Workers |-> Stopped]
    BY <1>1, EndLog DEF End
  <1>3. CASE log' = log
    BY <1>2, <1>3 DEF Rests, Rebuilt, Durable
  <1>4. ASSUME NEW r \in Requests, request[r].pc = "accepting", ~ Known(Acceptance(r)),
               log' = Append(log, AcceptedRecord(Acceptance(r)))
        PROVE  Accepts(r)
    <2>1. AcceptedRecord(Acceptance(r)) \in Lines
      BY AcceptanceType, WrittenRecords DEF TypeInv, TypeOK
    <2>2. Rebuilt' = Apply(Rebuilt, AcceptedRecord(Acceptance(r)))
      BY <1>2, <1>4, <2>1, AppendRebuilds
    <2> QED
      BY <1>2, <1>4, <2>2 DEF Accepts
  <1>5. ASSUME NEW w \in Workers, Settling(w), log' = Append(log, OutcomeRecord(w))
        PROVE  Settles(w)
    <2>1. OutcomeRecord(w) \in Lines
      BY <1>5, OutcomeRecordType DEF TypeInv, TypeOK
    <2>2. Rebuilt' = Apply(Rebuilt, OutcomeRecord(w))
      BY <1>2, <1>5, <2>1, AppendRebuilds
    <2> QED
      BY <1>2, <1>5, <2>2 DEF Settles
  <1> QED
    BY <1>1, <1>3, <1>4, <1>5, EndLog

(* Every step accepts, settles, claims, works on a batch or does nothing   *)
(* that lasts.                                                             *)
LEMMA StepKinds ==
    ASSUME AppendFaults \subseteq {"nothing"}, TypeInv, DownInv, [Next]_vars
    PROVE  \/ Rests
           \/ \E r \in Requests : Accepts(r)
           \/ \E w \in Workers : Settles(w) \/ WorkerStep(w) \/ Claim(w)
  <1> USE DEF TypeInv, TypeOK
  <1>1. UNCHANGED driver
    BY DEF Next, vars
  <1>2. CASE UNCHANGED <<memory, log, worker, topic>>
    BY <1>1, <1>2 DEF Rests, Rebuilt, Durable
  <1>3. ASSUME NEW r \in Requests, AcceptNew(r) PROVE Accepts(r)
    <2>1. AcceptedRecord(Acceptance(r)) \in Lines
      BY AcceptanceType, WrittenRecords
    <2>2. Write(AcceptedRecord(Acceptance(r)))
      BY <1>3 DEF AcceptNew
    <2>3. Rebuilt' = Apply(Rebuilt, AcceptedRecord(Acceptance(r)))
      BY <1>1, <2>1, <2>2, AppendRebuilds DEF Write
    <2> QED
      BY <1>3, <2>3 DEF AcceptNew, Accepts, dispatcherVars, DownInv
  <1>4. ASSUME NEW r \in Requests, AcceptFails(r) PROVE Rests
    <2>1. AcceptedRecord(Acceptance(r)) \in LogRecords
      BY AcceptanceType, WrittenRecords DEF Lines
    <2>2. PICK lines \in Leftovers(AcceptedRecord(Acceptance(r))) : log' = log \o lines
      BY <1>4 DEF AcceptFails, WriteFails
    <2>3. log' = log
      BY <2>1, <2>2, LogAfterFailure
    <2> QED
      BY <1>1, <1>4, <2>3 DEF AcceptFails, WriteFails, dispatcherVars, Rests, Rebuilt, Durable
  <1>5. ASSUME NEW w \in Workers, Settle(w) PROVE Settles(w)
    <2>1. OutcomeRecord(w) \in Lines /\ Settling(w)
      BY <1>5, OutcomeRecordType DEF Settle
    <2>2. Rebuilt' = Apply(Rebuilt, OutcomeRecord(w))
      BY <1>1, <1>5, <2>1, AppendRebuilds DEF Settle, Write
    <2>3. process = "up" /\ Advance(w) /\ UNCHANGED topic
      BY <1>5 DEF Settle, Settling, Advance, Continue, DownInv
    <2> QED
      BY <2>1, <2>2, <2>3 DEF Settles
  <1>6. CASE Start
    <2>1. Durable /\ UNCHANGED <<log, topic>> /\ worker' = [w \in Workers |-> Idle]
      BY <1>6 DEF Start, NewStore, DownInv
    <2> QED
      BY <1>1, <2>1 DEF Rests, Rebuilt, Durable
  <1>7. CASE Stop \/ \E w \in Workers : SettleFails(w)
    BY <1>1, <1>7, EndKinds
  <1>8. \/ UNCHANGED <<memory, log, worker, topic>>
        \/ \E r \in Requests : AcceptNew(r) \/ AcceptFails(r)
        \/ \E w \in Workers : Settle(w) \/ WorkerStep(w) \/ Claim(w)
        \/ Start
        \/ Stop \/ \E w \in Workers : SettleFails(w)
    BY DEF Next, RequestNext, Invalid, Submit, AcceptKnown, WorkerNext, PassTime, Tick,
           vars, dispatcherVars, storeVars
  <1> QED
    BY <1>2, <1>3, <1>4, <1>5, <1>6, <1>7, <1>8


(* A batch consists of events.                                             *)
LEMMA BatchEvents ==
    ASSUME TypeInv, NEW w \in Workers, NEW k \in DOMAIN worker[w].batch
    PROVE  worker[w].batch[k] \in PendingEvents /\ worker[w].batch[k].event \in Requests
  <1>1. worker[w].batch \in Seq(PendingEvents)
    BY DEF TypeInv, TypeOK, DispatcherType
  <1>2. worker[w].batch[k] \in PendingEvents
    BY <1>1
  <1> QED
    BY <1>2 DEF PendingEvents

(* The event whose outcome is about to be logged is open, and has as many  *)
(* attempts behind it as the dispatcher was told.                          *)
LEMMA SettlingEvent ==
    ASSUME TypeInv, HeldInv, LogStateInv, OpenInv, RowsInv, process = "up",
           NEW w \in Workers, Settling(w)
    PROVE  LET d == Pending(w).event
           IN  /\ d \in Requests
               /\ worker[w].batch # <<>> /\ 1 \in DOMAIN worker[w].batch
               /\ Pending(w) = worker[w].batch[1]
               /\ Open(Rebuilt.events[d])
               /\ Rebuilt.events[d].attempts = Pending(w).attempts
               /\ Rebuilt.events[d].attempts \in Nat
               /\ Rebuilt.events[d].attempts < MaxAttempts
  <1>1. worker[w].batch # <<>> /\ worker[w].batch \in Seq(PendingEvents)
    BY OutcomeIsNoAcceptance DEF TypeInv, TypeOK, DispatcherType
  <1>2. 1 \in DOMAIN worker[w].batch /\ Pending(w) = worker[w].batch[1]
    BY <1>1, TailOfBatch DEF Pending
  <1>3. PICK d \in Requests : d = Pending(w).event
    BY <1>2, BatchEvents
  <1>4. Open(Rebuilt.events[d]) /\ memory.events[d].attempts = Pending(w).attempts
    BY <1>2, <1>3 DEF OpenInv, HeldInv, SoleClaimant
  <1>5. Rebuilt.events[d].attempts = memory.events[d].attempts
    BY UpAgrees DEF Visible
  <1>6. Rebuilt.events[d].attempts \in Nat
    <2>1. Rebuilt.events \in [Requests -> StoredEvents]
      BY RebuiltType, MemoryParts DEF RowsInv
    <2> QED
      BY <2>1 DEF StoredEvents
  <1>7. Rebuilt.events[d].attempts < MaxAttempts
    BY <1>4 DEF OpenInv
  <1> QED
    BY <1>1, <1>2, <1>3, <1>4, <1>5, <1>6, <1>7

(* Open events stay as they are when nothing becomes durable.              *)
LEMMA OpenRests ==
    ASSUME OpenInv, Rests
    PROVE  OpenInv'
  <1>1. CASE UNCHANGED worker
    <2>1. \A w \in Workers : Pending(w)' = Pending(w)
      BY <1>1 DEF Pending
    <2> QED
      BY <1>1, <2>1 DEF Rests, OpenInv
  <1>2. CASE \/ worker' = [w \in Workers |-> Stopped]
             \/ worker' = [w \in Workers |-> Idle]
    <2>1. \A w \in Workers : worker'[w].batch = <<>> /\ worker'[w].pc # "mark"
      BY <1>2 DEF Stopped, Idle
    <2> QED
      BY <2>1 DEF Rests, OpenInv
  <1> QED
    BY <1>1, <1>2 DEF Rests

(* A new event is open and has all its attempts left.                      *)
LEMMA OpenAccepts ==
    ASSUME TypeInv, RowsInv, OpenInv, NEW r \in Requests, Accepts(r)
    PROVE  OpenInv'
  <1>1. PICK m \in Memories : m = Rebuilt
    BY RebuiltType DEF RowsInv
  <1>2. PICK n : n = Rebuilt'
    OBVIOUS
  <1>3. PICK a \in Acceptances : a = Acceptance(r) /\ a.id = r
    BY AcceptanceType DEF TypeInv, TypeOK
  <1>4. n = Apply(m, AcceptedRecord(a))
    BY <1>1, <1>2, <1>3 DEF Accepts
  <1>5. ASSUME NEW e \in Requests PROVE n.events[e] = NewEvent \/ n.events[e] = m.events[e]
    <2>1. n.events[e] = IF e = a.id THEN NewEvent ELSE m.events[e]
      BY <1>4, AcceptedAt, Zenon
    <2> QED
      BY <2>1
  <1>6. Open(NewEvent) /\ NewEvent.known /\ NewEvent.attempts = 0
    BY DEF Open, NewEvent
  <1>7. 0 < MaxAttempts
    BY DispatcherAssumption
  <1>8. ASSUME NEW e \in Requests
        PROVE  /\ ~ n.events[e].known => n.events[e].attempts = 0
               /\ Open(n.events[e]) => n.events[e].attempts < MaxAttempts
               /\ Open(m.events[e]) => Open(n.events[e])
    BY <1>1, <1>5, <1>6, <1>7 DEF OpenInv
  <1>9. CASE UNCHANGED worker
    <2>1. \A w \in Workers : Pending(w)' = Pending(w)
      BY <1>9 DEF Pending
    <2>2. \A w \in Workers : \A k \in DOMAIN worker[w].batch :
             Open(n.events[worker[w].batch[k].event])
      BY <1>1, <1>8, BatchEvents DEF OpenInv
    <2> QED
      BY <1>2, <1>8, <1>9, <2>1, <2>2 DEF Accepts, OpenInv
  <1>10. CASE worker' = [w \in Workers |-> Stopped]
    <2>1. \A w \in Workers : worker'[w].batch = <<>> /\ worker'[w].pc # "mark"
      BY <1>10 DEF Stopped
    <2> QED
      BY <1>2, <1>8, <2>1 DEF OpenInv
  <1> QED
    BY <1>9, <1>10 DEF Accepts

(* A failure that leaves an event open leaves it an attempt.               *)
LEMMA OpenSettles ==
    ASSUME TypeInv, HeldInv, LogStateInv, RowsInv, OpenInv, NEW w \in Workers, Settles(w)
    PROVE  OpenInv'
  <1>1. PICK m \in Memories : m = Rebuilt
    BY RebuiltType DEF RowsInv
  <1>2. PICK n : n = Rebuilt' /\ n = Apply(m, OutcomeRecord(w))
    BY <1>1 DEF Settles
  <1>3. PICK d \in Requests : d = Pending(w).event
    BY SettlingEvent DEF Settles
  <1>4. /\ Open(m.events[d])
        /\ m.events[d].attempts = Pending(w).attempts
        /\ m.events[d].attempts \in Nat
        /\ worker[w].batch # <<>> /\ 1 \in DOMAIN worker[w].batch
        /\ Pending(w) = worker[w].batch[1]
    BY <1>1, <1>3, SettlingEvent DEF Settles
  <1>5. /\ \A e \in Requests \ {d} : n.events[e] = m.events[e]
        /\ n.events[d].known = m.events[d].known
        /\ worker[w].pc = "mark" => n.events[d].published
        /\ worker[w].pc # "mark" =>
              /\ n.events[d].attempts = Pending(w).attempts + 1
              /\ n.events[d].terminal <=> Pending(w).attempts + 1 >= MaxAttempts
    BY <1>2, <1>3, OutcomeAt DEF Settles, TypeInv, TypeOK
  <1>6. ASSUME NEW e \in Requests
        PROVE  /\ ~ n.events[e].known => n.events[e].attempts = 0
               /\ Open(n.events[e]) => n.events[e].attempts < MaxAttempts
    <2>1. CASE e # d
      BY <1>1, <1>5, <2>1 DEF OpenInv
    <2>2. CASE e = d
      <3>1. n.events[d].known
        BY <1>4, <1>5 DEF Open
      <3>2. ASSUME Open(n.events[d]) PROVE n.events[d].attempts < MaxAttempts
        <4>1. worker[w].pc # "mark" /\ ~ n.events[d].terminal
          BY <1>5, <3>2 DEF Open
        <4>2. MaxAttempts \in Nat /\ Pending(w).attempts \in Nat
          BY <1>4, DispatcherAssumption
        <4>3. n.events[d].attempts = Pending(w).attempts + 1
              /\ ~ (Pending(w).attempts + 1 >= MaxAttempts)
          BY <1>5, <4>1
        <4> QED
          BY <4>2, <4>3
      <3> QED
        BY <2>2, <3>1, <3>2
    <2> QED
      BY <2>1, <2>2
  <1>7. CASE worker' = [v \in Workers |-> Stopped]
    <2>1. \A v \in Workers : worker'[v].batch = <<>> /\ worker'[v].pc # "mark"
      BY <1>7 DEF Stopped
    <2> QED
      BY <1>2, <1>6, <2>1 DEF OpenInv
  <1>8. CASE Advance(w)
    <2>1. \A v \in Workers : v = w
      BY LocalServiceAssumption
    <2> DEFINE rest == Tail(worker[w].batch)
    <2>2. worker'[w].pc # "mark" /\ worker'[w].batch \in {rest, <<>>}
      BY <1>8 DEF Advance, Continue, TypeInv, TypeOK, DispatcherType, Idle
    <2>3. \A k \in DOMAIN rest :
             k + 1 \in DOMAIN worker[w].batch /\ k + 1 # 1
             /\ rest[k] = worker[w].batch[k + 1]
      BY <1>4, TailOfBatch DEF TypeInv, TypeOK, DispatcherType
    <2> HIDE DEF rest
    <2>4. ASSUME NEW k \in DOMAIN rest PROVE Open(n.events[rest[k].event])
      <3>1. PICK j \in DOMAIN worker[w].batch : j # 1 /\ rest[k] = worker[w].batch[j]
        BY <2>3
      <3>2. PICK e \in Requests : e = rest[k].event
        BY <3>1, BatchEvents
      <3>3. e # d
        BY <1>3, <1>4, <3>1, <3>2 DEF HeldInv
      <3>4. Open(m.events[e])
        BY <1>1, <3>1, <3>2 DEF OpenInv
      <3> QED
        BY <1>5, <3>2, <3>3, <3>4
    <2>5. \A v \in Workers : \A k \in DOMAIN worker'[v].batch :
             Open(n.events[worker'[v].batch[k].event])
      BY <2>1, <2>2, <2>4
    <2> QED
      BY <1>2, <1>6, <2>1, <2>2, <2>5 DEF OpenInv
  <1> QED
    BY <1>7, <1>8 DEF Settles


(* A step within a batch changes nothing that is durable; what is about to *)
(* be marked was published before.                                         *)
LEMMA WorkEffect ==
    ASSUME TypeInv, UNCHANGED driver, NEW w \in Workers, WorkerStep(w)
    PROVE  /\ Rebuilt' = Rebuilt
           /\ \A v \in Workers : worker'[v].batch = worker[v].batch
           /\ topic \subseteq topic'
           /\ \A v \in Workers : worker'[v].pc = "mark" /\ worker[v].pc # "mark" =>
                 Pending(v).event \in topic'
           /\ \/ UNCHANGED topic
              \/ worker[w].pc = "publish" /\ topic' = topic \cup {Pending(w).event}
  <1> USE DEF TypeInv, TypeOK
  <1>1. Rebuilt' = Rebuilt
    BY DEF WorkerStep, storeVars, Rebuilt, Durable
  <1>2. CASE StartBatch(w)
    BY <1>1, <1>2 DEF StartBatch, DispatcherType
  <1>3. CASE PublishOk(w)
    <2>1. /\ worker[w].pc = "publish" /\ topic' = topic \cup {Pending(w).event}
          /\ worker' = [worker EXCEPT ![w].pc = "mark"]
      BY <1>3 DEF PublishOk
    <2>2. \A v \in Workers : v = w
      BY LocalServiceAssumption
    <2>3. \A v \in Workers : worker'[v].batch = worker[v].batch
      BY <2>1 DEF DispatcherType
    <2> QED
      BY <1>1, <2>1, <2>2, <2>3
  <1>4. CASE PublishError(w)
    <2>1. /\ worker[w].pc = "publish"
          /\ topic' = topic \/ topic' = topic \cup {Pending(w).event}
          /\ worker' = [worker EXCEPT ![w].pc = "record"]
      BY <1>4 DEF PublishError
    <2>2. \A v \in Workers : /\ worker'[v].batch = worker[v].batch
                             /\ worker'[v].pc = "mark" => worker[v].pc = "mark"
      BY <2>1 DEF DispatcherType
    <2> QED
      BY <1>1, <2>1, <2>2
  <1> QED
    BY <1>2, <1>3, <1>4 DEF WorkerStep

(* Starting, publishing and giving up keep what OpenInv says.               *)
LEMMA OpenWorks ==
    ASSUME TypeInv, UNCHANGED driver, OpenInv, NEW w \in Workers, WorkerStep(w)
    PROVE  OpenInv'
  <1>1. \A v \in Workers : Pending(v)' = Pending(v)
    BY WorkEffect DEF Pending
  <1>2. \A v \in Workers : worker'[v].pc = "mark" => Pending(v)'.event \in topic'
    BY <1>1, WorkEffect DEF OpenInv
  <1>3. \A v \in Workers : worker'[v].batch = worker[v].batch
    BY WorkEffect
  <1>4. Rebuilt' = Rebuilt
    BY WorkEffect
  <1> QED
    BY <1>2, <1>3, <1>4 DEF OpenInv

(* A claim changes nothing that the contract sees, and claims open events. *)
LEMMA ClaimVisible ==
    ASSUME TypeInv, UNCHANGED driver, NEW w \in Workers, Claim(w)
    PROVE  /\ UNCHANGED topic
           /\ Rebuilt'.transactions = Rebuilt.transactions
           /\ \A e \in Requests : Visible(Rebuilt'.events[e]) = Visible(Rebuilt.events[e])
  <1> USE DEF TypeInv, TypeOK
  <1>1. PICK events \in Selected(worker[w].now, BatchSize) :
          /\ ClaimPending(worker[w].now, Lease, FreshToken, events)
          /\ Claimed(w, PendingOf(events, FreshToken))
    BY DEF Claim
  <1>2. FreshToken \in Tokens /\ worker[w].now \in Nat
    BY FreshTokenIsFresh DEF Claim, DispatcherType
  <1>3. UNCHANGED <<topic, log>>
    BY <1>1 DEF Claimed, Continue, ClaimPending
  <1>4. CASE Durable
    BY <1>3, <1>4 DEF Rebuilt, Durable
  <1>5. CASE ~ Durable
    <2>1. Rebuilt' = memory' /\ Rebuilt = memory
      BY <1>5 DEF Rebuilt, Durable
    <2>2. /\ memory'.transactions = memory.transactions
          /\ \A e \in Requests :
                /\ memory'.events[e].known = memory.events[e].known
                /\ memory'.events[e].attempts = memory.events[e].attempts
                /\ memory'.events[e].published = memory.events[e].published
                /\ memory'.events[e].terminal = memory.events[e].terminal
      BY <1>1, <1>2, ClaimEffect
    <2> QED
      BY <1>3, <2>1, <2>2 DEF Visible
  <1> QED
    BY <1>4, <1>5

(* A claim takes pending events only and leaves what is open as it is.      *)
LEMMA OpenClaims ==
    ASSUME TypeInv, DownInv, LogStateInv, UNCHANGED driver, OpenInv,
           NEW w \in Workers, Claim(w)
    PROVE  OpenInv'
  <1> USE DEF TypeInv, TypeOK
  <1>1. PICK events \in Selected(worker[w].now, BatchSize) :
          Claimed(w, PendingOf(events, FreshToken))
    BY DEF Claim
  <1>2. FreshToken \in Tokens
    BY FreshTokenIsFresh DEF Claim
  <1> DEFINE batch == PendingOf(events, FreshToken)
  <1>3. /\ DOMAIN batch = DOMAIN events
        /\ \A k \in DOMAIN events : batch[k].event = events[k]
    BY DEF PendingOf
  <1>4. \A k \in DOMAIN events : events[k] \in Claimable(worker[w].now)
    BY <1>2, ClaimedBatch
  <1>5. process = "up"
    BY DEF Claim, DownInv
  <1>6. \A v \in Workers : v = w
    BY LocalServiceAssumption
  <1>7. worker'[w].batch \in {batch, <<>>} /\ worker'[w].pc # "mark"
    BY <1>1 DEF Claimed, Continue, DispatcherType, Idle
  <1> HIDE DEF batch
  <1>8. \A e \in Requests : Visible(Rebuilt'.events[e]) = Visible(Rebuilt.events[e])
    BY ClaimVisible
  <1>9. ASSUME NEW k \in DOMAIN batch PROVE Open(Rebuilt'.events[batch[k].event])
    <2>1. PICK e \in Requests : e = batch[k].event /\ Open(memory.events[e])
      BY <1>3, <1>4 DEF Claimable, Open
    <2>2. Visible(Rebuilt'.events[e]) = Visible(memory.events[e])
      BY <1>5, <1>8, UpAgrees
    <2> QED
      BY <2>1, <2>2 DEF Open, Visible
  <1>10. ASSUME NEW e \in Requests
         PROVE  /\ ~ Rebuilt'.events[e].known => Rebuilt'.events[e].attempts = 0
                /\ Open(Rebuilt'.events[e]) => Rebuilt'.events[e].attempts < MaxAttempts
    BY <1>8 DEF OpenInv, Open, Visible
  <1>11. \A v \in Workers : \A k \in DOMAIN worker'[v].batch :
            Open(Rebuilt'.events[worker'[v].batch[k].event])
    BY <1>6, <1>7, <1>9
  <1> QED
    BY <1>6, <1>7, <1>10, <1>11 DEF OpenInv

(* Every step keeps open events open until their outcome is durable.       *)
LEMMA OpenStep ==
    ASSUME AppendFaults \subseteq {"nothing"}, TypeInv, DownInv, HeldInv, LogStateInv,
           RowsInv, OpenInv, [Next]_vars
    PROVE  OpenInv'
  <1>1. UNCHANGED driver
    BY DEF Next, vars
  <1> QED
    BY <1>1, StepKinds, OpenRests, OpenAccepts, OpenSettles, OpenWorks, OpenClaims

(* No event is stored in the beginning.                                    *)
LEMMA OpenInit == Init => OpenInv
  <1> SUFFICES ASSUME Init PROVE OpenInv
    OBVIOUS
  <1>1. Rebuilt = Empty
    BY ReplayEmpty DEF Init, Rebuilt
  <1>2. \A e \in Requests : Rebuilt.events[e].attempts = 0 /\ ~ Rebuilt.events[e].known
    BY <1>1, EmptyType
  <1>3. \A w \in Workers : worker[w].batch = <<>> /\ worker[w].pc # "mark"
    BY DEF Init, DispatcherInit, Idle
  <1> QED
    BY <1>2, <1>3 DEF OpenInv, Open


-----------------------------------------------------------------------------
(* The local process implements the contract.                              *)

(* The contract sees the maps that are durable.                            *)
LEMMA StoredIsRebuilt ==
    /\ RowsInv =>
          /\ StoredIds = [k \in Keys |-> Rebuilt.transactions[k].id]
          /\ StoredDeliveries =
                [e \in Requests |-> [status   |-> Status(Rebuilt.events[e]),
                                     attempts |-> Rebuilt.events[e].attempts]]
    /\ RowsInv' =>
          /\ StoredIds' = [k \in Keys |-> Rebuilt'.transactions[k].id]
          /\ StoredDeliveries' =
                [e \in Requests |-> [status   |-> Status(Rebuilt'.events[e]),
                                     attempts |-> Rebuilt'.events[e].attempts]]
  <1>1. RowsInv => Stored = Rebuilt
    BY DEF Stored, Rebuilt, RowsInv
  <1>2. RowsInv' => Stored' = Rebuilt'
    BY DEF Stored, Rebuilt, RowsInv
  <1> QED
    BY <1>1, <1>2 DEF StoredIds, StoredDeliveries

(* What the contract sees does not change when the visible part of the     *)
(* durable maps does not.                                                  *)
LEMMA SeenUnchanged ==
    ASSUME RowsInv, RowsInv',
           \A k \in Keys : Rebuilt'.transactions[k] = Rebuilt.transactions[k],
           \A e \in Requests : Visible(Rebuilt'.events[e]) = Visible(Rebuilt.events[e])
    PROVE  StoredIds' = StoredIds /\ StoredDeliveries' = StoredDeliveries
  <1>1. /\ StoredIds = [k \in Keys |-> Rebuilt.transactions[k].id]
        /\ StoredDeliveries =
              [e \in Requests |-> [status   |-> Status(Rebuilt.events[e]),
                                   attempts |-> Rebuilt.events[e].attempts]]
    BY StoredIsRebuilt
  <1>2. /\ StoredIds' = [k \in Keys |-> Rebuilt'.transactions[k].id]
        /\ StoredDeliveries' =
              [e \in Requests |-> [status   |-> Status(Rebuilt'.events[e]),
                                   attempts |-> Rebuilt'.events[e].attempts]]
    BY StoredIsRebuilt
  <1>3. ASSUME NEW e \in Requests
        PROVE  /\ Status(Rebuilt'.events[e]) = Status(Rebuilt.events[e])
               /\ Rebuilt'.events[e].attempts = Rebuilt.events[e].attempts
    BY DEF Visible, Status
  <1> QED
    BY <1>1, <1>2, <1>3

(* What a logged acceptance is for the contract.                           *)
LEMMA ContractAccepts ==
    ASSUME TypeInv, OnceInv, LogStateInv, RowsInv, RowsInv', OpenInv,
           NEW r \in Requests, Accepts(r)
    PROVE  Contract!Next
  <1>1. PICK m \in Memories : m = Rebuilt
    BY RebuiltType DEF RowsInv
  <1>2. PICK a \in Acceptances : a = Acceptance(r) /\ a.id = r
    BY AcceptanceType DEF TypeInv, TypeOK
  <1>3. PICK n : n = Rebuilt'
    OBVIOUS
  <1>3a. n = Apply(m, AcceptedRecord(a))
    BY <1>1, <1>2, <1>3 DEF Accepts
  <1>4. PICK k \in Keys : k = Key[a.identity]
    BY LocalStoreAssumption DEF Acceptances
  <1>5. m.transactions[k] = NoTransaction
    BY <1>1, <1>2, <1>4, UpAgrees DEF Accepts, Known, Existing
  <1>6. ~ m.events[r].known
    <2>1. ~ memory.events[r].known
      BY DEF OnceInv, Done, Accepts
    <2>2. Visible(m.events[r]) = Visible(memory.events[r])
      BY <1>1, UpAgrees DEF Accepts
    <2> QED
      BY <2>1, <2>2 DEF Visible
  <1>7. m.events[r].attempts = 0
    BY <1>1, <1>6 DEF OpenInv
  <1>8. ASSUME NEW e \in Requests
        PROVE  n.events[e] = IF e = r THEN NewEvent ELSE m.events[e]
    <2>1. n.events[e] = IF e = a.id THEN NewEvent ELSE m.events[e]
      BY <1>3a, AcceptedAt, Zenon
    <2> QED
      BY <1>2, <2>1
  <1>9. ASSUME NEW j \in Keys
        PROVE  n.transactions[j] = IF j = k THEN [id |-> r, fingerprint |-> a.fingerprint]
                                   ELSE m.transactions[j]
    <2>1. n.transactions[j] =
            IF j = Key[a.identity] THEN [id |-> a.id, fingerprint |-> a.fingerprint]
            ELSE m.transactions[j]
      BY <1>3a, AcceptedAt, Zenon
    <2> QED
      BY <1>2, <1>4, <2>1
  <1>10. /\ StoredIds = [j \in Keys |-> m.transactions[j].id]
         /\ StoredDeliveries = [e \in Requests |-> [status   |-> Status(m.events[e]),
                                                    attempts |-> m.events[e].attempts]]
    BY <1>1, StoredIsRebuilt
  <1>11. /\ StoredIds' = [j \in Keys |-> n.transactions[j].id]
         /\ StoredDeliveries' = [e \in Requests |-> [status   |-> Status(n.events[e]),
                                                     attempts |-> n.events[e].attempts]]
    <2>1. /\ StoredIds' = [j \in Keys |-> Rebuilt'.transactions[j].id]
          /\ StoredDeliveries' =
                [e \in Requests |-> [status   |-> Status(Rebuilt'.events[e]),
                                     attempts |-> Rebuilt'.events[e].attempts]]
      BY StoredIsRebuilt
    <2> QED
      BY <1>3, <2>1
  <1>12. StoredIds[k] = NoId /\ StoredIds' = [StoredIds EXCEPT ![k] = r]
    <2>1. StoredIds[k] = NoId
      BY <1>5, <1>10 DEF NoTransaction
    <2>2. \A j \in Keys : n.transactions[j].id = IF j = k THEN r ELSE m.transactions[j].id
      BY <1>9
    <2> QED
      BY <1>10, <1>11, <2>1, <2>2
  <1>13. /\ StoredDeliveries[r].status = "absent"
         /\ StoredDeliveries' = [StoredDeliveries EXCEPT ![r].status = "pending"]
    <2>1. Status(m.events[r]) = "absent"
      BY <1>6 DEF Status
    <2>2. Status(NewEvent) = "pending" /\ NewEvent.attempts = 0
      BY DEF Status, NewEvent
    <2>3. ASSUME NEW e \in Requests
          PROVE  [status |-> Status(n.events[e]), attempts |-> n.events[e].attempts] =
                   IF e = r THEN [status |-> "pending", attempts |-> 0]
                   ELSE [status |-> Status(m.events[e]), attempts |-> m.events[e].attempts]
      <3>1. CASE e = r
        <4>1. n.events[e] = NewEvent
          BY <1>8, <3>1, Zenon
        <4> QED
          BY <2>2, <3>1, <4>1
      <3>2. CASE e # r
        <4>1. n.events[e] = m.events[e]
          BY <1>8, <3>2, Zenon
        <4> QED
          BY <3>2, <4>1
      <3> QED
        BY <3>1, <3>2
    <2>4. StoredDeliveries[r] = [status |-> "absent", attempts |-> 0]
      BY <1>7, <1>10, <2>1
    <2>5. [StoredDeliveries EXCEPT ![r].status = "pending"] =
            [StoredDeliveries EXCEPT ![r] = [status |-> "pending", attempts |-> 0]]
      <3>1. [StoredDeliveries[r] EXCEPT !.status = "pending"]
              = [status |-> "pending", attempts |-> 0]
        BY <2>4
      <3> QED
        BY <3>1, Zenon
    <2>6. StoredDeliveries' =
            [StoredDeliveries EXCEPT ![r] = [status |-> "pending", attempts |-> 0]]
      BY <1>10, <1>11, <2>3
    <2> QED
      BY <2>4, <2>5, <2>6
  <1>14. UNCHANGED topic
    BY DEF Accepts
  <1>15. Contract!Accept(k, r)
    BY <1>12, <1>13, <1>14 DEF Contract!Accept
  <1> QED
    BY <1>15 DEF Contract!Next


(* What a logged outcome is for the contract.                              *)
LEMMA ContractSettles ==
    ASSUME TypeInv, HeldInv, LogStateInv, RowsInv, RowsInv', OpenInv,
           NEW w \in Workers, Settles(w)
    PROVE  Contract!Next
  <1>1. PICK m \in Memories : m = Rebuilt
    BY RebuiltType DEF RowsInv
  <1>2. PICK n : n = Rebuilt' /\ n = Apply(m, OutcomeRecord(w))
    BY <1>1 DEF Settles
  <1>3. PICK d \in Requests : d = Pending(w).event
    BY SettlingEvent DEF Settles
  <1>4. PICK attempts \in Nat : attempts = m.events[d].attempts
    BY <1>1, <1>3, SettlingEvent DEF Settles
  <1>5. /\ Open(m.events[d])
        /\ attempts = Pending(w).attempts
        /\ attempts < MaxAttempts
    BY <1>1, <1>3, <1>4, SettlingEvent DEF Settles
  <1>6. /\ n.transactions = m.transactions
        /\ \A e \in Requests \ {d} : n.events[e] = m.events[e]
        /\ n.events[d].known = m.events[d].known
        /\ worker[w].pc = "mark" =>
              n.events[d].published /\ n.events[d].attempts = m.events[d].attempts
        /\ worker[w].pc # "mark" =>
              /\ n.events[d].published = m.events[d].published
              /\ n.events[d].attempts = Pending(w).attempts + 1
              /\ n.events[d].terminal <=> Pending(w).attempts + 1 >= MaxAttempts
    BY <1>2, <1>3, OutcomeAt DEF Settles, TypeInv, TypeOK
  <1>7. /\ StoredIds = [k \in Keys |-> m.transactions[k].id]
        /\ StoredDeliveries = [e \in Requests |-> [status   |-> Status(m.events[e]),
                                                   attempts |-> m.events[e].attempts]]
    BY <1>1, StoredIsRebuilt
  <1>8. /\ StoredIds' = [k \in Keys |-> n.transactions[k].id]
        /\ StoredDeliveries' = [e \in Requests |-> [status   |-> Status(n.events[e]),
                                                    attempts |-> n.events[e].attempts]]
    BY <1>2, StoredIsRebuilt
  <1>9. UNCHANGED <<StoredIds, topic>>
    BY <1>6, <1>7, <1>8 DEF Settles
  <1>10. StoredDeliveries[d] = [status |-> "pending", attempts |-> attempts]
    <2>1. Status(m.events[d]) = "pending"
      BY <1>5 DEF Open, Status
    <2> QED
      BY <1>4, <1>7, <2>1
  <1>11. ASSUME NEW new, new = [status   |-> Status(n.events[d]),
                                attempts |-> n.events[d].attempts]
         PROVE  StoredDeliveries' = [StoredDeliveries EXCEPT ![d] = new]
    <2>1. ASSUME NEW e \in Requests
          PROVE  [status |-> Status(n.events[e]), attempts |-> n.events[e].attempts] =
                   IF e = d THEN new
                   ELSE [status |-> Status(m.events[e]), attempts |-> m.events[e].attempts]
      BY <1>6, <1>11
    <2> QED
      BY <1>7, <1>8, <2>1
  <1>12. CASE worker[w].pc = "mark"
    <2>1. Status(n.events[d]) = "published" /\ n.events[d].attempts = attempts
      BY <1>4, <1>5, <1>6, <1>12 DEF Status, Open
    <2>2. StoredDeliveries' = [StoredDeliveries EXCEPT
                                 ![d] = [status |-> "published", attempts |-> attempts]]
      BY <1>11, <2>1
    <2>3. [StoredDeliveries EXCEPT ![d].status = "published"] =
            [StoredDeliveries EXCEPT ![d] = [status |-> "published", attempts |-> attempts]]
      <3>1. [StoredDeliveries[d] EXCEPT !.status = "published"]
              = [status |-> "published", attempts |-> attempts]
        BY <1>10
      <3> QED
        BY <3>1, Zenon
    <2>4. d \in topic
      BY <1>3, <1>12 DEF OpenInv
    <2>5. Contract!Complete(d)
      BY <1>9, <1>10, <2>2, <2>3, <2>4 DEF Contract!Complete
    <2> QED
      BY <2>5 DEF Contract!Next
  <1>13. CASE worker[w].pc # "mark"
    <2>1. PICK status : status = IF attempts + 1 = MaxAttempts THEN "failed" ELSE "pending"
      OBVIOUS
    <2>2. n.events[d].terminal <=> attempts + 1 = MaxAttempts
      <3>1. n.events[d].terminal <=> attempts + 1 >= MaxAttempts
        BY <1>5, <1>6, <1>13
      <3>2. MaxAttempts \in Nat
        BY DispatcherAssumption
      <3>3. attempts + 1 >= MaxAttempts <=> attempts + 1 = MaxAttempts
        BY <1>5, <3>2
      <3> QED
        BY <3>1, <3>3
    <2>3. Status(n.events[d]) = status /\ n.events[d].attempts = attempts + 1
      <3>1. n.events[d].known /\ ~ n.events[d].published /\ n.events[d].attempts = attempts + 1
        BY <1>5, <1>6, <1>13 DEF Open
      <3> QED
        BY <2>1, <2>2, <3>1 DEF Status
    <2>4. StoredDeliveries' = [StoredDeliveries EXCEPT
                                 ![d] = [status |-> status, attempts |-> attempts + 1]]
      BY <1>11, <2>3
    <2>5. [attempts |-> StoredDeliveries[d].attempts + 1,
           status   |-> IF StoredDeliveries[d].attempts + 1 = MaxAttempts
                        THEN "failed" ELSE "pending"]
            = [status |-> status, attempts |-> attempts + 1]
      BY <1>10, <2>1
    <2>6. [StoredDeliveries EXCEPT
             ![d] = [attempts |-> @.attempts + 1,
                     status   |-> IF @.attempts + 1 = MaxAttempts
                                  THEN "failed" ELSE "pending"]]
            = [StoredDeliveries EXCEPT ![d] = [status |-> status, attempts |-> attempts + 1]]
      BY <2>5, Zenon
    <2>7. StoredDeliveries[d].status = "pending"
      BY <1>10
    <2>8. Contract!FailAttempt(d)
      BY <1>9, <2>4, <2>6, <2>7, Zenon DEF Contract!FailAttempt
    <2> QED
      BY <2>8 DEF Contract!Next
  <1> QED
    BY <1>12, <1>13

(* Every step maps to a step of DeliveryContract or to a stutter.          *)
LEMMA ContractStep ==
    ASSUME AppendFaults \subseteq {"nothing"}, TypeInv, DownInv, OnceInv, HeldInv,
           LogStateInv, RowsInv, RowsInv', OpenInv, [Next]_vars
    PROVE  [Contract!Next]_(Contract!contractVars)
  <1>1. UNCHANGED driver
    BY DEF Next, vars
  <1>2. CASE Rests
    <2>1. StoredIds' = StoredIds /\ StoredDeliveries' = StoredDeliveries
      BY <1>2, SeenUnchanged DEF Rests
    <2> QED
      BY <1>2, <2>1 DEF Rests, Contract!contractVars
  <1>3. ASSUME NEW r \in Requests, Accepts(r) PROVE Contract!Next
    BY <1>3, ContractAccepts
  <1>4. ASSUME NEW w \in Workers, Settles(w) PROVE Contract!Next
    BY <1>4, ContractSettles
  <1>5. ASSUME NEW w \in Workers, WorkerStep(w)
        PROVE  [Contract!Next]_(Contract!contractVars)
    <2>1. StoredIds' = StoredIds /\ StoredDeliveries' = StoredDeliveries
      <3>1. Rebuilt' = Rebuilt
        BY <1>1, <1>5, WorkEffect
      <3> QED
        BY <3>1, SeenUnchanged
    <2>2. CASE UNCHANGED topic
      BY <2>1, <2>2 DEF Contract!contractVars
    <2>3. CASE worker[w].pc = "publish" /\ topic' = topic \cup {Pending(w).event}
      <3>1. worker[w].batch # <<>> /\ worker[w].batch \in Seq(PendingEvents)
        BY <2>3 DEF TypeInv, TypeOK, BusyInv, DispatcherType
      <3>2. 1 \in DOMAIN worker[w].batch /\ Pending(w) = worker[w].batch[1]
        BY <3>1, TailOfBatch DEF Pending
      <3>3. PICK d \in Requests : d = Pending(w).event
        BY <3>2, BatchEvents
      <3>4. Open(Rebuilt.events[d])
        BY <3>2, <3>3 DEF OpenInv
      <3>5. StoredDeliveries[d].status # "absent"
        <4>1. Status(Rebuilt.events[d]) = "pending"
          BY <3>4 DEF Open, Status
        <4> QED
          BY <4>1, StoredIsRebuilt
      <3>6. Contract!Deliver(d)
        BY <2>1, <2>3, <3>3, <3>5 DEF Contract!Deliver
      <3> QED
        BY <3>6 DEF Contract!Next
    <2> QED
      BY <1>1, <1>5, <2>2, <2>3, WorkEffect
  <1>6. ASSUME NEW w \in Workers, Claim(w)
        PROVE  [Contract!Next]_(Contract!contractVars)
    <2>1. StoredIds' = StoredIds /\ StoredDeliveries' = StoredDeliveries
      BY <1>1, <1>6, ClaimVisible, SeenUnchanged
    <2> QED
      BY <1>1, <1>6, <2>1, ClaimVisible DEF Contract!contractVars
  <1> QED
    BY <1>2, <1>3, <1>4, <1>5, <1>6, StepKinds

(* Initial states map to initial states of DeliveryContract.               *)
LEMMA ContractInit == Init => Contract!Init
  <1> SUFFICES ASSUME Init PROVE Contract!Init
    OBVIOUS
  <1>1. Rebuilt = Empty /\ RowsInv
    BY ReplayEmpty, RowsInit DEF Init, Rebuilt
  <1>2. StoredIds = [k \in Keys |-> NoId]
    <2>1. \A k \in Keys : Empty.transactions[k].id = NoId
      BY EmptyType DEF NoTransaction
    <2> QED
      BY <1>1, <2>1, StoredIsRebuilt
  <1>3. StoredDeliveries = [e \in Requests |-> [status |-> "absent", attempts |-> 0]]
    <2>1. \A e \in Requests : Status(Empty.events[e]) = "absent"
                              /\ Empty.events[e].attempts = 0
      BY EmptyType DEF Status
    <2> QED
      BY <1>1, <2>1, StoredIsRebuilt
  <1> QED
    BY <1>2, <1>3 DEF Init, DispatcherInit, Contract!Init

(* As long as a failed append leaves nothing behind, every behaviour of    *)
(* the local process, with its ends and restarts, is one of                *)
(* DeliveryContract (safety): what is durable changes only as the contract *)
(* says, and an outcome that was logged is never taken back or repeated.   *)
THEOREM RefinesContract ==
    ASSUME AppendFaults \subseteq {"nothing"}
    PROVE  Spec => ImplementsContract
  <1> DEFINE I == /\ TypeInv /\ DownInv /\ OnceInv /\ HeldInv
                  /\ LogStateInv /\ RowsInv /\ OpenInv
  <1>1. Init => I
    BY TypeInit, DownInit, OnceHeldInit, LogStateInit, RowsInit, OpenInit
  <1>2. I /\ [Next]_vars => I'
    <2> SUFFICES ASSUME TypeInv, DownInv, OnceInv, HeldInv, LogStateInv, RowsInv, OpenInv,
                        [Next]_vars
                 PROVE  /\ TypeInv' /\ DownInv' /\ OnceInv' /\ HeldInv'
                        /\ LogStateInv' /\ RowsInv' /\ OpenInv'
      OBVIOUS
    <2>1. TypeInv' /\ DownInv' /\ OnceInv'
      BY TypeStep, DownStep, OnceStep
    <2>2. HeldInv'
      BY HeldStep
    <2>3. LogStateInv'
      BY LogStateStep DEF DownInv
    <2>4. RowsInv'
      BY RowsStep
    <2>5. OpenInv'
      BY OpenStep
    <2> QED
      BY <2>1, <2>2, <2>3, <2>4, <2>5
  <1>3. I /\ I' /\ [Next]_vars => [Contract!Next]_(Contract!contractVars)
    BY ContractStep
  <1> HIDE DEF I
  <1> QED
    BY <1>1, <1>2, <1>3, ContractInit, PTL DEF Spec, ImplementsContract, Contract!Spec

=============================================================================
