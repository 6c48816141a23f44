---------------------------- MODULE DynamoProofs ----------------------------
(***************************************************************************)
(* Proofs about the service on DynamoDB, for every set of requests,        *)
(* identities, bodies, workers and tokens, every assignment of identities  *)
(* to keys, every precision of the clock and every setting of the          *)
(* Dispatcher.                                                             *)
(***************************************************************************)
EXTENDS DynamoService, CoreProofs, SequenceTheorems

(* A sequence with one more element.                                       *)
LEMMA OneMoreElement ==
    ASSUME NEW S, NEW s \in Seq(S), NEW p, NEW k \in DOMAIN Append(s, p)
    PROVE  \/ k = Len(s) + 1 /\ Append(s, p)[k] = p
           \/ k \in DOMAIN s /\ Append(s, p)[k] = s[k]
  OBVIOUS

(* Who claimed at a, with a lease of l, is not relieved by who reads the   *)
(* clock at b, not in the future, until early before the end of the lease. *)
LEMMA LeaseNotOver ==
    ASSUME NEW a \in Nat, NEW b \in Nat, NEW c \in Nat, NEW l \in Nat, NEW early \in Nat,
           b <= c, c + early < a + l
    PROVE  ~ (a + l <= b + early)
  OBVIOUS

(* What begins a concatenation of four begins the whole.                   *)
LEMMA FirstStaysFirst ==
    ASSUME NEW S, NEW a \in Seq(S), NEW b \in Seq(S), NEW c \in Seq(S), NEW d \in Seq(S),
           Len(a) = 1
    PROVE  /\ DOMAIN (((a \o b) \o c) \o d) \subseteq Nat \ {0}
           /\ 1 \in DOMAIN (((a \o b) \o c) \o d)
           /\ (((a \o b) \o c) \o d)[1] = a[1]
  <1>1. a \o b \in Seq(S) /\ Len(a \o b) >= 1 /\ (a \o b)[1] = a[1]
    BY ConcatProperties
  <1>2. PICK ab \in Seq(S) : ab = a \o b
    BY <1>1
  <1>3. ab \o c \in Seq(S) /\ Len(ab \o c) >= 1 /\ (ab \o c)[1] = a[1]
    BY <1>1, <1>2, ConcatProperties
  <1>4. PICK abc \in Seq(S) : abc = ab \o c
    BY <1>3
  <1>5. abc \o d \in Seq(S) /\ Len(abc \o d) >= 1 /\ (abc \o d)[1] = a[1]
    BY <1>3, <1>4, ConcatProperties
  <1> QED
    BY <1>2, <1>4, <1>5

-----------------------------------------------------------------------------
(* Timestamps.  DynamoDB compares them as strings.  As far as their order  *)
(* is that of the instants, a lease keeps other workers off.               *)
OrderedWithin(early) == \A t, u \in Nat : NotAfter(t, u) => t <= u + early

(* Instants of one second differ by less than a second.                    *)
LEMMA SameSecond ==
    ASSUME NEW S \in Nat \ {0}, NEW t \in Nat, NEW u \in Nat, t \div S <= u \div S
    PROVE  t <= u + (S - 1)
  OBVIOUS

(* Trailing zeros are dropped as far as they go, at most up to the point.  *)
LEMMA DecimalsType ==
    ASSUME NEW t \in Nat
    PROVE  Decimals(t) \in 0..Precision
  <1> DEFINE S == {d \in 0..Precision : t % 10 ^ (Precision - d) = 0}
  <1>1. Precision \in S
    <2>1. Precision - Precision = 0
      BY PrecisionAssumption
    <2>2. 10 ^ 0 = 1 /\ t % 1 = 0
      OBVIOUS
    <2>3. t % 10 ^ (Precision - Precision) = 0
      BY <2>1, <2>2
    <2> QED
      BY <2>3, PrecisionAssumption
  <1>2. S \in SUBSET Nat /\ S # {}
    <2>1. S \subseteq 0..Precision
      OBVIOUS
    <2>2. 0..Precision \subseteq Nat
      BY PrecisionAssumption
    <2> HIDE DEF S
    <2> QED
      BY <1>1, <2>1, <2>2
  <1> HIDE DEF S
  <1>3. PICK n \in S : \A m \in S : n <= m
    BY <1>2, LeastElement
  <1>4. n \in 0..Precision /\ t % 10 ^ (Precision - n) = 0
    BY <1>3 DEF S
  <1>5. ASSUME NEW c \in 0..(n - 1)
        PROVE  t % 10 ^ (Precision - c) # 0
    <2>1. c \notin S
      BY <1>2, <1>3, <1>4, PrecisionAssumption
    <2>2. c \in 0..Precision
      BY <1>4, PrecisionAssumption
    <2> QED
      BY <2>1, <2>2 DEF S
  <1> QED
    BY <1>4, <1>5 DEF Decimals

(* A timestamp is a sequence that begins with the whole seconds.           *)
LEMMA SecondsFirst ==
    ASSUME NEW t \in Nat
    PROVE  /\ DOMAIN timestamp(t) \subseteq Nat \ {0}
           /\ 1 \in DOMAIN timestamp(t)
           /\ timestamp(t)[1] = t \div Second
  <1> DEFINE digits == [k \in 1..Decimals(t) |-> Digit((t \div 10 ^ (Precision - k)) % 10)]
             point  == IF Decimals(t) = 0 THEN <<>> ELSE <<Point>>
             S      == {t \div Second, Point, Zulu} \cup {digits[k] : k \in 1..Decimals(t)}
  <1>1. Decimals(t) \in Nat
    BY DecimalsType, PrecisionAssumption
  <1>2. t \div Second \in S /\ Point \in S /\ Zulu \in S
    OBVIOUS
  <1>3. digits \in [1..Decimals(t) -> S]
    OBVIOUS
  <1>4. timestamp(t) = ((<<t \div Second>> \o point) \o digits) \o <<Zulu>>
    BY DEF timestamp
  <1> HIDE DEF digits, S
  <1>5. /\ <<t \div Second>> \in Seq(S)
        /\ Len(<<t \div Second>>) = 1
        /\ <<t \div Second>>[1] = t \div Second
    BY <1>2
  <1>6. point \in Seq(S)
    BY <1>2
  <1>7. digits \in Seq(S)
    BY <1>1, <1>3
  <1>8. <<Zulu>> \in Seq(S)
    BY <1>2
  <1> HIDE DEF point
  <1> QED
    BY <1>4, <1>5, <1>6, <1>7, <1>8, FirstStaysFirst

(* The order of timestamps misleads within one second only.                *)
LEMMA OrderedWithinSecond ==
    ASSUME Second \in Nat \ {0}
    PROVE  OrderedWithin(Second - 1)
  <1> SUFFICES ASSUME NEW t \in Nat, NEW u \in Nat, NotAfter(t, u)
               PROVE  t <= u + (Second - 1)
    BY DEF OrderedWithin
  <1>1. /\ DOMAIN timestamp(t) \subseteq Nat \ {0}
        /\ 1 \in DOMAIN timestamp(t) /\ 1 \in DOMAIN timestamp(u)
        /\ timestamp(t)[1] = t \div Second /\ timestamp(u)[1] = u \div Second
    BY SecondsFirst
  <1>2. t \div Second \in Int /\ u \div Second \in Int
    OBVIOUS
  <1>3. t \div Second <= u \div Second
    <2>1. CASE timestamp(t) = timestamp(u)
      BY <1>1, <1>2, <2>1
    <2>2. ASSUME NEW k \in DOMAIN timestamp(t),
                 timestamp(t)[k] < timestamp(u)[k],
                 \A j \in 1..(k - 1) : timestamp(t)[j] = timestamp(u)[j]
          PROVE  t \div Second <= u \div Second
      <3>1. k \in Nat \ {0}
        BY <1>1
      <3>2. CASE k = 1
        BY <1>1, <1>2, <2>2, <3>2
      <3>3. CASE k # 1
        <4>1. 1 \in 1..(k - 1)
          BY <3>1, <3>3
        <4> QED
          BY <1>1, <1>2, <2>2, <4>1
      <3> QED
        BY <3>2, <3>3
    <2> QED
      BY <2>1, <2>2 DEF NotAfter
  <1> QED
    BY <1>3, SameSecond

USE BodiesAssumption, NullAssumption, DispatcherAssumption, FaultsAssumption,
    DynamoStoreAssumption

-----------------------------------------------------------------------------
(* Types.  Nothing proved here depends on where a query goes on reading:   *)
(* the cursors of the claims are taken from any set.                       *)

TableType ==
    /\ transactions \in [Keys ->
                          [id: Requests, fingerprint: Fingerprints] \cup {NoItem}]
    /\ outbox \in [Requests -> OutboxItems]
    /\ index \in [Requests -> OutboxItems]
    /\ session \in [Requests ->
                     [pc: {"closed", "read", "write", "reread", "returned"},
                      outcome: Outcomes]]

ClaimsWith(Cursors) ==
    [Workers -> [page: SUBSET [event: Requests, attempts: Nat], cursor: Cursors,
                 more: BOOLEAN, claimed: Seq(PendingEvents)]]

ClaimType == \E Cursors : claim \in ClaimsWith(Cursors)

TypeInv ==
    /\ request \in RequestType
    /\ DispatcherType
    /\ BusyInv
    /\ TableType
    /\ ClaimType
    /\ faults \in Nat

(* The next claim token exists, and nobody knows it.                       *)
LEMMA FreshTokenIsFresh ==
    ASSUME UsedTokens # Tokens
    PROVE  FreshToken \in Tokens /\ FreshToken \notin UsedTokens
  <1>1. \E t \in Tokens : t \notin UsedTokens
    BY DEF UsedTokens
  <1> QED
    BY <1>1 DEF FreshToken

(* The items that the three conditional updates write.                     *)
LEMMA LeasedItem ==
    ASSUME NEW item \in OutboxItems, NEW token \in Tokens, NEW lease \in Nat
    PROVE  [item EXCEPT !.lease_until = lease, !.claim_token = token] \in OutboxItems
  <1>1. lease \in Nat \cup {NoTime}
    OBVIOUS
  <1> QED
    BY <1>1, Zenon DEF OutboxItems

(* updateOutcome of MarkPublished writes an item.                          *)
LEMMA PublishedItem ==
    ASSUME NEW item \in OutboxItems
    PROVE  [item EXCEPT !.status = "published", !.retry_at = NoTime,
                        !.lease_until = NoTime, !.claim_token = NoToken] \in OutboxItems
  BY Zenon DEF OutboxItems

(* updateOutcome of RecordFailure writes an item.                          *)
LEMMA FailedItem ==
    ASSUME NEW item \in OutboxItems, NEW status \in {"pending", "failed"},
           NEW attempts \in Nat, NEW retry_at \in Nat \cup {NoTime}
    PROVE  [item EXCEPT !.status = status, !.attempts = attempts,
                        !.retry_at = retry_at, !.lease_until = NoTime,
                        !.claim_token = NoToken] \in OutboxItems
  BY Zenon DEF OutboxItems

(* What the conditional update of a claim does to the outbox.              *)
LEMMA LeaseEffect ==
    ASSUME TypeInv, NEW w \in Workers, NEW item, item.event \in Requests,
           NEW token \in Tokens, WriteLease(w, item, token)
    PROVE  /\ outbox' \in [Requests -> OutboxItems]
           /\ Due(outbox[item.event], worker[w].now)
           /\ outbox'[item.event].status = outbox[item.event].status
           /\ outbox'[item.event].claim_token = token
           /\ outbox'[item.event].lease_until = worker[w].now + Lease
           /\ \A e \in Requests \ {item.event} : outbox'[e] = outbox[e]
           /\ UNCHANGED <<transactions, index, session>>
  <1> DEFINE new == [outbox[item.event] EXCEPT !.lease_until = worker[w].now + Lease,
                                               !.claim_token = token]
  <1>1. worker[w].now + Lease \in Nat /\ outbox \in [Requests -> OutboxItems]
    BY DEF TypeInv, DispatcherType, TableType
  <1>2. new \in OutboxItems
    BY <1>1, LeasedItem
  <1>3. outbox' = [outbox EXCEPT ![item.event] = new]
    BY Zenon DEF WriteLease
  <1>5. /\ new.status = outbox[item.event].status /\ new.claim_token = token
        /\ new.lease_until = worker[w].now + Lease
    BY <1>1 DEF OutboxItems
  <1> HIDE DEF new
  <1>4. /\ outbox' \in [Requests -> OutboxItems] /\ outbox'[item.event] = new
        /\ \A e \in Requests \ {item.event} : outbox'[e] = outbox[e]
    BY <1>1, <1>2, <1>3
  <1> QED
    BY <1>4, <1>5 DEF WriteLease

(* What MarkPublished does to the outbox.                                  *)
LEMMA MarkEffect ==
    ASSUME TypeInv, NEW p \in PendingEvents, MarkPublished(p)
    PROVE  /\ outbox' \in [Requests -> OutboxItems]
           /\ outbox[p.event].status = "pending" /\ outbox[p.event].claim_token = p.token
           /\ outbox'[p.event].status = "published"
           /\ outbox'[p.event].claim_token = NoToken
           /\ \A e \in Requests \ {p.event} : outbox'[e] = outbox[e]
           /\ UNCHANGED <<transactions, index, session, claim>>
  <1> DEFINE new == [outbox[p.event] EXCEPT !.status = "published", !.retry_at = NoTime,
                        !.lease_until = NoTime, !.claim_token = NoToken]
  <1>1. outbox \in [Requests -> OutboxItems] /\ p.event \in Requests
    BY DEF TypeInv, TableType, PendingEvents
  <1>2. new \in OutboxItems /\ new.status = "published" /\ new.claim_token = NoToken
    BY <1>1, PublishedItem DEF OutboxItems
  <1>3. outbox' = [outbox EXCEPT ![p.event] = new]
    BY Zenon DEF MarkPublished
  <1> HIDE DEF new
  <1>4. /\ outbox' \in [Requests -> OutboxItems] /\ outbox'[p.event] = new
        /\ \A e \in Requests \ {p.event} : outbox'[e] = outbox[e]
    BY <1>1, <1>2, <1>3
  <1> QED
    BY <1>2, <1>4 DEF MarkPublished, ClaimHeld

(* What RecordFailure does to the outbox.                                  *)
LEMMA RecordEffect ==
    ASSUME TypeInv, NEW f \in Failures, RecordFailure(f)
    PROVE  /\ outbox' \in [Requests -> OutboxItems]
           /\ outbox[f.event].status = "pending" /\ outbox[f.event].claim_token = f.token
           /\ outbox'[f.event].status \in {"pending", "failed"}
           /\ outbox'[f.event].claim_token = NoToken
           /\ \A e \in Requests \ {f.event} : outbox'[e] = outbox[e]
           /\ UNCHANGED <<transactions, index, session, claim>>
  <1> DEFINE status == IF f.terminal THEN "failed" ELSE "pending"
             retry_at == IF f.terminal THEN NoTime ELSE f.retry_at
             new == [outbox[f.event] EXCEPT !.status = status, !.attempts = f.attempts,
                        !.retry_at = retry_at, !.lease_until = NoTime,
                        !.claim_token = NoToken]
  <1>1. outbox \in [Requests -> OutboxItems] /\ f.event \in Requests /\ f.attempts \in Nat
    BY DEF TypeInv, TableType, Failures
  <1>2. status \in {"pending", "failed"} /\ retry_at \in Nat \cup {NoTime}
    BY DEF Failures
  <1>3. outbox' = [outbox EXCEPT ![f.event] = new]
    BY Zenon DEF RecordFailure
  <1> HIDE DEF status, retry_at
  <1>4. /\ new \in OutboxItems
        /\ new.status \in {"pending", "failed"} /\ new.claim_token = NoToken
    <2>1. outbox[f.event] \in OutboxItems
      BY <1>1
    <2>2. new \in OutboxItems
      BY <1>1, <1>2, <2>1, FailedItem
    <2>3. new.status = status /\ new.claim_token = NoToken
      BY <2>1 DEF OutboxItems
    <2> QED
      BY <1>2, <2>2, <2>3
  <1> HIDE DEF new
  <1>5. /\ outbox' \in [Requests -> OutboxItems] /\ outbox'[f.event] = new
        /\ \A e \in Requests \ {f.event} : outbox'[e] = outbox[e]
    BY <1>1, <1>3, <1>4
  <1> QED
    BY <1>4, <1>5 DEF RecordFailure, ClaimHeld

(* Every call of Accept keeps the types of the store's state.              *)
LEMMA AcceptType ==
    ASSUME TableType, NEW a \in Acceptances,
           \/ Begin(a) \/ ReadIdentity(a) \/ TransactWriteItems(a) \/ Reclassify(a)
           \/ WriteCancelled(a) \/ WriteUnknown(a) \/ CallError(a) \/ Disconnect(a)
    PROVE  TableType'
  <1> DEFINE S == [pc: {"closed", "read", "write", "reread", "returned"},
                   outcome: Outcomes]
  <1>0. a.id \in Requests /\ Key[a.identity] \in Keys
    BY DEF Acceptances
  <1>1. ASSUME NEW pc \in {"read", "write", "reread"}, Goto(a, pc)
        PROVE  session' \in [Requests -> S]
    <2>1. session \in [Requests -> S] /\ session[a.id] \in S
      BY <1>0 DEF TableType
    <2>2. [session[a.id] EXCEPT !.pc = pc] \in S
      BY <2>1, Zenon
    <2>3. session' = [session EXCEPT ![a.id] = [session[a.id] EXCEPT !.pc = pc]]
      BY <1>1, Zenon DEF Goto
    <2> HIDE DEF S
    <2> QED
      BY <2>1, <2>2, <2>3
  <1>2. ASSUME NEW outcome \in Outcomes, Return(a, outcome)
        PROVE  session' \in [Requests -> S]
    <2>1. [pc |-> "returned", outcome |-> outcome] \in S
      OBVIOUS
    <2>2. session \in [Requests -> S]
      BY DEF TableType
    <2> HIDE DEF S
    <2> QED
      BY <1>2, <2>1, <2>2 DEF Return
  <1>3. StoreError \in Outcomes /\ StoreAccepted(a.id) \in Outcomes
    BY <1>0 DEF StoreError, StoreAccepted, Outcomes, Ids
  <1>4. Classified(a) \in Outcomes
    BY <1>0 DEF Classified, Item, StoreReplay, StoreConflict, Outcomes, Ids, NoItem,
                TableType
  <1>5. PutItems(a) => /\ transactions' \in [Keys ->
                            [id: Requests, fingerprint: Fingerprints] \cup {NoItem}]
                       /\ outbox' \in [Requests -> OutboxItems]
    <2>1. [AbsentEvent EXCEPT !.status = "pending",
                              !.occurred_at = a.occurred_at] \in OutboxItems
      BY DEF AbsentEvent, OutboxItems, Acceptances
    <2>2. [id |-> a.id, fingerprint |-> a.fingerprint]
            \in [id: Requests, fingerprint: Fingerprints]
      BY DEF Acceptances
    <2> QED
      BY <1>0, <2>1, <2>2 DEF PutItems, TableType
  <1>6. session' \in [Requests -> S]
    <2>1. CASE Begin(a) \/ WriteCancelled(a)
      BY <1>1, <2>1 DEF Begin, WriteCancelled
    <2>2. CASE ReadIdentity(a)
      BY <1>1, <1>2, <1>4, <2>2 DEF ReadIdentity
    <2>3. CASE TransactWriteItems(a)
      BY <1>1, <1>2, <1>3, <2>3 DEF TransactWriteItems
    <2>4. CASE Reclassify(a)
      BY <1>2, <1>3, <1>4, <2>4 DEF Reclassify
    <2>5. CASE WriteUnknown(a) \/ CallError(a)
      BY <1>2, <1>3, <2>5 DEF WriteUnknown, CallError
    <2>6. CASE Disconnect(a)
      <3>1. Closed \in S /\ session \in [Requests -> S]
        BY <1>3 DEF Closed, TableType
      <3> HIDE DEF S
      <3> QED
        BY <2>6, <3>1 DEF Disconnect
    <2> QED
      BY <2>1, <2>2, <2>3, <2>4, <2>5, <2>6
  <1>7. \/ PutItems(a)
        \/ UNCHANGED tableVars
    BY DEF Begin, ReadIdentity, TransactWriteItems, Reclassify, WriteCancelled,
           WriteUnknown, CallError, Disconnect
  <1>8. UNCHANGED index
    BY DEF Begin, ReadIdentity, TransactWriteItems, Reclassify, WriteCancelled,
           WriteUnknown, CallError, Disconnect
  <1> QED
    BY <1>5, <1>6, <1>7, <1>8 DEF TableType, tableVars

(* ClaimPending's locals: a page of the index, what is left of it, and what*)
(* was claimed from it.                                                    *)
LEMMA ClaimLocals ==
    ASSUME TypeInv, NEW w \in Workers
    PROVE  /\ claim[w].claimed \in Seq(PendingEvents)
           /\ \A item \in claim[w].page : item.event \in Requests /\ item.attempts \in Nat
  BY DEF TypeInv, ClaimType, ClaimsWith

(* An item is passed over, or the claim ends; other claims go on.          *)
LEMMA ClaimEffects ==
    ASSUME TypeInv, NEW w \in Workers
    PROVE  /\ \A item : Skip(w, item) =>
                 /\ ClaimType'
                 /\ claim'[w].claimed = claim[w].claimed
                 /\ \A v \in Workers \ {w} : claim'[v] = claim[v]
           /\ claim' = [claim EXCEPT ![w] = NoClaim] =>
                 /\ ClaimType'
                 /\ claim'[w].claimed = <<>>
                 /\ \A v \in Workers \ {w} : claim'[v] = claim[v]
  <1>1. PICK Cursors : claim \in ClaimsWith(Cursors)
    BY DEF TypeInv, ClaimType
  <1> DEFINE C == [page: SUBSET [event: Requests, attempts: Nat], cursor: Cursors,
                   more: BOOLEAN, claimed: Seq(PendingEvents)]
  <1>2. claim \in [Workers -> C] /\ claim[w] \in C
    BY <1>1 DEF ClaimsWith
  <1>3. ASSUME NEW item, Skip(w, item)
        PROVE  /\ ClaimType'
               /\ claim'[w].claimed = claim[w].claimed
               /\ \A v \in Workers \ {w} : claim'[v] = claim[v]
    <2> DEFINE rest == claim[w].page \ {item}
               new == [claim[w] EXCEPT !.page = rest]
    <2>1. rest \in SUBSET [event: Requests, attempts: Nat]
      BY <1>2
    <2>2. claim' = [claim EXCEPT ![w] = new]
      BY <1>3, Zenon DEF Skip
    <2> HIDE DEF rest
    <2>3. new \in C
      BY <1>2, <2>1, Zenon
    <2>4. new.claimed = claim[w].claimed
      BY <1>2
    <2> HIDE DEF new, C
    <2>5. claim' \in [Workers -> C] /\ claim'[w] = new
          /\ \A v \in Workers \ {w} : claim'[v] = claim[v]
      BY <1>2, <2>2, <2>3
    <2> QED
      BY <2>4, <2>5 DEF ClaimType, ClaimsWith, C
  <1>4. ASSUME claim' = [claim EXCEPT ![w] = NoClaim]
        PROVE  /\ ClaimType'
               /\ claim'[w].claimed = <<>>
               /\ \A v \in Workers \ {w} : claim'[v] = claim[v]
    <2>1. ClaimType'
      <3> DEFINE All == Cursors \cup {NoId}
      <3>1. claim \in ClaimsWith(All)
        BY <1>1 DEF ClaimsWith
      <3>2. claim' \in ClaimsWith(All)
        BY <1>4, <3>1 DEF ClaimsWith, NoClaim
      <3> QED
        BY <3>2 DEF ClaimType, ClaimsWith
    <2>2. claim'[w] = NoClaim /\ \A v \in Workers \ {w} : claim'[v] = claim[v]
      BY <1>2, <1>4
    <2> QED
      BY <2>1, <2>2 DEF NoClaim
  <1> QED
    BY <1>3, <1>4

(* A page is read; what was claimed before stays claimed.                  *)
LEMMA QueryEffect ==
    ASSUME TypeInv, NEW w \in Workers, Query(w)
    PROVE  /\ ClaimType'
           /\ claim'[w].claimed = claim[w].claimed
           /\ \A v \in Workers \ {w} : claim'[v] = claim[v]
           /\ UNCHANGED <<tableVars, index, session>>
  <1>1. PICK Cursors : claim \in ClaimsWith(Cursors)
    BY DEF TypeInv, ClaimType
  <1> DEFINE page == {[event |-> e, attempts |-> index[e].attempts] :
                        e \in {d \in Read(w) : Due(index[d], worker[w].now)}}
             cursor == IF Read(w) = {} THEN claim[w].cursor
                       ELSE CHOOSE e \in Read(w) : \A d \in Read(w) : ~ Precedes(e, d)
             more == Cardinality(Read(w)) = BatchSize - Len(claim[w].claimed)
             All == Cursors \cup {cursor}
             C == [page: SUBSET [event: Requests, attempts: Nat], cursor: All,
                   more: BOOLEAN, claimed: Seq(PendingEvents)]
             new == [claim[w] EXCEPT !.page = page, !.cursor = cursor, !.more = more]
  <1>2. claim' = [claim EXCEPT ![w] = new]
    <2> DEFINE last == CHOOSE e \in Read(w) : \A d \in Read(w) : ~ Precedes(e, d)
    <2>1. claim' = [claim EXCEPT ![w].page = page,
                                 ![w].cursor = IF Read(w) = {} THEN @ ELSE last,
                                 ![w].more = more]
      BY DEF Query
    <2>2. claim \in [Workers -> [page: SUBSET [event: Requests, attempts: Nat],
                                 cursor: Cursors, more: BOOLEAN,
                                 claimed: Seq(PendingEvents)]]
      BY <1>1 DEF ClaimsWith
    <2> HIDE DEF page, more, last
    <2>3. claim' = [claim EXCEPT ![w] = [claim[w] EXCEPT !.page = page,
                       !.cursor = IF Read(w) = {} THEN @ ELSE last, !.more = more]]
      BY <2>1, <2>2
    <2> QED
      BY <2>3, Zenon DEF last
  <1>3. page \in SUBSET [event: Requests, attempts: Nat]
    <2>1. \A e \in Read(w) : e \in Requests /\ index[e].attempts \in Nat
      BY DEF Read, Unread, TypeInv, TableType, OutboxItems
    <2> QED
      BY <2>1
  <1>4. more \in BOOLEAN
    OBVIOUS
  <1> HIDE DEF page, cursor, more
  <1>5. claim \in [Workers -> C] /\ claim[w] \in C /\ cursor \in All
    BY <1>1 DEF ClaimsWith
  <1>6. new \in C /\ new.claimed = claim[w].claimed
    <2>1. new \in C
      <3> HIDE DEF All
      <3> QED
        BY <1>3, <1>4, <1>5, Zenon
    <2>2. new.claimed = claim[w].claimed
      BY <1>5
    <2> QED
      BY <2>1, <2>2
  <1> HIDE DEF new, C
  <1>7. /\ claim' \in [Workers -> C] /\ claim'[w] = new
        /\ \A v \in Workers \ {w} : claim'[v] = claim[v]
    BY <1>2, <1>5, <1>6
  <1>8. ClaimType'
    <2>1. claim' \in ClaimsWith(All)
      BY <1>7 DEF ClaimsWith, C
    <2> HIDE DEF All
    <2> QED
      BY <2>1 DEF ClaimType, ClaimsWith
  <1> QED
    BY <1>6, <1>7, <1>8 DEF Query

(* The conditional update of a claim took the item.                        *)
LEMMA LeaseItemEffect ==
    ASSUME TypeInv, NEW w \in Workers, NEW item \in claim[w].page, NEW token \in Tokens,
           LeaseItem(w, item, token)
    PROVE  /\ ClaimType'
           /\ claim'[w].claimed = Append(claim[w].claimed,
                [event |-> item.event, attempts |-> item.attempts, token |-> token])
           /\ \A v \in Workers \ {w} : claim'[v] = claim[v]
           /\ WriteLease(w, item, token)
  <1>1. PICK Cursors : claim \in ClaimsWith(Cursors)
    BY DEF TypeInv, ClaimType
  <1> DEFINE claimed == Append(claim[w].claimed,
                [event |-> item.event, attempts |-> item.attempts, token |-> token])
             page == IF Len(claimed) = BatchSize THEN {} ELSE claim[w].page \ {item}
             C == [page: SUBSET [event: Requests, attempts: Nat], cursor: Cursors,
                   more: BOOLEAN, claimed: Seq(PendingEvents)]
             new == [claim[w] EXCEPT !.page = page, !.claimed = claimed]
  <1>2. claim' = [claim EXCEPT ![w] = new]
    BY Zenon DEF LeaseItem
  <1>3. claim \in [Workers -> C] /\ claim[w] \in C
    BY <1>1 DEF ClaimsWith
  <1>4. claimed \in Seq(PendingEvents)
    <2>1. [event |-> item.event, attempts |-> item.attempts, token |-> token]
            \in PendingEvents
      BY ClaimLocals DEF PendingEvents
    <2> QED
      BY <2>1, ClaimLocals
  <1>5. page \in SUBSET [event: Requests, attempts: Nat]
    BY <1>3
  <1> HIDE DEF page, claimed
  <1>6. new \in C
    BY <1>3, <1>4, <1>5, Zenon
  <1>7. new.claimed = claimed
    BY <1>3
  <1> HIDE DEF new, C
  <1>8. /\ claim' \in [Workers -> C] /\ claim'[w] = new
        /\ \A v \in Workers \ {w} : claim'[v] = claim[v]
    BY <1>2, <1>3, <1>6
  <1>9. ClaimType'
    BY <1>8 DEF ClaimType, ClaimsWith, C
  <1> QED
    BY <1>7, <1>8, <1>9 DEF LeaseItem, claimed

(* A busy worker has an event at the head of its batch.                    *)
LEMMA HeadOfBatch ==
    ASSUME TypeInv, NEW w \in Workers, worker[w].pc \in {"publish", "mark", "record"}
    PROVE  /\ worker[w].batch # <<>> /\ worker[w].batch \in Seq(PendingEvents)
           /\ Pending(w) \in PendingEvents
           /\ Pending(w) = worker[w].batch[1]
           /\ 1 \in DOMAIN worker[w].batch
  <1>1. worker[w].batch # <<>> /\ worker[w].batch \in Seq(PendingEvents)
    BY DEF TypeInv, DispatcherType, BusyInv
  <1> QED
    BY <1>1, TailOfBatch DEF Pending

(* The initial state is typed.                                             *)
LEMMA TypeInit == Init => TypeInv
  <1> SUFFICES ASSUME Init PROVE TypeInv
    OBVIOUS
  <1> USE DEF Init
  <1>1. request \in RequestType
    <2>1. NoReply \in Replies
      BY DEF NoReply, Replies, Ids
    <2> QED
      BY <2>1 DEF IntakeInit, RequestType
  <1>2. DispatcherType /\ BusyInv
    BY DEF DispatcherInit, DispatcherType, BusyInv, Idle
  <1>3. TableType
    <2>1. AbsentEvent \in OutboxItems
      BY DEF AbsentEvent, OutboxItems
    <2>2. Closed \in [pc: {"closed", "read", "write", "reread", "returned"},
                      outcome: Outcomes]
      BY DEF Closed, StoreError, Outcomes, Ids
    <2> QED
      BY <2>1, <2>2 DEF StoreInit, TableType
  <1>4. ClaimType
    <2>1. claim \in ClaimsWith({NoId})
      BY DEF StoreInit, NoClaim, ClaimsWith
    <2> QED
      BY <2>1 DEF ClaimType
  <1> QED
    BY <1>1, <1>2, <1>3, <1>4 DEF TypeInv

(* The steps of a worker one by one: what they do to the batch of RunBatch,*)
(* to the locals of ClaimPending, and to the outbox.                       *)
WorkerEffect(w) ==
    /\ UNCHANGED <<request, transactions, index, session, clock>>
    /\ \A v \in Workers \ {w} : claim'[v] = claim[v] /\ worker'[v] = worker[v]
    /\ \/ WorkerStep(w)
       \/ /\ worker[w].pc = "claiming"
          /\ UNCHANGED <<outbox, worker, topic>>
          /\ claim'[w].claimed = claim[w].claimed
       \/ \E item \in claim[w].page :
             /\ worker[w].pc = "claiming"
             /\ UsedTokens # Tokens
             /\ WriteLease(w, item, FreshToken)
             /\ UNCHANGED topic
             /\ \/ /\ worker' = worker
                   /\ claim'[w].claimed =
                        Append(claim[w].claimed,
                               [event |-> item.event, attempts |-> item.attempts,
                                token |-> FreshToken])
                \/ worker' = worker /\ claim'[w].claimed = claim[w].claimed
                \/ worker'[w] = Stopped /\ claim'[w].claimed = <<>>
       \/ /\ worker[w].pc = "claiming"
          /\ Continue(w, claim[w].claimed)
          /\ claim'[w].claimed = <<>>
          /\ UNCHANGED outbox
       \/ /\ worker[w].pc = "mark" /\ MarkPublished(Pending(w))
          /\ Advance(w) \/ Halt(w)
       \/ /\ worker[w].pc = "record" /\ RecordFailure(Failure(w))
          /\ Advance(w) \/ Halt(w)
       \/ /\ Halt(w)
          /\ UNCHANGED outbox
          /\ \/ claim'[w].claimed = <<>>
             \/ worker[w].pc # "claiming" /\ claim'[w].claimed = claim[w].claimed

(* Every step of a worker has such an effect, and keeps the types.         *)
LEMMA WorkerSteps ==
    ASSUME TypeInv, NEW w \in Workers,
           WorkerNext(w) \/ ClaimTrouble(w) \/ CrashWorker(w)
    PROVE  WorkerEffect(w) /\ TypeInv'
  <1> USE DEF TypeInv
  <1>1. CASE WorkerStep(w)
    <2>1. /\ UNCHANGED <<request, transactions, outbox, index, session, claim, clock, faults>>
          /\ \A v \in Workers \ {w} : worker'[v] = worker[v]
      BY <1>1 DEF WorkerStep, StartBatch, PublishOk, PublishError, Restart,
                  intakeVars, storeVars, tableVars, DispatcherType
    <2>2. DispatcherType' /\ BusyInv'
      BY <1>1, RunType, BusyStep DEF WorkerStep, BusyInv
    <2> QED
      BY <1>1, <2>1, <2>2 DEF WorkerEffect, TableType, ClaimType, ClaimsWith
  <1>2. CASE ClaimStep(w)
    <2>1. UNCHANGED <<request, worker, topic, clock, faults>> /\ worker[w].pc = "claiming"
      BY <1>2 DEF ClaimStep, intakeVars, dispatcherVars
    <2>2. DispatcherType' /\ BusyInv'
      BY <2>1 DEF DispatcherType, BusyInv
    <2>3. CASE Query(w)
      <3>1. /\ ClaimType' /\ claim'[w].claimed = claim[w].claimed
            /\ \A v \in Workers \ {w} : claim'[v] = claim[v]
            /\ UNCHANGED <<transactions, outbox, index, session>>
        BY <2>3, QueryEffect DEF tableVars
      <3> QED
        BY <2>1, <2>2, <3>1 DEF WorkerEffect, TableType
    <2>4. ASSUME NEW item \in claim[w].page, SkipItem(w, item)
          PROVE  WorkerEffect(w) /\ TypeInv'
      <3>1. /\ ClaimType' /\ claim'[w].claimed = claim[w].claimed
            /\ \A v \in Workers \ {w} : claim'[v] = claim[v]
            /\ UNCHANGED <<transactions, outbox, index, session>>
        BY <2>4, ClaimEffects DEF SkipItem, tableVars
      <3> QED
        BY <2>1, <2>2, <3>1 DEF WorkerEffect, TableType
    <2>5. ASSUME NEW item \in claim[w].page, UsedTokens # Tokens,
                 LeaseItem(w, item, FreshToken)
          PROVE  WorkerEffect(w) /\ TypeInv'
      <3>1. FreshToken \in Tokens /\ item.event \in Requests
        BY <2>5, FreshTokenIsFresh, ClaimLocals
      <3>2. /\ ClaimType'
            /\ claim'[w].claimed = Append(claim[w].claimed,
                 [event |-> item.event, attempts |-> item.attempts, token |-> FreshToken])
            /\ \A v \in Workers \ {w} : claim'[v] = claim[v]
            /\ WriteLease(w, item, FreshToken)
        BY <2>5, <3>1, LeaseItemEffect
      <3>3. TableType' /\ UNCHANGED <<transactions, index, session>>
        BY <3>1, <3>2, LeaseEffect DEF TableType
      <3> QED
        BY <2>1, <2>2, <2>5, <3>2, <3>3 DEF WorkerEffect
    <2> QED
      BY <1>2, <2>3, <2>4, <2>5 DEF ClaimStep
  <1>3. CASE ClaimReturns(w)
    <2>1. /\ UNCHANGED <<request, transactions, outbox, index, session, topic, clock, faults>>
          /\ worker[w].pc = "claiming" /\ Continue(w, claim[w].claimed)
          /\ claim' = [claim EXCEPT ![w] = NoClaim]
          /\ \A v \in Workers \ {w} : worker'[v] = worker[v]
      BY <1>3 DEF ClaimReturns, Claimed, Continue, EndClaim, intakeVars, tableVars,
                  DispatcherType
    <2>2. DispatcherType' /\ BusyInv'
      BY <2>1, ClaimLocals, ContinueType, BusyStep
    <2>3. /\ ClaimType' /\ claim'[w].claimed = <<>>
          /\ \A v \in Workers \ {w} : claim'[v] = claim[v]
      BY <2>1, ClaimEffects
    <2> QED
      BY <2>1, <2>2, <2>3 DEF WorkerEffect, TableType
  <1>4. CASE ClaimTrouble(w)
    <2>1. PICK item \in claim[w].page :
             \/ LeaseForgotten(w, item, FreshToken) /\ UNCHANGED dispatcherVars
             \/ /\ WriteLease(w, item, FreshToken)
                /\ claim' = [claim EXCEPT ![w] = NoClaim]
                /\ Halt(w)
      BY <1>4 DEF ClaimTrouble
    <2>2. FreshToken \in Tokens /\ item.event \in Requests
      BY <1>4, FreshTokenIsFresh, ClaimLocals DEF ClaimTrouble
    <2>3. WriteLease(w, item, FreshToken)
      BY <2>1 DEF LeaseForgotten
    <2>4. TableType' /\ UNCHANGED <<transactions, index, session>>
      BY <2>2, <2>3, LeaseEffect DEF TableType
    <2>5. /\ faults' \in Nat /\ UNCHANGED request /\ worker[w].pc = "claiming"
          /\ UsedTokens # Tokens
      BY <1>4 DEF ClaimTrouble, Fault, intakeVars
    <2>6. CASE LeaseForgotten(w, item, FreshToken) /\ UNCHANGED dispatcherVars
      <3>1. /\ ClaimType' /\ claim'[w].claimed = claim[w].claimed
            /\ \A v \in Workers \ {w} : claim'[v] = claim[v]
        BY <2>6, ClaimEffects DEF LeaseForgotten
      <3>2. UNCHANGED <<worker, topic, clock>> /\ DispatcherType' /\ BusyInv'
        BY <2>6 DEF dispatcherVars, DispatcherType, BusyInv
      <3> QED
        BY <2>3, <2>4, <2>5, <3>1, <3>2 DEF WorkerEffect
    <2>7. CASE claim' = [claim EXCEPT ![w] = NoClaim] /\ Halt(w)
      <3>1. /\ ClaimType' /\ claim'[w].claimed = <<>>
            /\ \A v \in Workers \ {w} : claim'[v] = claim[v]
        BY <2>7, ClaimEffects
      <3>2. /\ UNCHANGED <<topic, clock>> /\ worker'[w] = Stopped
            /\ \A v \in Workers \ {w} : worker'[v] = worker[v]
        BY <2>7 DEF Halt, DispatcherType
      <3>3. DispatcherType' /\ BusyInv'
        BY <2>7, HaltType, BusyStep
      <3> QED
        BY <2>3, <2>4, <2>5, <3>1, <3>2, <3>3 DEF WorkerEffect
    <2> QED
      BY <2>1, <2>6, <2>7
  <1>5. ASSUME worker[w].pc \in {"mark", "record"}, Confirmed(w)
        PROVE  /\ DispatcherType' /\ BusyInv' /\ faults' \in Nat
               /\ Advance(w) \/ Halt(w)
               /\ UNCHANGED clock
               /\ \A v \in Workers \ {w} : worker'[v] = worker[v]
    <2>1. Tail(worker[w].batch) \in Seq(PendingEvents)
      BY <1>5, HeadOfBatch, TailOfBatch
    <2>2. CASE Advance(w) /\ UNCHANGED faults
      <3>1. DispatcherType' /\ BusyInv'
        BY <2>1, <2>2, ContinueType, BusyStep DEF Advance
      <3> QED
        BY <2>2, <3>1 DEF Advance, Continue, DispatcherType
    <2>3. CASE Halt(w) /\ Fault
      <3>1. DispatcherType' /\ BusyInv'
        BY <2>3, HaltType, BusyStep
      <3> QED
        BY <2>3, <3>1 DEF Halt, DispatcherType, Fault
    <2> QED
      BY <1>5, <2>2, <2>3 DEF Confirmed
  <1>6. CASE Mark(w)
    <2>1. /\ Pending(w) \in PendingEvents /\ MarkPublished(Pending(w))
          /\ UNCHANGED request /\ worker[w].pc = "mark" /\ Confirmed(w)
      BY <1>6, HeadOfBatch DEF Mark, intakeVars
    <2>2. TableType' /\ UNCHANGED <<transactions, index, session, claim>>
      BY <2>1, MarkEffect DEF TableType
    <2> QED
      <3>1. WorkerEffect(w)
        BY <1>5, <2>1, <2>2 DEF WorkerEffect
      <3>2. ClaimType'
        BY <2>2 DEF ClaimType, ClaimsWith
      <3> QED
        BY <1>5, <2>1, <2>2, <3>1, <3>2
  <1>7. CASE Record(w)
    <2>1. /\ Failure(w) \in Failures /\ RecordFailure(Failure(w))
          /\ UNCHANGED request /\ worker[w].pc = "record" /\ Confirmed(w)
      BY <1>7, HeadOfBatch, FailureType DEF Record, intakeVars
    <2>2. TableType' /\ UNCHANGED <<transactions, index, session, claim>>
      BY <2>1, RecordEffect DEF TableType
    <2> QED
      <3>1. WorkerEffect(w)
        BY <1>5, <2>1, <2>2 DEF WorkerEffect
      <3>2. ClaimType'
        BY <2>2 DEF ClaimType, ClaimsWith
      <3> QED
        BY <1>5, <2>1, <2>2, <3>1, <3>2
  <1>8. CASE LeaseLost(w) \/ CrashWorker(w)
    <2>1. /\ Halt(w) /\ faults' \in Nat
          /\ UNCHANGED <<request, transactions, outbox, index, session>>
          /\ \/ claim' = claim /\ worker[w].pc # "claiming"
             \/ claim' = [claim EXCEPT ![w] = NoClaim]
      BY <1>8 DEF LeaseLost, CrashWorker, Fault, EndClaim, intakeVars, storeVars, tableVars
    <2>2. DispatcherType' /\ BusyInv' /\ UNCHANGED clock
          /\ \A v \in Workers \ {w} : worker'[v] = worker[v]
      BY <2>1, HaltType, BusyStep DEF Halt, DispatcherType
    <2>3. /\ ClaimType'
          /\ \/ claim'[w].claimed = <<>>
             \/ worker[w].pc # "claiming" /\ claim'[w].claimed = claim[w].claimed
          /\ \A v \in Workers \ {w} : claim'[v] = claim[v]
      <3>1. CASE claim' = claim /\ worker[w].pc # "claiming"
        BY <3>1 DEF ClaimType, ClaimsWith
      <3>2. CASE claim' = [claim EXCEPT ![w] = NoClaim]
        BY <3>2, ClaimEffects
      <3> QED
        BY <2>1, <3>1, <3>2
    <2> QED
      BY <2>1, <2>2, <2>3 DEF WorkerEffect, TableType
  <1> QED
    BY <1>1, <1>2, <1>3, <1>4, <1>6, <1>7, <1>8 DEF WorkerNext

(* What a request step does to request, whatever it does to the store.     *)
LEMMA RequestMoves ==
    ASSUME NEW r \in Requests, RequestNext(r)
    PROVE  /\ \/ RejectInvalid(r) \/ BeginAccept(r, clock)
              \/ FinishAccept(r, session[r].outcome) \/ LoseRequest(r)
              \/ UNCHANGED request
           /\ UNCHANGED <<worker, topic, clock>>
           /\ faults' = faults \/ faults' = faults + 1
           /\ LET a == Acceptance(r)
              IN  \/ UNCHANGED <<transactions, outbox, index, session, claim>>
                  \/ Begin(a) \/ ReadIdentity(a) \/ TransactWriteItems(a) \/ Reclassify(a)
                  \/ WriteCancelled(a) \/ WriteUnknown(a) \/ CallError(a) \/ Disconnect(a)
  BY DEF RequestNext, Invalid, Submit, AcceptStep, AcceptTrouble, Respond, CrashRequest,
         Fault, intakeVars, dispatcherVars, storeVars, tableVars

(* Accept touches neither the index nor a claim.                           *)
LEMMA RequestLeaves ==
    ASSUME NEW r \in Requests, RequestNext(r)
    PROVE  UNCHANGED <<index, claim>>
  BY RequestMoves DEF Begin, ReadIdentity, TransactWriteItems, Reclassify, WriteCancelled,
     WriteUnknown, CallError, Disconnect

(* Every step of a request, a worker, the index and the clock stays typed. *)
LEMMA TypeStep == TypeInv /\ [Next]_vars => TypeInv'
  <1> SUFFICES ASSUME TypeInv, [Next]_vars PROVE TypeInv'
    OBVIOUS
  <1> USE DEF TypeInv
  <1>1. ASSUME NEW r \in Requests, RequestNext(r) PROVE TypeInv'
    <2>1. session[r].outcome \in Outcomes /\ clock \in Nat /\ Acceptance(r) \in Acceptances
      BY AcceptanceType DEF TableType, DispatcherType
    <2>2. request' \in RequestType
      BY <1>1, <2>1, RequestMoves, IntakeType
    <2>3. DispatcherType' /\ BusyInv' /\ faults' \in Nat
      <3>1. UNCHANGED <<worker, topic, clock>> /\ (faults' = faults \/ faults' = faults + 1)
        BY <1>1, RequestMoves
      <3> QED
        BY <3>1 DEF DispatcherType, BusyInv
    <2>4. TableType'
      <3>1. CASE UNCHANGED <<transactions, outbox, index, session, claim>>
        BY <3>1 DEF TableType
      <3> QED
        BY <1>1, <2>1, <3>1, RequestMoves, AcceptType
    <2>5. ClaimType'
      <3>1. UNCHANGED claim
        BY <1>1, RequestLeaves
      <3> QED
        BY <3>1 DEF ClaimType, ClaimsWith
    <2> QED
      BY <2>2, <2>3, <2>4, <2>5
  <1>2. ASSUME NEW w \in Workers, WorkerNext(w) \/ ClaimTrouble(w) \/ CrashWorker(w)
        PROVE  TypeInv'
    BY <1>2, WorkerSteps
  <1>3. ASSUME NEW e \in Requests, UpdateIndex(e) PROVE TypeInv'
    <2>1. UNCHANGED <<request, transactions, outbox, session, claim, worker, topic, clock, faults>>
      BY <1>3 DEF UpdateIndex, Propagate, intakeVars, dispatcherVars, tableVars
    <2>2. index' \in [Requests -> OutboxItems]
      BY <1>3 DEF UpdateIndex, Propagate, TableType
    <2> QED
      BY <2>1, <2>2 DEF DispatcherType, BusyInv, TableType, ClaimType, ClaimsWith
  <1>4. CASE PassTime
    <2>1. /\ UNCHANGED <<request, transactions, outbox, index, session, claim, worker, topic>>
          /\ UNCHANGED faults /\ clock' = clock + 1
      BY <1>4 DEF PassTime, Tick, intakeVars, storeVars, tableVars
    <2>2. DispatcherType' /\ BusyInv' /\ TableType'
      BY <2>1 DEF DispatcherType, BusyInv, TableType
    <2> QED
      BY <2>1, <2>2 DEF ClaimType, ClaimsWith
  <1>5. CASE UNCHANGED vars
    BY <1>5 DEF vars, DispatcherType, BusyInv, TableType, ClaimType, ClaimsWith,
                intakeVars, dispatcherVars, storeVars, tableVars
  <1> QED
    BY <1>1, <1>2, <1>3, <1>4, <1>5 DEF Next

-----------------------------------------------------------------------------
(* The inductive invariant of acceptance.                                  *)

(* An Accept is open only while its request waits for it, and nothing is   *)
(* answered before.                                                        *)
SessionInv ==
    \A r \in Requests :
        /\ session[r].pc # "closed" => request[r].pc = "accepting"
        /\ request[r].pc # "answered" => request[r].reply = NoReply

(* What the store is about to return already agrees with the table.        *)
OutcomesAgree ==
    \A r \in Requests :
        session[r].pc = "returned" =>
             LET outcome == session[r].outcome
             IN  /\ outcome.kind = "accepted" => IsStored(r, r)
                 /\ outcome.kind = "replay"   => IsStored(r, outcome.id)
                 /\ outcome.kind = "conflict" => IsContradicted(r)

AcceptanceInv ==
    /\ SessionInv
    /\ OutcomesAgree
    /\ RepliesAgree
    /\ OneEventPerIdentity

(* A request's contents never change.                                      *)
LEMMA RequestFixed ==
    ASSUME TypeInv, NEW r \in Requests, RequestNext(r)
    PROVE  \A q \in Requests :
              /\ request'[q].identity = request[q].identity
              /\ request'[q].body = request[q].body
              /\ Acceptance(q).fingerprint' = Acceptance(q).fingerprint
              /\ q # r => request'[q] = request[q]
  <1>1. \/ RejectInvalid(r) \/ BeginAccept(r, clock)
        \/ FinishAccept(r, session[r].outcome) \/ LoseRequest(r)
        \/ UNCHANGED request
    BY RequestMoves
  <1>2. \A q \in Requests :
              /\ request'[q].identity = request[q].identity
              /\ request'[q].body = request[q].body
              /\ q # r => request'[q] = request[q]
    BY <1>1 DEF RejectInvalid, BeginAccept, FinishAccept, LoseRequest,
                TypeInv, RequestType
  <1> QED
    BY <1>2 DEF Acceptance, Fingerprint

(* Both items are written at once, over an identity that has none.         *)
Writes(r) ==
    /\ Item(Acceptance(r)) = NoItem
    /\ PutItems(Acceptance(r))
    /\ session[r].pc = "write"
    /\ session'[r].pc = "returned"
    /\ session'[r].outcome \in {StoreAccepted(r), StoreError}

(* What a request step may do to the table: nothing, or that.  So what is  *)
(* stored for an identity is stored for good.                              *)
LEMMA TablesStep ==
    ASSUME TypeInv, NEW r \in Requests, RequestNext(r)
    PROVE  /\ UNCHANGED <<transactions, outbox>> \/ Writes(r)
           /\ \A q \in Requests \ {r} : session'[q] = session[q]
           /\ \A k \in Keys : transactions[k] = NoItem \/ transactions'[k] = transactions[k]
  <1>1. /\ Acceptance(r).id = r /\ Acceptance(r).identity = request[r].identity
        /\ Key[request[r].identity] \in Keys
    BY AcceptanceType DEF TypeInv, RequestType
  <1> DEFINE a == Acceptance(r)
  <1>2. session \in [Requests -> [pc: {"closed", "read", "write", "reread", "returned"},
                                  outcome: Outcomes]]
    BY DEF TypeInv, TableType
  <1>3. CASE TransactWriteItems(a) \/ WriteUnknown(a)
    <2>1. (UNCHANGED tableVars /\ Goto(a, "reread")) \/ Writes(r)
      BY <1>1, <1>2, <1>3 DEF TransactWriteItems, WriteUnknown, Return, Writes
    <2>2. \A q \in Requests \ {r} : session'[q] = session[q]
      BY <1>1, <1>2, <1>3 DEF TransactWriteItems, WriteUnknown, Goto, Return
    <2>3. Writes(r) => \A k \in Keys : \/ transactions[k] = NoItem
                                       \/ transactions'[k] = transactions[k]
      BY <1>1 DEF Writes, PutItems, Item, TypeInv, TableType
    <2> QED
      BY <2>1, <2>2, <2>3 DEF tableVars
  <1>4. CASE \/ UNCHANGED <<transactions, outbox, index, session, claim>>
             \/ Begin(a) \/ ReadIdentity(a) \/ Reclassify(a) \/ WriteCancelled(a)
             \/ CallError(a) \/ Disconnect(a)
    <2>1. UNCHANGED <<transactions, outbox>>
      BY <1>4 DEF Begin, ReadIdentity, Reclassify, WriteCancelled, CallError, Disconnect,
                  tableVars
    <2>2. \A q \in Requests \ {r} : session'[q] = session[q]
      BY <1>1, <1>2, <1>4 DEF Begin, ReadIdentity, Reclassify, WriteCancelled, CallError,
                              Disconnect, Goto, Return
    <2> QED
      BY <2>1, <2>2
  <1> QED
    BY <1>3, <1>4, RequestMoves

(* A request step preserves the invariant of acceptance.                   *)
LEMMA AcceptanceRequestStep ==
    ASSUME TypeInv, TypeInv', AcceptanceInv, NEW r \in Requests, RequestNext(r)
    PROVE  AcceptanceInv'
  <1> USE DEF AcceptanceInv
  <1> DEFINE a == Acceptance(r)
  <1>0. /\ Acceptance(r).id = r /\ Acceptance(r).identity = request[r].identity
        /\ Key[request[r].identity] \in Keys
        /\ session \in [Requests -> [pc: {"closed", "read", "write", "reread", "returned"},
                                     outcome: Outcomes]]
    BY AcceptanceType DEF TypeInv, TableType, RequestType
  <1>1. SessionInv'
    <2>1. SUFFICES /\ session'[r].pc # "closed" => request'[r].pc = "accepting"
                   /\ request'[r].pc # "answered" => request'[r].reply = NoReply
      BY RequestFixed, TablesStep DEF SessionInv
    <2>2. CASE Invalid(r)
      BY <2>2 DEF Invalid, RejectInvalid, SessionInv, TypeInv, RequestType, storeVars
    <2>3. CASE Submit(r)
      BY <2>3 DEF Submit, BeginAccept, SessionInv, TypeInv, RequestType
    <2>4. CASE AcceptStep(r) \/ AcceptTrouble(r)
      BY <2>4 DEF AcceptStep, AcceptTrouble, SessionInv, intakeVars
    <2>5. CASE Respond(r)
      BY <1>0, <2>5 DEF Respond, FinishAccept, Disconnect, Closed, TypeInv, RequestType
    <2>6. CASE CrashRequest(r)
      BY <1>0, <2>6 DEF CrashRequest, LoseRequest, Disconnect, Closed,
         SessionInv, TypeInv, RequestType
    <2> QED
      BY <2>2, <2>3, <2>4, <2>5, <2>6 DEF RequestNext
  <1>2. ASSUME NEW q \in Requests, NEW id
        PROVE  /\ IsStored(q, id) => IsStored(q, id)'
               /\ IsContradicted(q) => IsContradicted(q)'
    <2>1. request[q].identity \in Identities /\ Key[request[q].identity] \in Keys
      BY DEF TypeInv, RequestType
    <2>2. StoredItem(q) # NoItem => StoredItem(q)' = StoredItem(q)
      BY <2>1, RequestFixed, TablesStep DEF StoredItem
    <2>3. IsStored(q, id) => StoredItem(q) # NoItem
      <3>1. Acceptance(q).fingerprint # <<>>
        BY DEF Acceptance, Fingerprint
      <3> QED
        BY <3>1 DEF IsStored, NoItem
    <2> QED
      BY <2>2, <2>3, RequestFixed DEF IsStored, IsContradicted
  <1>3. OutcomesAgree'
    <2> DEFINE Agree(q) ==
          session[q].pc = "returned" =>
               /\ session[q].outcome.kind = "accepted" => IsStored(q, q)
               /\ session[q].outcome.kind = "replay"
                    => IsStored(q, session[q].outcome.id)
               /\ session[q].outcome.kind = "conflict" => IsContradicted(q)
    <2>1. ASSUME NEW q \in Requests, session'[q] = session[q] PROVE Agree(q)'
      <3>1. Agree(q)
        BY DEF OutcomesAgree
      <3> QED
        BY <1>2, <2>1, <3>1
    <2>2. ASSUME Item(a) # NoItem
          PROVE  \/ Classified(a).kind = "conflict" /\ IsContradicted(r)
                 \/ Classified(a).kind = "replay" /\ IsStored(r, Classified(a).id)
      <3>1. Item(a) \in [id: Requests, fingerprint: Fingerprints] /\ Item(a) = StoredItem(r)
        BY <1>0, <2>2 DEF TypeInv, TableType, Item, StoredItem
      <3> QED
        BY <2>2, <3>1 DEF Classified, StoreReplay, StoreConflict, IsStored, IsContradicted
    <2>3. ASSUME Item(a) # NoItem,
                 session'[r] = [pc |-> "returned", outcome |-> Classified(a)]
          PROVE  Agree(r)'
      <3>1. PICK outcome : outcome = Classified(a)
        OBVIOUS
      <3>2. session'[r].outcome = outcome
        BY <2>3, <3>1
      <3>3. \/ outcome.kind = "conflict" /\ IsContradicted(r)
            \/ outcome.kind = "replay" /\ IsStored(r, outcome.id)
        BY <2>2, <2>3, <3>1
      <3>4. \/ outcome.kind = "conflict" /\ IsContradicted(r)'
            \/ outcome.kind = "replay" /\ IsStored(r, outcome.id)'
        BY <1>2, <3>3
      <3> QED
        BY <3>2, <3>4
    <2>4. ASSUME session'[r].pc # "returned" \/ session'[r].outcome = StoreError
          PROVE  Agree(r)'
      BY <2>4 DEF StoreError
    <2>5. Agree(r)'
      <3>1. CASE ReadIdentity(a)
        BY <1>0, <2>3, <2>4, <3>1 DEF ReadIdentity, Goto, Return
      <3>2. CASE TransactWriteItems(a) /\ UNCHANGED request
        <4>1. CASE Item(a) = NoItem
          <5>1. IsStored(r, r)'
            BY <1>0, <3>2, <4>1, RequestFixed
               DEF TransactWriteItems, PutItems, IsStored, StoredItem, TypeInv, TableType
          <5> QED
            BY <1>0, <3>2, <4>1, <5>1 DEF TransactWriteItems, Return, StoreAccepted
        <4>2. CASE Item(a) # NoItem
          BY <1>0, <2>4, <3>2, <4>2 DEF TransactWriteItems, Goto
        <4> QED
          BY <4>1, <4>2
      <3>3. CASE Reclassify(a)
        BY <1>0, <2>3, <2>4, <3>3 DEF Reclassify, Return
      <3>4. CASE Begin(a) \/ WriteCancelled(a)
        BY <1>0, <2>4, <3>4 DEF Begin, WriteCancelled, Goto
      <3>5. CASE WriteUnknown(a) \/ CallError(a)
        BY <1>0, <2>4, <3>5 DEF WriteUnknown, CallError, Return
      <3>6. CASE Disconnect(a)
        BY <1>0, <2>4, <3>6 DEF Disconnect, Closed
      <3>7. CASE UNCHANGED session
        BY <2>1, <3>7
      <3> QED
        BY <3>1, <3>2, <3>3, <3>4, <3>5, <3>6, <3>7
           DEF RequestNext, Invalid, Submit, AcceptStep, AcceptTrouble, Respond,
               CrashRequest, intakeVars, storeVars
    <2> QED
      BY <2>1, <2>5, TablesStep DEF OutcomesAgree
  <1>4. RepliesAgree'
    <2> DEFINE Agree(q) ==
          /\ request[q].reply.code = "created"  => IsStored(q, q)
          /\ request[q].reply.code = "replayed" => IsStored(q, request[q].reply.id)
          /\ request[q].reply.code = "conflict" => IsContradicted(q)
    <2>1. ASSUME NEW q \in Requests, request'[q].reply = request[q].reply
          PROVE  Agree(q)'
      <3>1. Agree(q)
        BY DEF RepliesAgree
      <3> QED
        BY <1>2, <2>1, <3>1
    <2>2. CASE Invalid(r)
      <3>1. request'[r].reply.code = "invalid"
        BY <2>2 DEF Invalid, RejectInvalid, TypeInv, RequestType
      <3> QED
        BY <2>1, <3>1, RequestFixed DEF RepliesAgree
    <2>3. CASE Respond(r)
      <3>1. request'[r].reply = Reply(r, session[r].outcome)
        BY <2>3 DEF Respond, FinishAccept, TypeInv, RequestType
      <3>2. Agree(r)'
        BY <1>2, <2>3, <3>1 DEF Respond, Reply, OutcomesAgree
      <3> QED
        BY <2>1, <3>2, RequestFixed DEF RepliesAgree
    <2>4. CASE Submit(r) \/ AcceptStep(r) \/ AcceptTrouble(r) \/ CrashRequest(r)
      <3>1. request'[r].reply = request[r].reply
        BY <2>4 DEF Submit, AcceptStep, AcceptTrouble, CrashRequest, BeginAccept,
           LoseRequest, TypeInv, RequestType, intakeVars
      <3> QED
        BY <2>1, <3>1, RequestFixed DEF RepliesAgree
    <2> QED
      BY <2>2, <2>3, <2>4 DEF RequestNext
  <1>5. OneEventPerIdentity'
    <2>1. CASE UNCHANGED <<transactions, outbox>>
      BY <2>1, RequestFixed DEF OneEventPerIdentity, StoredItem
    <2>2. CASE Writes(r)
      <3> DEFINE k == Key[request[r].identity]
      <3>1. transactions[k] = NoItem
        BY <1>0, <2>2 DEF Writes, Item
      <3>2. /\ transactions'[k].id = r
            /\ \A j \in Keys \ {k} : transactions'[j] = transactions[j]
            /\ outbox'[r].status = "pending"
            /\ \A e \in Requests \ {r} : outbox'[e] = outbox[e]
        BY <1>0, <2>2 DEF Writes, PutItems, AbsentEvent, TypeInv, TableType
      <3>3. \A e \in Requests : Key[request[e].identity] = k => outbox[e].status = "absent"
        BY <3>1 DEF OneEventPerIdentity, StoredItem, NoItem
      <3>4. ASSUME NEW e \in Requests
            PROVE  outbox'[e].status # "absent" <=> StoredItem(e)'.id = e
        <4>1. StoredItem(e)' = transactions'[Key[request[e].identity]]
          BY RequestFixed DEF StoredItem
        <4>2. CASE Key[request[e].identity] = k
          BY <3>2, <3>3, <4>1, <4>2
        <4>3. CASE Key[request[e].identity] # k
          <5>1. e # r /\ Key[request[e].identity] \in Keys
            BY <4>3 DEF TypeInv, RequestType
          <5>2. StoredItem(e)' = StoredItem(e) /\ outbox'[e] = outbox[e]
            BY <3>2, <4>1, <4>3, <5>1 DEF StoredItem
          <5> QED
            BY <5>2 DEF OneEventPerIdentity
        <4> QED
          BY <4>2, <4>3
      <3> QED
        BY <3>4 DEF OneEventPerIdentity
    <2> QED
      BY <2>1, <2>2, TablesStep
  <1> QED
    BY <1>1, <1>3, <1>4, <1>5

(* A worker's step changes at most one item of the outbox, a pending one,  *)
(* and leaves it pending, published or failed.                             *)
LEMMA WorkerLeavesRows ==
    ASSUME TypeInv, NEW w \in Workers, WorkerNext(w) \/ ClaimTrouble(w) \/ CrashWorker(w)
    PROVE  /\ UNCHANGED <<request, transactions, session>>
           /\ \A e \in Requests :
                 outbox'[e] = outbox[e] \/ (/\ outbox[e].status = "pending"
                                            /\ outbox'[e].status # "absent")
  <1>1. WorkerEffect(w)
    BY WorkerSteps
  <1>2. CASE WorkerStep(w)
    BY <1>1, <1>2 DEF WorkerStep, WorkerEffect, storeVars, tableVars
  <1>3. ASSUME NEW item \in claim[w].page, UsedTokens # Tokens,
               WriteLease(w, item, FreshToken), NEW e \in Requests
        PROVE  outbox'[e] = outbox[e] \/ (/\ outbox[e].status = "pending"
                                          /\ outbox'[e].status # "absent")
    <2>1. item.event \in Requests /\ FreshToken \in Tokens
      BY <1>3, ClaimLocals, FreshTokenIsFresh
    <2>2. /\ Due(outbox[item.event], worker[w].now)
          /\ outbox'[item.event].status = outbox[item.event].status
          /\ \A d \in Requests \ {item.event} : outbox'[d] = outbox[d]
      BY <1>3, <2>1, LeaseEffect
    <2>3. outbox[item.event].status = "pending"
      BY <2>2 DEF Due
    <2> QED
      BY <2>2, <2>3
  <1>4. ASSUME worker[w].pc = "mark", MarkPublished(Pending(w)), NEW e \in Requests
        PROVE  outbox'[e] = outbox[e] \/ (/\ outbox[e].status = "pending"
                                          /\ outbox'[e].status # "absent")
    BY <1>4, HeadOfBatch, MarkEffect
  <1>5. ASSUME worker[w].pc = "record", RecordFailure(Failure(w)), NEW e \in Requests
        PROVE  outbox'[e] = outbox[e] \/ (/\ outbox[e].status = "pending"
                                          /\ outbox'[e].status # "absent")
    <2>1. Failure(w) \in Failures
      BY <1>5, HeadOfBatch, FailureType DEF TypeInv
    <2> QED
      BY <1>5, <2>1, RecordEffect
  <1> QED
    BY <1>1, <1>2, <1>3, <1>4, <1>5 DEF WorkerEffect

(* An empty table and unsent requests satisfy the acceptance invariant.    *)
LEMMA AcceptanceInit == Init => AcceptanceInv
  <1> SUFFICES ASSUME Init PROVE AcceptanceInv
    OBVIOUS
  <1>1. \A e \in Requests : Key[request[e].identity] \in Keys
    BY TypeInit DEF TypeInv, RequestType
  <1> QED
    BY <1>1 DEF Init, IntakeInit, StoreInit, AcceptanceInv, SessionInv, OutcomesAgree,
       RepliesAgree, OneEventPerIdentity, StoredItem, Closed, NoItem, NoReply, AbsentEvent

(* No step of any actor breaks the acceptance invariant.                   *)
LEMMA AcceptanceStep == TypeInv /\ AcceptanceInv /\ [Next]_vars => AcceptanceInv'
  <1> SUFFICES ASSUME TypeInv, AcceptanceInv, [Next]_vars PROVE AcceptanceInv'
    OBVIOUS
  <1>1. ASSUME NEW r \in Requests, RequestNext(r) PROVE AcceptanceInv'
    <2>1. TypeInv'
      BY TypeStep
    <2> QED
      BY <1>1, <2>1, AcceptanceRequestStep
  <1>2. ASSUME /\ UNCHANGED <<request, transactions, session>>
               /\ \A e \in Requests :
                     outbox'[e].status = "absent" <=> outbox[e].status = "absent"
        PROVE  AcceptanceInv'
    BY <1>2 DEF AcceptanceInv, SessionInv, OutcomesAgree, RepliesAgree,
       OneEventPerIdentity, IsStored, IsContradicted, StoredItem, Acceptance
  <1>3. ASSUME NEW w \in Workers, WorkerNext(w) \/ ClaimTrouble(w) \/ CrashWorker(w)
        PROVE  AcceptanceInv'
    BY <1>2, <1>3, WorkerLeavesRows
  <1>4. ASSUME \/ \E e \in Requests : UpdateIndex(e)
               \/ PassTime \/ UNCHANGED vars
        PROVE  AcceptanceInv'
    BY <1>2, <1>4 DEF UpdateIndex, Propagate, PassTime, vars, intakeVars, storeVars, tableVars
  <1> QED
    BY <1>1, <1>3, <1>4 DEF Next

(* For every set of requests and every assignment of keys: no reply is     *)
(* ever wrong about the stored item, although Accept reads and writes in   *)
(* separate calls that may race, fail or lose their answer.                *)
THEOREM RepliesCorrect == Spec => []RepliesAgree
  <1>1. AcceptanceInv => RepliesAgree
    BY DEF AcceptanceInv
  <1> QED
    BY TypeInit, TypeStep, AcceptanceInit, AcceptanceStep, <1>1, PTL DEF Spec

(* The outbox holds exactly one event for each stored transaction.         *)
THEOREM OutboxCorrect == Spec => []OneEventPerIdentity
  <1>1. AcceptanceInv => OneEventPerIdentity
    BY DEF AcceptanceInv
  <1> QED
    BY TypeInit, TypeStep, AcceptanceInit, AcceptanceStep, <1>1, PTL DEF Spec

-----------------------------------------------------------------------------
(* The life of an item: absent until it is stored as pending, changed only *)
(* while it is pending, and never absent again.                            *)
LEMMA ItemLife ==
    TypeInv /\ AcceptanceInv /\ [Next]_vars =>
        \A e \in Requests :
            \/ outbox'[e] = outbox[e]
            \/ outbox[e].status = "pending" /\ outbox'[e].status # "absent"
            \/ outbox[e].status = "absent" /\ outbox'[e].status = "pending"
  <1> SUFFICES ASSUME TypeInv, AcceptanceInv, [Next]_vars, NEW e \in Requests
               PROVE  \/ outbox'[e] = outbox[e]
                      \/ outbox[e].status = "pending" /\ outbox'[e].status # "absent"
                      \/ outbox[e].status = "absent" /\ outbox'[e].status = "pending"
    OBVIOUS
  <1>1. ASSUME NEW r \in Requests, Writes(r)
        PROVE  \/ outbox'[e] = outbox[e]
               \/ outbox[e].status = "absent" /\ outbox'[e].status = "pending"
    <2>1. /\ Acceptance(r).id = r /\ Acceptance(r).identity = request[r].identity
          /\ outbox \in [Requests -> OutboxItems]
      BY AcceptanceType DEF TypeInv, TableType
    <2>2. StoredItem(r) = NoItem
      BY <1>1, <2>1 DEF Writes, Item, StoredItem
    <2>3. outbox[r].status = "absent"
      BY <2>2 DEF AcceptanceInv, OneEventPerIdentity, NoItem
    <2>4. /\ outbox'[r].status = "pending"
          /\ \A d \in Requests \ {r} : outbox'[d] = outbox[d]
      BY <1>1, <2>1 DEF Writes, PutItems, AbsentEvent
    <2> QED
      BY <2>3, <2>4
  <1>2. CASE \E r \in Requests : RequestNext(r)
    BY <1>1, <1>2, TablesStep
  <1>3. CASE \E w \in Workers : WorkerNext(w) \/ ClaimTrouble(w) \/ CrashWorker(w)
    BY <1>3, WorkerLeavesRows
  <1>4. CASE \/ \E d \in Requests : UpdateIndex(d)
             \/ PassTime \/ UNCHANGED vars
    BY <1>4 DEF UpdateIndex, Propagate, PassTime, vars, storeVars, tableVars
  <1> QED
    BY <1>2, <1>3, <1>4 DEF Next

(* However long the index offers a settled event as pending: its item in   *)
(* the table never changes again.                                          *)
THEOREM SettledCorrect == Spec => SettledStays
  <1>1. TypeInv /\ AcceptanceInv /\ [Next]_vars =>
          [\A e \in Requests :
              outbox[e].status \in {"published", "failed"} => outbox'[e] = outbox[e]]_vars
    BY ItemLife
  <1> QED
    BY TypeInit, TypeStep, AcceptanceInit, AcceptanceStep, <1>1, PTL
       DEF Spec, SettledStays

-----------------------------------------------------------------------------
(* The inductive invariant of delivery.                                    *)

(* Every event somebody holds a claim on is in the outbox.                 *)
HeldArePresent ==
    \A w \in Workers :
        /\ \A k \in DOMAIN claim[w].claimed :
              outbox[claim[w].claimed[k].event].status # "absent"
        /\ \A k \in DOMAIN worker[w].batch :
              outbox[worker[w].batch[k].event].status # "absent"

(* A worker marks only what it has brought to the topic.                   *)
MarksAreDelivered ==
    \A w \in Workers : worker[w].pc = "mark" => Pending(w).event \in topic

DeliveryInv == HeldArePresent /\ MarksAreDelivered /\ PublishedWasDelivered

(* What a step of a worker does to its own batch and to its claims: they   *)
(* never name an event that was absent.                                    *)
LEMMA HeldStep ==
    ASSUME TypeInv, DeliveryInv, NEW w \in Workers, WorkerEffect(w), TypeInv'
    PROVE  /\ \A k \in DOMAIN claim'[w].claimed :
                 outbox[claim'[w].claimed[k].event].status # "absent"
           /\ \A k \in DOMAIN worker'[w].batch :
                 outbox[worker'[w].batch[k].event].status # "absent"
           /\ \/ UNCHANGED topic
              \/ worker[w].pc = "publish" /\ topic' = topic \cup {Pending(w).event}
           /\ worker'[w].pc = "mark" => worker'[w].batch # <<>>
                                        /\ worker'[w].batch[1].event \in topic'
           /\ \A e \in Requests :
                 (/\ outbox'[e].status = "published"
                  /\ outbox[e].status # "published") => e \in topic
  <1> DEFINE Present(s) == \A k \in DOMAIN s : outbox[s[k].event].status # "absent"
             Topic == /\ \/ UNCHANGED topic
                         \/ /\ worker[w].pc = "publish"
                            /\ topic' = topic \cup {Pending(w).event}
                      /\ worker'[w].pc = "mark" => worker'[w].batch # <<>>
                                                   /\ worker'[w].batch[1].event \in topic'
             Marked == \A e \in Requests :
                         (/\ outbox'[e].status = "published"
                          /\ outbox[e].status # "published") => e \in topic
             Good == /\ Present(claim'[w].claimed) /\ Present(worker'[w].batch)
                     /\ Topic /\ Marked
  <1> SUFFICES Good
    OBVIOUS
  <1>0. /\ Present(claim[w].claimed) /\ Present(worker[w].batch) /\ Present(<<>>)
        /\ worker[w].batch \in Seq(PendingEvents) /\ claim[w].claimed \in Seq(PendingEvents)
        /\ worker \in [Workers ->
             [pc: {"idle", "claiming", "publish", "mark", "record", "stopped"},
              now: Nat, batch: Seq(PendingEvents)]]
    BY ClaimLocals DEF DeliveryInv, HeldArePresent, TypeInv, DispatcherType
  <1> HIDE DEF Present, Topic, Marked
  <1>1. ASSUME NEW batch, Present(batch), Continue(w, batch)
        PROVE  Present(worker'[w].batch) /\ Topic
    <2>1. /\ worker'[w].batch = batch /\ worker'[w].pc # "mark"
          /\ UNCHANGED topic
      BY <1>0, <1>1 DEF Continue, Idle
    <2> QED
      BY <1>1, <2>1 DEF Topic
  <1>2. ASSUME Halt(w) PROVE Present(worker'[w].batch) /\ Topic
    <2>1. worker'[w] = Stopped /\ UNCHANGED topic
      BY <1>0, <1>2 DEF Halt
    <2> QED
      BY <1>0, <2>1 DEF Stopped, Topic
  <1>3. ASSUME worker[w].pc \in {"publish", "mark", "record"}
        PROVE  Present(Tail(worker[w].batch))
    <2>1. worker[w].batch # <<>>
      BY <1>3, HeadOfBatch
    <2>2. \A k \in DOMAIN Tail(worker[w].batch) :
             /\ k + 1 \in DOMAIN worker[w].batch
             /\ Tail(worker[w].batch)[k] = worker[w].batch[k + 1]
      BY <1>0, <2>1
    <2> QED
      BY <1>0, <2>2 DEF Present
  <1>4. ASSUME worker[w].pc \in {"mark", "record"}, Advance(w) \/ Halt(w)
        PROVE  Present(worker'[w].batch) /\ Topic
    BY <1>1, <1>2, <1>3, <1>4 DEF Advance
  <1>5. CASE WorkerStep(w)
    <2>1. UNCHANGED <<outbox, claim>>
      BY <1>5 DEF WorkerStep, storeVars, tableVars
    <2>2. CASE StartBatch(w) \/ Restart(w)
      <3>1. /\ worker'[w].pc # "mark" /\ UNCHANGED topic
            /\ worker'[w].batch \in {worker[w].batch, <<>>}
        BY <1>0, <2>2 DEF StartBatch, Restart, Idle
      <3> QED
        BY <1>0, <2>1, <3>1 DEF Present, Topic, Marked
    <2>3. CASE PublishOk(w) \/ PublishError(w)
      <3>1. /\ worker[w].pc = "publish" /\ worker'[w].batch = worker[w].batch
            /\ \/ UNCHANGED topic
               \/ topic' = topic \cup {Pending(w).event}
            /\ worker'[w].pc = "mark" => topic' = topic \cup {Pending(w).event}
        BY <1>0, <2>3 DEF PublishOk, PublishError
      <3>2. worker[w].batch # <<>> /\ Pending(w) = worker[w].batch[1]
        BY <3>1, HeadOfBatch
      <3> QED
        BY <1>0, <2>1, <3>1, <3>2 DEF Present, Topic, Marked
    <2> QED
      BY <1>5, <2>2, <2>3 DEF WorkerStep
  <1>6. CASE /\ worker[w].pc = "claiming"
             /\ UNCHANGED <<outbox, worker, topic>>
             /\ claim'[w].claimed = claim[w].claimed
    BY <1>0, <1>6 DEF Present, Topic, Marked
  <1>7. ASSUME NEW item \in claim[w].page,
               worker[w].pc = "claiming",
               UsedTokens # Tokens,
               WriteLease(w, item, FreshToken),
               UNCHANGED topic,
               \/ /\ worker' = worker
                  /\ claim'[w].claimed =
                       Append(claim[w].claimed,
                              [event |-> item.event, attempts |-> item.attempts,
                               token |-> FreshToken])
               \/ worker' = worker /\ claim'[w].claimed = claim[w].claimed
               \/ worker'[w] = Stopped /\ claim'[w].claimed = <<>>
        PROVE  Good
    <2>1. item.event \in Requests /\ FreshToken \in Tokens
      BY <1>7, ClaimLocals, FreshTokenIsFresh
    <2>2. /\ Due(outbox[item.event], worker[w].now)
          /\ outbox'[item.event].status = outbox[item.event].status
          /\ \A d \in Requests \ {item.event} : outbox'[d] = outbox[d]
      BY <1>7, <2>1, LeaseEffect
    <2>3. outbox[item.event].status # "absent" /\ Marked
      BY <2>2 DEF Due, Marked
    <2>4. Present(claim'[w].claimed)
      <3> DEFINE p == [event |-> item.event, attempts |-> item.attempts,
                       token |-> FreshToken]
      <3>1. CASE claim'[w].claimed = Append(claim[w].claimed, p)
        <4>1. PICK s \in Seq(PendingEvents) : s = claim[w].claimed
          BY <1>0
        <4>0. PICK q : q = p
          OBVIOUS
        <4>2. q = p /\ q.event = item.event
          BY <4>0
        <4>3. \A k \in DOMAIN Append(s, q) :
                 Append(s, q)[k] = q \/ (k \in DOMAIN s /\ Append(s, q)[k] = s[k])
          BY OneMoreElement
        <4> HIDE DEF p
        <4>4. \A k \in DOMAIN Append(s, q) :
                 outbox[Append(s, q)[k].event].status # "absent"
          BY <1>0, <2>3, <4>1, <4>2, <4>3 DEF Present
        <4> QED
          BY <3>1, <4>1, <4>2, <4>4 DEF Present
      <3> QED
        BY <1>0, <1>7, <3>1
    <2>5. Present(worker'[w].batch) /\ Topic
      BY <1>0, <1>7 DEF Stopped, Topic
    <2> QED
      BY <2>3, <2>4, <2>5
  <1>8. CASE /\ worker[w].pc = "claiming"
             /\ Continue(w, claim[w].claimed)
             /\ claim'[w].claimed = <<>>
             /\ UNCHANGED outbox
    BY <1>0, <1>1, <1>8 DEF Marked
  <1>9. CASE worker[w].pc = "mark" /\ MarkPublished(Pending(w)) /\ (Advance(w) \/ Halt(w))
    <2>1. Pending(w) \in PendingEvents /\ Pending(w).event \in topic
      BY <1>9, HeadOfBatch DEF DeliveryInv, MarksAreDelivered
    <2>2. /\ UNCHANGED claim
          /\ \A e \in Requests \ {Pending(w).event} : outbox'[e] = outbox[e]
      BY <1>9, <2>1, MarkEffect
    <2>3. Marked
      BY <2>1, <2>2 DEF Marked
    <2> QED
      BY <1>0, <1>4, <1>9, <2>2, <2>3
  <1>10. CASE worker[w].pc = "record" /\ RecordFailure(Failure(w)) /\ (Advance(w) \/ Halt(w))
    <2>1. Failure(w) \in Failures
      BY <1>10, HeadOfBatch, FailureType DEF TypeInv
    <2>2. /\ UNCHANGED claim
          /\ \A e \in Requests : outbox'[e] = outbox[e] \/ outbox'[e].status # "published"
      BY <1>10, <2>1, RecordEffect
    <2>3. Marked
      BY <2>2 DEF Marked
    <2> QED
      BY <1>0, <1>4, <1>10, <2>2, <2>3
  <1>11. CASE /\ Halt(w) /\ UNCHANGED outbox
              /\ \/ claim'[w].claimed = <<>>
                 \/ worker[w].pc # "claiming" /\ claim'[w].claimed = claim[w].claimed
    BY <1>0, <1>2, <1>11 DEF Marked
  <1> HIDE DEF Good
  <1> QED
    BY <1>5, <1>6, <1>7, <1>8, <1>9, <1>10, <1>11 DEF WorkerEffect

(* Nothing is held, delivered or published at first.                       *)
LEMMA DeliveryInit == Init => DeliveryInv
  BY DEF Init, DispatcherInit, StoreInit, DeliveryInv, HeldArePresent, MarksAreDelivered,
     PublishedWasDelivered, Idle, NoClaim, AbsentEvent

(* No step of any actor breaks the delivery invariant.                     *)
LEMMA DeliveryStep ==
    TypeInv /\ AcceptanceInv /\ DeliveryInv /\ [Next]_vars => DeliveryInv'
  <1> SUFFICES ASSUME TypeInv, AcceptanceInv, DeliveryInv, [Next]_vars
               PROVE  DeliveryInv'
    OBVIOUS
  <1>0. TypeInv'
    BY TypeStep
  <1>1. \A e \in Requests :
            \/ outbox'[e] = outbox[e]
            \/ outbox[e].status = "pending" /\ outbox'[e].status # "absent"
            \/ outbox[e].status = "absent" /\ outbox'[e].status = "pending"
    BY ItemLife
  <1>2. \A w \in Workers :
            /\ \A k \in DOMAIN claim[w].claimed : claim[w].claimed[k].event \in Requests
            /\ \A k \in DOMAIN worker[w].batch : worker[w].batch[k].event \in Requests
    <2>1. \A p \in PendingEvents : p.event \in Requests
      BY DEF PendingEvents
    <2> QED
      BY <2>1, ClaimLocals DEF TypeInv, DispatcherType
  <1>3. CASE UNCHANGED <<claim, worker, topic>>
             /\ \A e \in Requests : outbox'[e].status = "published"
                                      => outbox[e].status = "published"
    <2>1. HeldArePresent'
      BY <1>1, <1>2, <1>3 DEF DeliveryInv, HeldArePresent
    <2>2. MarksAreDelivered'
      BY <1>3 DEF DeliveryInv, MarksAreDelivered, Pending
    <2>3. PublishedWasDelivered'
      BY <1>1, <1>3 DEF DeliveryInv, PublishedWasDelivered
    <2> QED
      BY <2>1, <2>2, <2>3 DEF DeliveryInv
  <1>4. ASSUME NEW r \in Requests, RequestNext(r) PROVE DeliveryInv'
    <2>1. UNCHANGED <<claim, worker, topic>>
      BY <1>4, RequestMoves, RequestLeaves
    <2>2. \A e \in Requests : outbox'[e].status = "published"
                                => outbox[e].status = "published"
      <3>1. /\ Acceptance(r).id = r
            /\ outbox \in [Requests -> OutboxItems]
        BY AcceptanceType DEF TypeInv, TableType
      <3>2. ASSUME Writes(r), NEW e \in Requests
            PROVE  outbox'[e] = outbox[e] \/ outbox'[e].status = "pending"
        BY <3>1, <3>2 DEF Writes, PutItems, AbsentEvent
      <3> QED
        BY <1>4, <3>2, TablesStep
    <2> QED
      BY <1>3, <2>1, <2>2
  <1>5. ASSUME NEW w \in Workers, WorkerNext(w) \/ ClaimTrouble(w) \/ CrashWorker(w)
        PROVE  DeliveryInv'
    <2>0. /\ WorkerEffect(w)
          /\ \A v \in Workers \ {w} : claim'[v] = claim[v] /\ worker'[v] = worker[v]
      BY <1>5, WorkerSteps DEF WorkerEffect
    <2>1. /\ \A k \in DOMAIN claim'[w].claimed :
                outbox[claim'[w].claimed[k].event].status # "absent"
          /\ \A k \in DOMAIN worker'[w].batch :
                outbox[worker'[w].batch[k].event].status # "absent"
          /\ \/ UNCHANGED topic
             \/ worker[w].pc = "publish" /\ topic' = topic \cup {Pending(w).event}
          /\ worker'[w].pc = "mark" => worker'[w].batch # <<>>
                                       /\ worker'[w].batch[1].event \in topic'
          /\ \A e \in Requests :
                (/\ outbox'[e].status = "published"
                 /\ outbox[e].status # "published") => e \in topic
      BY <1>0, <2>0, HeldStep
    <2>2. HeldArePresent'
      <3>1. \A v \in Workers :
               /\ \A k \in DOMAIN claim'[v].claimed :
                     /\ claim'[v].claimed[k].event \in Requests
                     /\ outbox[claim'[v].claimed[k].event].status # "absent"
               /\ \A k \in DOMAIN worker'[v].batch :
                     /\ worker'[v].batch[k].event \in Requests
                     /\ outbox[worker'[v].batch[k].event].status # "absent"
        <4>1. /\ claim'[w].claimed \in Seq(PendingEvents)
              /\ worker'[w].batch \in Seq(PendingEvents)
          BY <1>0 DEF TypeInv, ClaimType, ClaimsWith, DispatcherType
        <4>2. \A p \in PendingEvents : p.event \in Requests
          BY DEF PendingEvents
        <4>3. /\ \A k \in DOMAIN claim'[w].claimed : claim'[w].claimed[k].event \in Requests
              /\ \A k \in DOMAIN worker'[w].batch : worker'[w].batch[k].event \in Requests
          BY <4>1, <4>2
        <4> QED
          BY <1>2, <2>0, <2>1, <4>3 DEF DeliveryInv, HeldArePresent
      <3> QED
        BY <1>1, <3>1 DEF HeldArePresent
    <2>3. topic \subseteq topic'
      BY <2>1
    <2>4. MarksAreDelivered'
      <3>1. worker'[w].pc = "mark" => Pending(w)' = worker'[w].batch[1]
        <4>1. worker'[w].batch \in Seq(PendingEvents)
          BY <1>0 DEF TypeInv, DispatcherType
        <4> QED
          BY <2>1, <4>1 DEF Pending
      <3>2. \A v \in Workers \ {w} : worker'[v].pc = "mark" => Pending(v)'.event \in topic
        BY <2>0 DEF DeliveryInv, MarksAreDelivered, Pending
      <3> QED
        BY <2>1, <2>3, <3>1, <3>2 DEF MarksAreDelivered
    <2>5. PublishedWasDelivered'
      <3>1. worker[w].pc = "publish"
              => /\ Pending(w).event \in Requests
                 /\ outbox[Pending(w).event].status # "absent"
        BY <1>2, HeadOfBatch DEF DeliveryInv, HeldArePresent
      <3>2. \A e \in Requests : outbox[e].status # "absent" => outbox'[e].status # "absent"
        BY <1>1
      <3>3. ASSUME NEW e \in Requests, e \in topic' PROVE outbox'[e].status # "absent"
        BY <2>1, <3>1, <3>2, <3>3 DEF DeliveryInv, PublishedWasDelivered
      <3>4. ASSUME NEW e \in Requests, outbox'[e].status = "published" PROVE e \in topic'
        BY <2>1, <2>3, <3>4 DEF DeliveryInv, PublishedWasDelivered
      <3> QED
        BY <3>3, <3>4 DEF PublishedWasDelivered
    <2> QED
      BY <2>2, <2>4, <2>5 DEF DeliveryInv
  <1>6. CASE \/ \E e \in Requests : UpdateIndex(e)
             \/ PassTime \/ UNCHANGED vars
    <2>1. UNCHANGED <<claim, worker, topic, outbox>>
      BY <1>6 DEF UpdateIndex, Propagate, PassTime, Tick, vars, dispatcherVars, storeVars, tableVars
    <2> QED
      BY <1>3, <2>1
  <1> QED
    BY <1>4, <1>5, <1>6 DEF Next

(* Whatever is lost, retried or claimed twice: the table records as        *)
(* published only what did reach Kafka, and Kafka only gets what is stored.*)
THEOREM DeliveryCorrect == Spec => []PublishedWasDelivered
  <1>1. DeliveryInv => PublishedWasDelivered
    BY DEF DeliveryInv
  <1> QED
    BY TypeInit, TypeStep, AcceptanceInit, AcceptanceStep, DeliveryInit, DeliveryStep, <1>1, PTL
       DEF Spec

-----------------------------------------------------------------------------
(* Leases.                                                                 *)

(* Only ClaimPending itself holds claims outside of a batch.               *)
ClaimingInv == \A w \in Workers : worker[w].pc # "claiming" => claim[w].claimed = <<>>

(* What a worker holds, in one of the two places.                          *)
LEMMA HeldType ==
    ASSUME TypeInv, ClaimingInv, NEW w \in Workers
    PROVE  /\ Held(w) \in Seq(PendingEvents)
           /\ worker[w].pc = "claiming" => Held(w) = claim[w].claimed
           /\ worker[w].pc # "claiming" => Held(w) = worker[w].batch
  <1>1. claim[w].claimed \in Seq(PendingEvents) /\ worker[w].batch \in Seq(PendingEvents)
    BY ClaimLocals DEF TypeInv, DispatcherType
  <1>2. worker[w].batch = <<>> \/ claim[w].claimed = <<>>
    BY DEF TypeInv, BusyInv, ClaimingInv
  <1>3. /\ worker[w].pc = "claiming" => worker[w].batch = <<>>
        /\ worker[w].pc # "claiming" => claim[w].claimed = <<>>
    BY DEF TypeInv, BusyInv, ClaimingInv
  <1>4. \A s \in Seq(PendingEvents) : s \o <<>> = s /\ <<>> \o s = s
    OBVIOUS
  <1> QED
    BY <1>1, <1>2, <1>3, <1>4 DEF Held

(* The ways in which the claims of w change.                         *)
Keeps(w) == Held(w)' = Held(w) /\ worker'[w].now = worker[w].now

Drops(w) == Held(w)' = <<>> /\ worker'[w].now \in {0, worker[w].now, clock}

Takes(w, p) == Held(w)' = Append(Held(w), p) /\ worker'[w].now = worker[w].now

Sheds(w) ==
    /\ worker[w].pc \in {"mark", "record"}
    /\ Held(w)' = Tail(Held(w)) /\ worker'[w].now = worker[w].now

HeldEffect(w) ==
    \/ UNCHANGED outbox /\ (Keeps(w) \/ Drops(w))
    \/ \E item \in claim[w].page :
          /\ UsedTokens # Tokens
          /\ WriteLease(w, item, FreshToken)
          /\ \/ Keeps(w) \/ Drops(w)
             \/ Takes(w, [event |-> item.event, attempts |-> item.attempts,
                          token |-> FreshToken])
    \/ /\ worker[w].pc \in {"mark", "record"}
       /\ ClaimHeld(Pending(w).event, Pending(w).token)
       /\ \A e \in Requests \ {Pending(w).event} : outbox'[e] = outbox[e]
       /\ Sheds(w) \/ Drops(w)

(* Every step of a worker changes its claims in one of these ways.         *)
LEMMA HeldSteps ==
    ASSUME TypeInv, ClaimingInv, NEW w \in Workers, WorkerEffect(w), TypeInv'
    PROVE  ClaimingInv' /\ HeldEffect(w)
  <1>0. /\ worker \in [Workers ->
             [pc: {"idle", "claiming", "publish", "mark", "record", "stopped"},
              now: Nat, batch: Seq(PendingEvents)]]
        /\ \A v \in Workers \ {w} : claim'[v] = claim[v] /\ worker'[v] = worker[v]
    BY DEF TypeInv, DispatcherType, WorkerEffect
  <1>1. (worker'[w].pc # "claiming" => claim'[w].claimed = <<>>) => ClaimingInv'
    BY <1>0 DEF ClaimingInv
  <1>2. ClaimingInv' =>
          /\ worker'[w].pc = "claiming" => Held(w)' = claim'[w].claimed
          /\ worker'[w].pc # "claiming" => Held(w)' = worker'[w].batch
    <2>1. claim'[w].claimed \in Seq(PendingEvents) /\ worker'[w].batch \in Seq(PendingEvents)
      BY DEF TypeInv, DispatcherType, ClaimType, ClaimsWith
    <2>2. ClaimingInv' => (worker'[w].pc # "claiming" => claim'[w].claimed = <<>>)
      BY DEF ClaimingInv
    <2>3. worker'[w].pc = "claiming" => worker'[w].batch = <<>>
      BY DEF TypeInv, BusyInv
    <2>4. \A s \in Seq(PendingEvents) : s \o <<>> = s /\ <<>> \o s = s
      OBVIOUS
    <2> QED
      BY <2>1, <2>2, <2>3, <2>4 DEF Held
  <1>3. /\ worker[w].pc = "claiming" => Held(w) = claim[w].claimed
        /\ worker[w].pc # "claiming" => /\ Held(w) = worker[w].batch
                                        /\ claim[w].claimed = <<>>
        /\ worker[w].pc \in {"idle", "stopped"} => Held(w) = <<>>
    <2>1. worker[w].pc \in {"idle", "stopped"} => worker[w].batch = <<>>
      BY DEF TypeInv, BusyInv
    <2> QED
      BY <2>1, HeldType DEF ClaimingInv
  <1>4. ASSUME Halt(w), claim'[w].claimed = <<>>
        PROVE  ClaimingInv' /\ Drops(w)
    <2>1. worker'[w] = Stopped
      BY <1>0, <1>4 DEF Halt
    <2> QED
      BY <1>1, <1>2, <1>4, <2>1 DEF Drops, Stopped
  <1>5. ASSUME NEW batch, Continue(w, batch), claim'[w].claimed = <<>>
        PROVE  /\ ClaimingInv'
               /\ Held(w)' = batch
               /\ batch # <<>> => worker'[w].now = worker[w].now
               /\ batch = <<>> => worker'[w].now = 0
    <2>1. worker'[w] = IF batch = <<>> THEN Idle
                       ELSE [pc |-> "publish", now |-> worker[w].now, batch |-> batch]
      BY <1>0, <1>5 DEF Continue
    <2>2. worker'[w].batch = batch /\ worker'[w].pc # "claiming"
      BY <2>1 DEF Idle
    <2> QED
      BY <1>1, <1>2, <1>5, <2>1, <2>2 DEF Idle
  <1>6. ASSUME worker[w].pc \in {"mark", "record"}, UNCHANGED claim,
               Advance(w) \/ Halt(w)
        PROVE  ClaimingInv' /\ (Sheds(w) \/ Drops(w))
    <2>1. claim'[w].claimed = <<>> /\ Held(w) = worker[w].batch
      BY <1>3, <1>6
    <2>2. CASE Advance(w)
      BY <1>5, <1>6, <2>1, <2>2 DEF Advance, Sheds, Drops
    <2> QED
      BY <1>4, <1>6, <2>1, <2>2
  <1>7. CASE WorkerStep(w)
    <2>1. UNCHANGED <<outbox, claim>>
      BY <1>7 DEF WorkerStep, storeVars, tableVars
    <2>2. CASE StartBatch(w) \/ Restart(w)
      <3>1. /\ worker[w].pc \in {"idle", "stopped"} /\ claim'[w].claimed = <<>>
            /\ worker'[w].now \in {0, clock}
            /\ worker'[w].batch \in {<<>>, worker[w].batch}
        BY <1>0, <1>3, <2>1, <2>2 DEF StartBatch, Restart, Idle
      <3>2. Held(w)' = <<>>
        BY <1>1, <1>2, <1>3, <3>1
      <3> QED
        BY <1>1, <2>1, <3>1, <3>2 DEF Drops, HeldEffect
    <2>3. CASE PublishOk(w) \/ PublishError(w)
      <3>1. /\ worker[w].pc = "publish" /\ worker'[w].pc # "claiming"
            /\ worker'[w].now = worker[w].now /\ worker'[w].batch = worker[w].batch
        BY <1>0, <2>3 DEF PublishOk, PublishError
      <3>2. ClaimingInv' /\ Held(w)' = Held(w)
        BY <1>1, <1>2, <1>3, <2>1, <3>1
      <3> QED
        BY <2>1, <3>1, <3>2 DEF Keeps, HeldEffect
    <2> QED
      BY <1>7, <2>2, <2>3 DEF WorkerStep
  <1>8. CASE /\ worker[w].pc = "claiming"
             /\ UNCHANGED <<outbox, worker, topic>>
             /\ claim'[w].claimed = claim[w].claimed
    BY <1>1, <1>2, <1>3, <1>8 DEF Keeps, HeldEffect
  <1>9. ASSUME NEW item \in claim[w].page,
               worker[w].pc = "claiming",
               UsedTokens # Tokens,
               WriteLease(w, item, FreshToken),
               \/ /\ worker' = worker
                  /\ claim'[w].claimed =
                       Append(claim[w].claimed,
                              [event |-> item.event, attempts |-> item.attempts,
                               token |-> FreshToken])
               \/ worker' = worker /\ claim'[w].claimed = claim[w].claimed
               \/ worker'[w] = Stopped /\ claim'[w].claimed = <<>>
        PROVE  ClaimingInv' /\ HeldEffect(w)
    <2> DEFINE p == [event |-> item.event, attempts |-> item.attempts,
                     token |-> FreshToken]
    <2>1. CASE worker' = worker
      <3>1. ClaimingInv' /\ Held(w)' = claim'[w].claimed /\ Held(w) = claim[w].claimed
        BY <1>1, <1>2, <1>3, <1>9, <2>1
      <3>2. Held(w)' = Append(Held(w), p) \/ Held(w)' = Held(w) \/ Drops(w)
        BY <1>9, <2>1, <3>1 DEF Drops
      <3>3. Takes(w, p) \/ Keeps(w) \/ Drops(w)
        BY <2>1, <3>2 DEF Takes, Keeps
      <3> QED
        BY <1>9, <3>1, <3>3 DEF HeldEffect
    <2>2. CASE worker'[w] = Stopped /\ claim'[w].claimed = <<>>
      <3>1. ClaimingInv' /\ Drops(w)
        BY <1>1, <1>2, <2>2 DEF Drops, Stopped
      <3> QED
        BY <1>9, <3>1 DEF HeldEffect
    <2> QED
      BY <1>9, <2>1, <2>2
  <1>10. CASE /\ worker[w].pc = "claiming"
              /\ Continue(w, claim[w].claimed)
              /\ claim'[w].claimed = <<>>
              /\ UNCHANGED outbox
    <2>1. Keeps(w) \/ Drops(w)
      BY <1>3, <1>5, <1>10 DEF Keeps, Drops
    <2> QED
      BY <1>5, <1>10, <2>1 DEF HeldEffect
  <1>11. CASE worker[w].pc = "mark" /\ MarkPublished(Pending(w)) /\ (Advance(w) \/ Halt(w))
    <2>1. /\ ClaimHeld(Pending(w).event, Pending(w).token) /\ UNCHANGED claim
          /\ \A e \in Requests \ {Pending(w).event} : outbox'[e] = outbox[e]
      BY <1>11, HeadOfBatch, MarkEffect DEF MarkPublished
    <2> QED
      BY <1>6, <1>11, <2>1 DEF HeldEffect
  <1>12. CASE worker[w].pc = "record" /\ RecordFailure(Failure(w)) /\ (Advance(w) \/ Halt(w))
    <2>1. Failure(w) \in Failures /\ Failure(w).event = Pending(w).event
          /\ Failure(w).token = Pending(w).token
      BY <1>12, HeadOfBatch, FailureType DEF TypeInv, Failure
    <2>2. /\ ClaimHeld(Failure(w).event, Failure(w).token) /\ UNCHANGED claim
          /\ \A e \in Requests \ {Failure(w).event} : outbox'[e] = outbox[e]
      BY <1>12, <2>1, RecordEffect DEF RecordFailure
    <2> QED
      BY <1>6, <1>12, <2>1, <2>2 DEF HeldEffect
  <1>13. CASE /\ Halt(w) /\ UNCHANGED outbox
              /\ \/ claim'[w].claimed = <<>>
                 \/ worker[w].pc # "claiming" /\ claim'[w].claimed = claim[w].claimed
    <2>1. claim'[w].claimed = <<>>
      BY <1>3, <1>13
    <2> QED
      BY <1>4, <1>13, <2>1 DEF HeldEffect
  <1> QED
    BY <1>7, <1>8, <1>9, <1>10, <1>11, <1>12, <1>13 DEF WorkerEffect

-----------------------------------------------------------------------------
(* The inductive invariant of the leases.                                  *)

(* Nobody ever holds two events with one token.                            *)
TokensDiffer ==
    \A v, w \in Workers : \A j \in DOMAIN Held(v), k \in DOMAIN Held(w) :
        Held(v)[j].token = Held(w)[k].token => v = w /\ j = k

(* While the lease runs, the items that a worker holds are leased to it to *)
(* the end of that time.                                                   *)
LeasedToHolder(early) ==
    \A w \in Workers :
        clock + early < worker[w].now + Lease =>
            \A k \in DOMAIN Held(w) :
                /\ ClaimHeld(Held(w)[k].event, Held(w)[k].token)
                /\ outbox[Held(w)[k].event].lease_until = worker[w].now + Lease

LeaseInv(early) ==
    /\ ClaimingInv
    /\ \A w \in Workers : worker[w].now <= clock
    /\ TokensDiffer
    /\ LeasedToHolder(early)

(* What a worker holds after one of its steps: what it held before, maybe  *)
(* without its head, and maybe an item it has just leased.                 *)
LEMMA HeldAfter ==
    ASSUME TypeInv, ClaimingInv, NEW w \in Workers, HeldEffect(w)
    PROVE  \E shift \in {0, 1} :
              /\ \A k \in DOMAIN Held(w)' :
                    /\ worker'[w].now = worker[w].now
                    /\ \/ /\ k + shift \in DOMAIN Held(w)
                          /\ Held(w)'[k] = Held(w)[k + shift]
                       \/ /\ shift = 0 /\ k = Len(Held(w)) + 1
                          /\ UsedTokens # Tokens
                          /\ \E item \in claim[w].page :
                                /\ WriteLease(w, item, FreshToken)
                                /\ Held(w)'[k].event = item.event
                                /\ Held(w)'[k].token = FreshToken
              /\ \/ UNCHANGED outbox
                 \/ /\ UsedTokens # Tokens
                    /\ \E item \in claim[w].page : WriteLease(w, item, FreshToken)
                 \/ /\ DOMAIN Held(w)' = {} \/ shift = 1
                    /\ worker[w].pc \in {"mark", "record"}
                    /\ ClaimHeld(Pending(w).event, Pending(w).token)
                    /\ \A e \in Requests \ {Pending(w).event} : outbox'[e] = outbox[e]
  <1> DEFINE After(shift) ==
        \A k \in DOMAIN Held(w)' :
           /\ worker'[w].now = worker[w].now
           /\ \/ /\ k + shift \in DOMAIN Held(w)
                 /\ Held(w)'[k] = Held(w)[k + shift]
              \/ /\ shift = 0 /\ k = Len(Held(w)) + 1
                 /\ UsedTokens # Tokens
                 /\ \E item \in claim[w].page :
                       /\ WriteLease(w, item, FreshToken)
                       /\ Held(w)'[k].event = item.event
                       /\ Held(w)'[k].token = FreshToken
  <1>1. Held(w) \in Seq(PendingEvents)
    BY HeldType
  <1>2. ASSUME Keeps(w) PROVE After(0)
    BY <1>1, <1>2 DEF Keeps
  <1>3. ASSUME Drops(w) PROVE After(0) /\ DOMAIN Held(w)' = {}
    BY <1>3 DEF Drops
  <1>4. ASSUME Sheds(w) PROVE After(1)
    <2>1. Held(w) # <<>>
      BY <1>4, HeldType, HeadOfBatch DEF Sheds
    <2>2. \A k \in DOMAIN Tail(Held(w)) :
             k + 1 \in DOMAIN Held(w) /\ Tail(Held(w))[k] = Held(w)[k + 1]
      BY <1>1, <2>1, TailOfBatch
    <2> QED
      BY <1>4, <2>2 DEF Sheds
  <1>5. ASSUME UsedTokens # Tokens, NEW item \in claim[w].page,
               WriteLease(w, item, FreshToken),
               Takes(w, [event |-> item.event, attempts |-> item.attempts,
                         token |-> FreshToken])
        PROVE  After(0)
    <2>1. PICK p : p = [event |-> item.event, attempts |-> item.attempts,
                        token |-> FreshToken]
      OBVIOUS
    <2>2. p.event = item.event /\ p.token = FreshToken
      BY <2>1
    <2>3. Held(w)' = Append(Held(w), p) /\ worker'[w].now = worker[w].now
      BY <1>5, <2>1 DEF Takes
    <2>4. \A k \in DOMAIN Append(Held(w), p) :
             \/ /\ k + 0 \in DOMAIN Held(w)
                /\ Append(Held(w), p)[k] = Held(w)[k + 0]
             \/ k = Len(Held(w)) + 1 /\ Append(Held(w), p)[k] = p
      BY <1>1, OneMoreElement
    <2> QED
      BY <1>5, <2>2, <2>3, <2>4
  <1> HIDE DEF After
  <1>6. \E shift \in {0, 1} :
           /\ After(shift)
           /\ \/ UNCHANGED outbox
              \/ /\ UsedTokens # Tokens
                 /\ \E item \in claim[w].page : WriteLease(w, item, FreshToken)
              \/ /\ DOMAIN Held(w)' = {} \/ shift = 1
                 /\ worker[w].pc \in {"mark", "record"}
                 /\ ClaimHeld(Pending(w).event, Pending(w).token)
                 /\ \A e \in Requests \ {Pending(w).event} : outbox'[e] = outbox[e]
    BY <1>2, <1>3, <1>4, <1>5 DEF HeldEffect
  <1> QED
    BY <1>6 DEF After

(* No step of a worker takes away what another one holds on a running      *)
(* lease, and none hands out a token twice.                                *)
LEMMA LeaseWorkerStep ==
    ASSUME NEW early \in Nat, OrderedWithin(early), TypeInv, LeaseInv(early), NEW w \in Workers,
           WorkerEffect(w), TypeInv'
    PROVE  LeaseInv(early)'
  <1>1. ClaimingInv' /\ HeldEffect(w)
    BY HeldSteps DEF LeaseInv
  <1>2. PICK shift \in {0, 1} :
           /\ \A k \in DOMAIN Held(w)' :
                 /\ worker'[w].now = worker[w].now
                 /\ \/ /\ k + shift \in DOMAIN Held(w)
                       /\ Held(w)'[k] = Held(w)[k + shift]
                    \/ /\ shift = 0 /\ k = Len(Held(w)) + 1
                       /\ UsedTokens # Tokens
                       /\ \E item \in claim[w].page :
                             /\ WriteLease(w, item, FreshToken)
                             /\ Held(w)'[k].event = item.event
                             /\ Held(w)'[k].token = FreshToken
           /\ \/ UNCHANGED outbox
              \/ /\ UsedTokens # Tokens
                 /\ \E item \in claim[w].page : WriteLease(w, item, FreshToken)
              \/ /\ DOMAIN Held(w)' = {} \/ shift = 1
                 /\ worker[w].pc \in {"mark", "record"}
                 /\ ClaimHeld(Pending(w).event, Pending(w).token)
                 /\ \A e \in Requests \ {Pending(w).event} : outbox'[e] = outbox[e]
    BY <1>1, HeldAfter DEF LeaseInv
  <1>3. /\ \A v \in Workers \ {w} : Held(v)' = Held(v) /\ worker'[v] = worker[v]
        /\ UNCHANGED clock
        /\ \A v \in Workers : /\ worker[v].now \in Nat /\ worker[v].now <= clock
                              /\ Held(v) \in Seq(PendingEvents)
    <2>1. \A v \in Workers : Held(v) \in Seq(PendingEvents)
      BY HeldType DEF LeaseInv
    <2>2. \A v \in Workers : worker[v].now \in Nat /\ worker[v].now <= clock
      BY DEF LeaseInv, TypeInv, DispatcherType
    <2> QED
      BY <2>1, <2>2 DEF WorkerEffect, Held
  <1>4. worker'[w].now <= clock
    <2>1. worker'[w].now \in {0, worker[w].now, clock}
      BY <1>1 DEF HeldEffect, Keeps, Drops, Takes, Sheds
    <2> QED
      BY <1>3, <2>1 DEF TypeInv, DispatcherType
  <1>5. \A v \in Workers : \A k \in DOMAIN Held(v) : Held(v)[k].token \in UsedTokens
    <2>1. \A p \in PendingEvents : p.token \in Tokens
      BY DEF PendingEvents
    <2>2. \A v \in Workers : \A k \in DOMAIN Held(v) : Held(v)[k].token \in Tokens
      BY <1>3, <2>1
    <2> QED
      BY <2>2 DEF UsedTokens
  <1>8. \A i \in DOMAIN Held(w)' : i \in Nat /\ i # 0
    <2>1. claim'[w].claimed \in Seq(PendingEvents) /\ worker'[w].batch \in Seq(PendingEvents)
      BY DEF TypeInv, ClaimType, ClaimsWith, DispatcherType
    <2>2. claim'[w].claimed \o worker'[w].batch \in Seq(PendingEvents)
      BY <2>1
    <2> QED
      BY <2>2 DEF Held
  <1>6. TokensDiffer'
    <2>1. ASSUME NEW v \in Workers \ {w}, NEW j \in DOMAIN Held(v), NEW k \in DOMAIN Held(w)'
          PROVE  Held(v)[j].token # Held(w)'[k].token
      BY <1>2, <1>5, FreshTokenIsFresh DEF LeaseInv, TokensDiffer
    <2>2. ASSUME NEW j \in DOMAIN Held(w)', NEW k \in DOMAIN Held(w)',
                 Held(w)'[j].token = Held(w)'[k].token
          PROVE  j = k
      <3>1. j \in Nat /\ k \in Nat
        BY <1>8
      <3>2. j + shift = k + shift => j = k
        BY <3>1
      <3> DEFINE Old(i) == i + shift \in DOMAIN Held(w)
                           /\ Held(w)'[i] = Held(w)[i + shift]
                 New(i) == /\ i = Len(Held(w)) + 1
                           /\ UsedTokens # Tokens
                           /\ Held(w)'[i].token = FreshToken
      <3>3. \A i \in DOMAIN Held(w)' : Old(i) \/ New(i)
        BY <1>2
      <3>4. CASE Old(j) /\ Old(k)
        BY <2>2, <3>2, <3>4 DEF LeaseInv, TokensDiffer
      <3>5. CASE (Old(j) /\ New(k)) \/ (New(j) /\ Old(k))
        BY <1>5, <2>2, <3>5, FreshTokenIsFresh
      <3>6. CASE New(j) /\ New(k)
        BY <3>6
      <3> QED
        BY <3>3, <3>4, <3>5, <3>6
    <2>3. ASSUME NEW u \in Workers, NEW v \in Workers,
                 NEW j \in DOMAIN Held(u)', NEW k \in DOMAIN Held(v)',
                 Held(u)'[j].token = Held(v)'[k].token
          PROVE  u = v /\ j = k
      <3>1. CASE u # w /\ v # w
        <4>1. Held(u)' = Held(u) /\ Held(v)' = Held(v)
          BY <1>3, <3>1
        <4> QED
          BY <2>3, <4>1 DEF TokensDiffer, LeaseInv
      <3>2. CASE u # w /\ v = w
        BY <1>3, <2>1, <2>3, <3>2
      <3>3. CASE u = w /\ v # w
        BY <1>3, <2>1, <2>3, <3>3
      <3>4. CASE u = w /\ v = w
        BY <2>2, <2>3, <3>4
      <3> QED
        BY <3>1, <3>2, <3>3, <3>4
    <2> QED
      BY <2>3 DEF TokensDiffer
  <1>7. LeasedToHolder(early)'
    <2> DEFINE Leased(h, until) ==
                 /\ ClaimHeld(h.event, h.token)
                 /\ outbox[h.event].lease_until = until
    <2>1. \A v \in Workers : clock + early < worker[v].now + Lease =>
             \A k \in DOMAIN Held(v) : Leased(Held(v)[k], worker[v].now + Lease)
      BY DEF LeaseInv, LeasedToHolder
    <2>2. \A v \in Workers : \A k \in DOMAIN Held(v) : Held(v)[k] \in PendingEvents
      BY <1>3
    <2>3. ASSUME NEW item \in claim[w].page, UsedTokens # Tokens,
                 WriteLease(w, item, FreshToken)
          PROVE  /\ item.event \in Requests
                 /\ outbox'[item.event].status = "pending"
                 /\ outbox'[item.event].claim_token = FreshToken
                 /\ outbox'[item.event].lease_until = worker[w].now + Lease
                 /\ \A e \in Requests \ {item.event} : outbox'[e] = outbox[e]
                 /\ \A v \in Workers : clock + early < worker[v].now + Lease =>
                       \A k \in DOMAIN Held(v) : Held(v)[k].event # item.event
      <3>1. item.event \in Requests /\ FreshToken \in Tokens
        BY <2>3, ClaimLocals, FreshTokenIsFresh
      <3>2. /\ Due(outbox[item.event], worker[w].now)
            /\ outbox'[item.event].status = outbox[item.event].status
            /\ outbox'[item.event].claim_token = FreshToken
            /\ outbox'[item.event].lease_until = worker[w].now + Lease
            /\ \A e \in Requests \ {item.event} : outbox'[e] = outbox[e]
        BY <2>3, <3>1, LeaseEffect
      <3>3. \/ outbox[item.event].lease_until = NoTime
            \/ /\ outbox[item.event].lease_until \in Nat
               /\ outbox[item.event].lease_until <= worker[w].now + early
        <4>1. outbox[item.event].lease_until \in Nat \cup {NoTime}
          BY <3>1 DEF TypeInv, TableType, OutboxItems
        <4> QED
          BY <1>3, <3>2, <4>1 DEF Due, OrderedWithin
      <3>4. ASSUME NEW v \in Workers, clock + early < worker[v].now + Lease,
                   NEW k \in DOMAIN Held(v), Held(v)[k].event = item.event
            PROVE  FALSE
        <4>1. outbox[item.event].lease_until = worker[v].now + Lease
          BY <2>1, <3>4
        <4>2. /\ worker[w].now \in Nat /\ worker[w].now <= clock
              /\ worker[v].now \in Nat /\ clock \in Nat /\ Lease \in Nat
          BY <1>3 DEF TypeInv, DispatcherType
        <4>3. worker[v].now + Lease # NoTime
          BY <4>2 DEF NoTime
        <4>4. worker[v].now + Lease <= worker[w].now + early
          BY <3>3, <4>1, <4>3
        <4>5. clock + early < worker[v].now + Lease
          BY <3>4
        <4> QED
          BY <4>2, <4>4, <4>5, LeaseNotOver
      <3>5. outbox'[item.event].status = "pending"
        BY <3>2 DEF Due
      <3> QED
        BY <3>1, <3>2, <3>4, <3>5
    <2>4. ASSUME NEW v \in Workers, NEW k \in DOMAIN Held(v), clock + early < worker[v].now + Lease,
                 v # w \/ \E i \in DOMAIN Held(w)' : k = i + shift
          PROVE  outbox'[Held(v)[k].event] = outbox[Held(v)[k].event]
      <3>1. Held(v)[k].event \in Requests
        BY <2>2 DEF PendingEvents
      <3>2. CASE /\ UsedTokens # Tokens
                 /\ \E item \in claim[w].page : WriteLease(w, item, FreshToken)
        BY <2>3, <2>4, <3>1, <3>2
      <3>3. CASE /\ DOMAIN Held(w)' = {} \/ shift = 1
                 /\ worker[w].pc \in {"mark", "record"}
                 /\ ClaimHeld(Pending(w).event, Pending(w).token)
                 /\ \A e \in Requests \ {Pending(w).event} : outbox'[e] = outbox[e]
        <4>1. 1 \in DOMAIN Held(w) /\ Pending(w) = Held(w)[1]
          <5>1. Held(w) = worker[w].batch
            BY <3>3, HeldType DEF LeaseInv
          <5>2. 1 \in DOMAIN worker[w].batch /\ Pending(w) = worker[w].batch[1]
            BY <3>3, HeadOfBatch
          <5> QED
            BY <5>1, <5>2
        <4>2. v # w \/ k # 1
          <5>1. \A i \in DOMAIN Held(w)' : i \in Nat /\ i # 0
            BY <1>8
          <5> QED
            BY <2>4, <3>3, <5>1
        <4>3. ASSUME Held(v)[k].event = Pending(w).event PROVE FALSE
          <5>1. Held(v)[k].token = Held(w)[1].token
            BY <2>1, <2>4, <3>3, <4>1, <4>3 DEF ClaimHeld
          <5> QED
            BY <4>1, <4>2, <5>1 DEF LeaseInv, TokensDiffer
        <4> QED
          BY <3>1, <3>3, <4>3
      <3> QED
        BY <1>2, <3>2, <3>3
    <2>5. ASSUME NEW v \in Workers, clock + early < worker'[v].now + Lease,
                 NEW k \in DOMAIN Held(v)'
          PROVE  /\ outbox'[Held(v)'[k].event].status = "pending"
                 /\ outbox'[Held(v)'[k].event].claim_token = Held(v)'[k].token
                 /\ outbox'[Held(v)'[k].event].lease_until = worker'[v].now + Lease
      <3>1. CASE v # w
        <4>1. worker'[v] = worker[v] /\ Held(v)' = Held(v)
          BY <1>3, <3>1
        <4>2. Leased(Held(v)[k], worker[v].now + Lease)
          BY <2>1, <2>5, <4>1
        <4>3. outbox'[Held(v)[k].event] = outbox[Held(v)[k].event]
          BY <2>4, <2>5, <3>1, <4>1
        <4> QED
          BY <4>1, <4>2, <4>3 DEF ClaimHeld
      <3>2. CASE v = w /\ k + shift \in DOMAIN Held(w) /\ Held(w)'[k] = Held(w)[k + shift]
        <4>1. worker'[w].now = worker[w].now
          BY <1>2, <2>5, <3>2
        <4>2. Leased(Held(w)[k + shift], worker[w].now + Lease)
          BY <2>1, <2>5, <3>2, <4>1
        <4>3. outbox'[Held(w)[k + shift].event] = outbox[Held(w)[k + shift].event]
          BY <2>4, <2>5, <3>2, <4>1
        <4> QED
          BY <3>2, <4>1, <4>2, <4>3 DEF ClaimHeld
      <3>3. CASE v = w /\ UsedTokens # Tokens
                 /\ \E item \in claim[w].page :
                       /\ WriteLease(w, item, FreshToken)
                       /\ Held(w)'[k].event = item.event
                       /\ Held(w)'[k].token = FreshToken
        BY <1>2, <2>3, <2>5, <3>3
      <3> QED
        BY <1>2, <2>5, <3>1, <3>2, <3>3
    <2> QED
      BY <1>3, <2>5 DEF LeasedToHolder, ClaimHeld
  <1> QED
    BY <1>1, <1>3, <1>4, <1>6, <1>7 DEF LeaseInv

(* As far as timestamps are ordered, no step of any actor breaks the       *)
(* invariant of the leases.                                                *)
LEMMA LeaseStep ==
    ASSUME NEW early \in Nat, OrderedWithin(early)
    PROVE  TypeInv /\ AcceptanceInv /\ LeaseInv(early) /\ [Next]_vars => LeaseInv(early)'
  <1> SUFFICES ASSUME TypeInv, AcceptanceInv, LeaseInv(early), [Next]_vars
               PROVE  LeaseInv(early)'
    OBVIOUS
  <1>1. ASSUME NEW w \in Workers, WorkerNext(w) \/ ClaimTrouble(w) \/ CrashWorker(w)
        PROVE  LeaseInv(early)'
    BY <1>1, WorkerSteps, LeaseWorkerStep
  <1>2. ASSUME UNCHANGED <<claim, worker>>, clock' \in Nat, clock <= clock',
               \A e \in Requests : outbox[e].status = "pending" => outbox'[e] = outbox[e]
        PROVE  LeaseInv(early)'
    <2>1. /\ \A w \in Workers : /\ worker[w].now \in Nat /\ worker[w].now <= clock
                                /\ Held(w)' = Held(w) /\ worker'[w] = worker[w]
                                /\ \A k \in DOMAIN Held(w) : Held(w)[k].event \in Requests
          /\ clock \in Nat /\ Lease \in Nat
      <3>1. \A p \in PendingEvents : p.event \in Requests
        BY DEF PendingEvents
      <3>2. \A w \in Workers : Held(w) \in Seq(PendingEvents)
        BY HeldType DEF LeaseInv
      <3>3. \A w \in Workers : \A k \in DOMAIN Held(w) : Held(w)[k].event \in Requests
        BY <3>1, <3>2
      <3>4. \A w \in Workers : Held(w)' = Held(w) /\ worker'[w] = worker[w]
        BY <1>2 DEF Held
      <3>5. \A w \in Workers : worker[w].now \in Nat /\ worker[w].now <= clock
        BY DEF LeaseInv, TypeInv, DispatcherType
      <3> QED
        BY <3>3, <3>4, <3>5 DEF TypeInv, DispatcherType
    <2>2. LeasedToHolder(early)'
      <3>1. ASSUME NEW w \in Workers, clock' + early < worker[w].now + Lease,
                   NEW k \in DOMAIN Held(w)
            PROVE  /\ ClaimHeld(Held(w)[k].event, Held(w)[k].token)
                   /\ outbox[Held(w)[k].event].lease_until = worker[w].now + Lease
                   /\ outbox'[Held(w)[k].event] = outbox[Held(w)[k].event]
        <4>1. clock + early < worker[w].now + Lease
          BY <1>2, <2>1, <3>1
        <4>2. /\ ClaimHeld(Held(w)[k].event, Held(w)[k].token)
              /\ outbox[Held(w)[k].event].lease_until = worker[w].now + Lease
          BY <3>1, <4>1 DEF LeaseInv, LeasedToHolder
        <4>3. /\ Held(w)[k].event \in Requests
              /\ outbox[Held(w)[k].event].status = "pending"
          BY <2>1, <3>1, <4>2 DEF ClaimHeld
        <4>4. outbox'[Held(w)[k].event] = outbox[Held(w)[k].event]
          BY <1>2, <4>3
        <4> QED
          BY <4>2, <4>4
      <3>2. ASSUME NEW w \in Workers, clock' + early < worker'[w].now + Lease,
                   NEW k \in DOMAIN Held(w)'
            PROVE  /\ outbox'[Held(w)'[k].event].status = "pending"
                   /\ outbox'[Held(w)'[k].event].claim_token = Held(w)'[k].token
                   /\ outbox'[Held(w)'[k].event].lease_until = worker'[w].now + Lease
        <4>1. Held(w)' = Held(w) /\ worker'[w] = worker[w]
          BY <2>1
        <4> QED
          BY <3>1, <3>2, <4>1 DEF ClaimHeld
      <3> QED
        BY <3>2 DEF LeasedToHolder, ClaimHeld
    <2>3. \A w \in Workers : worker'[w].now <= clock'
      BY <1>2, <2>1
    <2> QED
      BY <1>2, <2>1, <2>2, <2>3 DEF LeaseInv, ClaimingInv, TokensDiffer
  <1>3. ASSUME NEW r \in Requests, RequestNext(r) PROVE LeaseInv(early)'
    <2>1. UNCHANGED <<claim, worker, clock>> /\ clock \in Nat
      BY <1>3, RequestMoves, RequestLeaves DEF TypeInv, DispatcherType
    <2>2. ASSUME Writes(r), NEW e \in Requests, outbox[e].status = "pending"
          PROVE  outbox'[e] = outbox[e]
      <3>1. /\ Acceptance(r).id = r /\ Acceptance(r).identity = request[r].identity
            /\ outbox \in [Requests -> OutboxItems]
        BY AcceptanceType DEF TypeInv, TableType
      <3>2. StoredItem(r) = NoItem
        BY <2>2, <3>1 DEF Writes, Item, StoredItem
      <3>3. outbox[r].status = "absent"
        BY <3>2 DEF AcceptanceInv, OneEventPerIdentity, NoItem
      <3> QED
        BY <2>2, <3>1, <3>3 DEF Writes, PutItems
    <2>3. \A e \in Requests : outbox[e].status = "pending" => outbox'[e] = outbox[e]
      BY <1>3, <2>2, TablesStep
    <2> QED
      BY <1>2, <2>1, <2>3
  <1>4. CASE \/ \E e \in Requests : UpdateIndex(e)
             \/ PassTime \/ UNCHANGED vars
    <2>1. UNCHANGED <<claim, worker, outbox>> /\ (clock' = clock \/ clock' = clock + 1)
      BY <1>4 DEF UpdateIndex, Propagate, PassTime, Tick, vars, dispatcherVars, storeVars,
                  tableVars
    <2>2. clock' \in Nat /\ clock <= clock'
      BY <2>1 DEF TypeInv, DispatcherType
    <2> QED
      BY <1>2, <2>1, <2>2
  <1> QED
    BY <1>1, <1>3, <1>4 DEF Next

(* Nothing is leased at first.                                             *)
LEMMA LeaseInit ==
    ASSUME NEW early \in Nat
    PROVE  Init => LeaseInv(early)
  <1> SUFFICES ASSUME Init PROVE LeaseInv(early)
    OBVIOUS
  <1>1. \A w \in Workers : worker[w] = Idle /\ claim[w].claimed = <<>> /\ Held(w) = <<>>
    BY DEF Init, DispatcherInit, StoreInit, NoClaim, Idle, Held
  <1> QED
    BY <1>1 DEF Init, DispatcherInit, LeaseInv, ClaimingInv, TokensDiffer, LeasedToHolder,
                Idle

(* What is leased to its holder is claimed by it.                          *)
LEMMA LeaseSuffices ==
    ASSUME NEW early \in Nat
    PROVE  LeaseInv(early) => LeaseProtectsUpTo(early)
  BY DEF LeaseInv, LeasedToHolder, LeaseProtectsUpTo

(* For every number of workers, batch size and lease, on a lagging index   *)
(* and with lost answers, and for a clock of any precision: an event       *)
(* leaves the hands of the worker that claimed it less than a second       *)
(* before the end of the lease.  (Second is a power of ten; that powers    *)
(* are positive is beyond the provers.)                                    *)
THEOREM LeaseCorrectWithinSecond ==
    ASSUME Second \in Nat \ {0}
    PROVE  Spec => []LeaseProtectsUpTo(Second - 1)
  <1>1. Second - 1 \in Nat
    OBVIOUS
  <1>2. OrderedWithin(Second - 1)
    BY OrderedWithinSecond
  <1>3. Init => LeaseInv(Second - 1)
    BY <1>1, LeaseInit
  <1>4. TypeInv /\ AcceptanceInv /\ LeaseInv(Second - 1) /\ [Next]_vars =>
           LeaseInv(Second - 1)'
    BY <1>1, <1>2, LeaseStep
  <1>5. LeaseInv(Second - 1) => LeaseProtectsUpTo(Second - 1)
    BY <1>1, LeaseSuffices
  <1> QED
    BY TypeInit, TypeStep, AcceptanceInit, AcceptanceStep, <1>3, <1>4, <1>5, PTL DEF Spec

(* On whole seconds no running lease is ever taken over.                   *)
THEOREM LeaseCorrect == Precision = 0 => (Spec => []LeaseProtects)
  <1> SUFFICES ASSUME Precision = 0 PROVE Spec => []LeaseProtects
    OBVIOUS
  <1>1. Second = 1
    BY DEF Second
  <1>2. OrderedWithin(0)
    BY <1>1, OrderedWithinSecond
  <1>3. Init => LeaseInv(0)
    BY LeaseInit
  <1>4. TypeInv /\ AcceptanceInv /\ LeaseInv(0) /\ [Next]_vars => LeaseInv(0)'
    BY <1>2, LeaseStep
  <1>5. LeaseInv(0) => LeaseProtects
    BY LeaseSuffices DEF LeaseProtects
  <1> QED
    BY TypeInit, TypeStep, AcceptanceInit, AcceptanceStep, <1>3, <1>4, <1>5, PTL DEF Spec

-----------------------------------------------------------------------------
(* The refinement of OutboxContract.                                       *)

(* Steps that leave the stored IDs, the states of the events and the topic *)
(* alone are stuttering steps of the contract.                             *)
LEMMA ContractStutters ==
    ASSUME UNCHANGED <<transactions, topic>>,
           \A e \in Requests : outbox'[e].status = outbox[e].status
    PROVE  UNCHANGED Contract!contractVars
  BY DEF Contract!contractVars

(* Writing both items accepts the key.                                     *)
LEMMA ContractAccepts ==
    ASSUME TypeInv, AcceptanceInv, NEW r \in Requests, Writes(r), UNCHANGED topic
    PROVE  Contract!Next
  <1>1. /\ Acceptance(r).id = r /\ Acceptance(r).identity = request[r].identity
        /\ outbox \in [Requests -> OutboxItems]
        /\ transactions \in [Keys -> [id: Requests, fingerprint: Fingerprints] \cup {NoItem}]
        /\ Key[request[r].identity] \in Keys
    BY AcceptanceType DEF TypeInv, TableType, RequestType
  <1> DEFINE k == Key[request[r].identity]
             ledger == [j \in Keys |-> transactions[j].id]
             status == [e \in Requests |-> outbox[e].status]
  <1>2. transactions[k] = NoItem /\ outbox[r].status = "absent"
    <2>1. StoredItem(r) = NoItem
      BY <1>1 DEF Writes, Item, StoredItem
    <2> QED
      BY <2>1 DEF AcceptanceInv, OneEventPerIdentity, NoItem, StoredItem
  <1>3. /\ transactions'[k].id = r
        /\ \A j \in Keys \ {k} : transactions'[j] = transactions[j]
        /\ outbox'[r].status = "pending"
        /\ \A e \in Requests \ {r} : outbox'[e] = outbox[e]
    BY <1>1 DEF Writes, PutItems, AbsentEvent
  <1>4. ledger' = [ledger EXCEPT ![k] = r]
    BY <1>1, <1>3
  <1>5. status' = [status EXCEPT ![r] = "pending"]
    BY <1>3
  <1>6. ledger[k] = NoId /\ status[r] = "absent"
    BY <1>1, <1>2 DEF NoItem
  <1>7. Contract!Accept(k, r)
    BY <1>4, <1>5, <1>6 DEF Contract!Accept
  <1> QED
    BY <1>1, <1>7 DEF Contract!Next

(* The outcome of one event, as the contract sees it.                      *)
LEMMA ContractSettles ==
    ASSUME TypeInv, NEW e \in Requests, UNCHANGED <<transactions, topic>>,
           outbox[e].status = "pending",
           \/ outbox'[e].status = "published" /\ e \in topic
           \/ outbox'[e].status \in {"pending", "failed"},
           \A d \in Requests \ {e} : outbox'[d] = outbox[d]
    PROVE  Contract!Next \/ UNCHANGED Contract!contractVars
  <1> DEFINE status == [d \in Requests |-> outbox[d].status]
  <1>1. status' = [status EXCEPT ![e] = outbox'[e].status] /\ status[e] = "pending"
    OBVIOUS
  <1>2. CASE outbox'[e].status = "published" /\ e \in topic
    <2>1. Contract!Complete(e)
      BY <1>1, <1>2 DEF Contract!Complete
    <2> QED
      BY <2>1 DEF Contract!Next
  <1>3. CASE outbox'[e].status = "failed"
    <2>1. Contract!GiveUp(e)
      BY <1>1, <1>3 DEF Contract!GiveUp
    <2> QED
      BY <2>1 DEF Contract!Next
  <1>4. CASE outbox'[e].status = "pending"
    BY <1>4, ContractStutters
  <1> QED
    BY <1>2, <1>3, <1>4

(* Every step of a worker is one of the contract, or stutters.             *)
LEMMA ContractWorkerStep ==
    ASSUME TypeInv, DeliveryInv, NEW w \in Workers, WorkerEffect(w), TypeInv'
    PROVE  Contract!Next \/ UNCHANGED Contract!contractVars
  <1>0. UNCHANGED transactions
    BY DEF WorkerEffect
  <1>1. CASE UNCHANGED <<outbox, topic>>
    BY <1>0, <1>1, ContractStutters
  <1>2. CASE WorkerStep(w)
    <2>1. UNCHANGED outbox
      BY <1>2 DEF WorkerStep, storeVars, tableVars
    <2>2. CASE worker[w].pc = "publish" /\ topic' = topic \cup {Pending(w).event}
      <3>1. /\ Pending(w).event \in Requests
            /\ outbox[Pending(w).event].status # "absent"
        BY <2>2, HeadOfBatch DEF DeliveryInv, HeldArePresent, PendingEvents
      <3>2. Contract!Deliver(Pending(w).event)
        BY <1>0, <2>1, <2>2, <3>1 DEF Contract!Deliver
      <3> QED
        BY <3>1, <3>2 DEF Contract!Next
    <2> QED
      BY <1>1, <2>1, <2>2, HeldStep
  <1>3. ASSUME NEW item \in claim[w].page, UsedTokens # Tokens,
               WriteLease(w, item, FreshToken), UNCHANGED topic
        PROVE  UNCHANGED Contract!contractVars
    <2>1. item.event \in Requests /\ FreshToken \in Tokens
      BY <1>3, ClaimLocals, FreshTokenIsFresh
    <2>2. /\ outbox'[item.event].status = outbox[item.event].status
          /\ \A d \in Requests \ {item.event} : outbox'[d] = outbox[d]
      BY <1>3, <2>1, LeaseEffect
    <2> QED
      BY <1>0, <1>3, <2>2, ContractStutters
  <1>4. CASE worker[w].pc = "mark" /\ MarkPublished(Pending(w)) /\ UNCHANGED topic
    <2>1. /\ Pending(w) \in PendingEvents /\ Pending(w).event \in Requests
          /\ Pending(w).event \in topic
      BY <1>4, HeadOfBatch DEF DeliveryInv, MarksAreDelivered, PendingEvents
    <2>2. /\ outbox[Pending(w).event].status = "pending"
          /\ outbox'[Pending(w).event].status = "published"
          /\ \A e \in Requests \ {Pending(w).event} : outbox'[e] = outbox[e]
      BY <1>4, <2>1, MarkEffect
    <2> QED
      BY <1>0, <1>4, <2>1, <2>2, ContractSettles
  <1>5. CASE worker[w].pc = "record" /\ RecordFailure(Failure(w)) /\ UNCHANGED topic
    <2>1. Failure(w) \in Failures /\ Failure(w).event \in Requests
      BY <1>5, HeadOfBatch, FailureType DEF TypeInv, Failures
    <2>2. /\ outbox[Failure(w).event].status = "pending"
          /\ outbox'[Failure(w).event].status \in {"pending", "failed"}
          /\ \A e \in Requests \ {Failure(w).event} : outbox'[e] = outbox[e]
      BY <1>5, <2>1, RecordEffect
    <2> QED
      BY <1>0, <1>5, <2>1, <2>2, ContractSettles
  <1>6. /\ Halt(w) => UNCHANGED topic
        /\ Advance(w) => UNCHANGED topic
        /\ \A batch : Continue(w, batch) => UNCHANGED topic
    BY DEF Halt, Advance, Continue
  <1> QED
    BY <1>1, <1>2, <1>3, <1>4, <1>5, <1>6 DEF WorkerEffect

(* Every step of the service is one of the contract, or stutters.          *)
LEMMA ContractStep ==
    TypeInv /\ AcceptanceInv /\ DeliveryInv /\ [Next]_vars
      => [Contract!Next]_(Contract!contractVars)
  <1> SUFFICES ASSUME TypeInv, AcceptanceInv, DeliveryInv, [Next]_vars
               PROVE  Contract!Next \/ UNCHANGED Contract!contractVars
    OBVIOUS
  <1>1. ASSUME NEW r \in Requests, RequestNext(r)
        PROVE  Contract!Next \/ UNCHANGED Contract!contractVars
    <2>1. UNCHANGED topic
      BY <1>1, RequestMoves
    <2>2. UNCHANGED <<transactions, outbox>> \/ Writes(r)
      BY <1>1, TablesStep
    <2> QED
      BY <2>1, <2>2, ContractAccepts, ContractStutters
  <1>2. ASSUME NEW w \in Workers, WorkerNext(w) \/ ClaimTrouble(w) \/ CrashWorker(w)
        PROVE  Contract!Next \/ UNCHANGED Contract!contractVars
    BY <1>2, WorkerSteps, ContractWorkerStep
  <1>3. CASE \/ \E e \in Requests : UpdateIndex(e)
             \/ PassTime \/ UNCHANGED vars
    <2>1. UNCHANGED <<transactions, outbox, topic>>
      BY <1>3 DEF UpdateIndex, Propagate, PassTime, Tick, vars, dispatcherVars, storeVars,
                  tableVars
    <2> QED
      BY <2>1, ContractStutters
  <1> QED
    BY <1>1, <1>2, <1>3 DEF Next

(* Every behaviour of the service on DynamoDB is one of OutboxContract     *)
(* (safety), for every value of the constants.                             *)
THEOREM RefinesContract == Spec => ImplementsContract
  <1>1. Init => Contract!Init
    BY DEF Init, DispatcherInit, StoreInit, Contract!Init, NoItem, AbsentEvent
  <1> QED
    BY TypeInit, TypeStep, AcceptanceInit, AcceptanceStep, DeliveryInit, DeliveryStep,
       <1>1, ContractStep, PTL DEF Spec, ImplementsContract, Contract!Spec

=============================================================================
