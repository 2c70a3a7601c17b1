----------------------------- MODULE FeatureStore -----------------------------
(***************************************************************************)
(* The velocity history that scores are computed from: its strictly-before  *)
(* reads, its updates through the outbox, and how it forgets, against the   *)
(* features that build_offline_features computes for training.              *)
(*                                                                          *)
(* Amounts, merchants and locations of an event come with the event, so a   *)
(* feature is determined by the set of events it is computed from.  Time    *)
(* has one unit; Window stands for the longest window, "7d", and Retention  *)
(* for the eight days that Redis keeps a history.                           *)
(***************************************************************************)
EXTENDS Naturals

CONSTANTS Transactions,
          Customers, Cards,
          MaxTime,           \* bound on the wall clock
          Skew,              \* how far client timestamps may run ahead of it
          Window, Retention

Entities == Customers \cup Cards
RedisKeys == Entities \cup Transactions

ASSUME NamesAssumption == /\ Customers \cap Cards = {}
                          /\ Entities \cap Transactions = {}
ASSUME TimesAssumption == /\ MaxTime \in Nat /\ Skew \in Nat
                          /\ Window \in Nat \ {0} /\ Retention \in Nat \ {0}
                          /\ Window <= Retention

VARIABLES kind,      \* "redis" if redis_url is set, else "memory"
          now,       \* the wall clock
          txn,       \* timestamp, customer and card of a request
          pc,
          seen,      \* VelocityContext: the events read for customer and card
          hist,      \* how often an event is in the history of an entity
          marked,    \* processed markers
          expires,   \* when Redis drops a key or marker
          recorded,  \* history: events recorded (memory: by this process)
          known,     \* history: what was recorded when customer and card were read
          readAt     \* history: when the context was read

requests == <<txn, pc, seen, known, readAt>>
store == <<hist, marked, expires>>
vars == <<kind, now, requests, store, recorded>>

Txn == [time: 0..MaxTime + Skew, customer: Customers, card: Cards]
NoEvents == [customer |-> {}, card |-> {}]
Empty == [e \in Transactions |-> 0]
Events(k) == {e \in Transactions : hist[k][e] > 0}

(* Mutant of EntitiesOf: the history of the card is forgotten.              *)
EntitiesOfCustomer(x) == {txn[x].customer}

(* KEYS[2] and KEYS[3] of the Lua script.                                   *)
EntitiesOf(x) == {txn[x].customer, txn[x].card}

(* A program has one store.                                                  *)
Init ==
  /\ kind \in {"redis", "memory"}
  /\ now = 0
  /\ \E t \in Txn : t.time = 0 /\ txn = [x \in Transactions |-> t]
  /\ pc = [x \in Transactions |-> "new"]
  /\ seen = [x \in Transactions |-> NoEvents]
  /\ hist = [k \in Entities |-> Empty]
  /\ marked = {}
  /\ expires = [k \in RedisKeys |-> 0]
  /\ recorded = {}
  /\ known = [x \in Transactions |-> NoEvents]
  /\ readAt = [x \in Transactions |-> 0]

Goto(x, from, to) == pc[x] \in from /\ pc' = [pc EXCEPT ![x] = to]
-----------------------------------------------------------------------------
(* build_feature_row keeps the events strictly before the transaction, and  *)
(* counts and sums those of a window.                                       *)
Prior(S, x) == {e \in S : txn[e].time < txn[x].time}
InWindow(S, x) == {e \in Prior(S, x) : txn[e].time + Window > txn[x].time}

(* build_offline_features adds a group of equal timestamps to the histories *)
(* once all of it is transformed, and never removes an event.               *)
OfflineCustomer(S, x) == {e \in Prior(S, x) : txn[e].customer = txn[x].customer}
OfflineCard(S, x) == {e \in Prior(S, x) : txn[e].card = txn[x].card}

(* score is called with an event that has happened, up to the clocks' skew; *)
(* the schema itself accepts any timestamp.                                 *)
Arrive(x) ==
  /\ Goto(x, {"new"}, "customer")
  /\ \E t \in Txn : t.time <= now + Skew /\ txn' = [txn EXCEPT ![x] = t]
  /\ UNCHANGED <<kind, now, seen, store, recorded, known, readAt>>

(* Two ZRANGEBYSCORE, each awaited, up to but excluding the timestamp.      *)
(* After the second nothing here changes until persist commits the decision *)
(* with its feature snapshot and outbox event.                              *)
ReadCustomer(x) ==
  /\ kind = "redis"
  /\ Goto(x, {"customer"}, "card")
  /\ seen' = [seen EXCEPT ![x].customer = Prior(Events(txn[x].customer), x)]
  /\ known' = [known EXCEPT ![x].customer = recorded]
  /\ UNCHANGED <<kind, now, txn, store, recorded, readAt>>

ReadCard(x) ==
  /\ Goto(x, {"card"}, "scored")
  /\ seen' = [seen EXCEPT ![x].card = Prior(Events(txn[x].card), x)]
  /\ known' = [known EXCEPT ![x].card = recorded]
  /\ readAt' = [readAt EXCEPT ![x] = now]
  /\ UNCHANGED <<kind, now, txn, store, recorded>>

(* The in-memory store returns both lists without suspending.               *)
ReadMemory(x) ==
  /\ kind = "memory"
  /\ Goto(x, {"customer"}, "scored")
  /\ seen' = [seen EXCEPT ![x] = [customer |-> Events(txn[x].customer),
                                  card |-> Events(txn[x].card)]]
  /\ known' = [known EXCEPT ![x] = [customer |-> recorded, card |-> recorded]]
  /\ readAt' = [readAt EXCEPT ![x] = now]
  /\ UNCHANGED <<kind, now, txn, store, recorded>>
-----------------------------------------------------------------------------
(* Mutant of Outdated: the cut-off is one unit late.                        *)
OutdatedEarly(e, x) == txn[e].time + Retention <= txn[x].time + 1

(* ZREMRANGEBYSCORE: eight days before the event itself, inclusive.         *)
Outdated(e, x) == txn[e].time + Retention <= txn[x].time

(* Mutant of Added: the payload is different each time.                     *)
AddedAfresh(k, x) ==
  [e \in Transactions |-> IF Outdated(e, x) THEN 0
                          ELSE IF e = x THEN hist[k][e] + 1 ELSE hist[k][e]]

(* ZADD of a payload that is the same each time, then the pruning.          *)
Added(k, x) ==
  [e \in Transactions |-> IF Outdated(e, x) THEN 0 ELSE IF e = x THEN 1 ELSE hist[k][e]]

(* Mutant of Deadline: EXPIRE is given another unit.                        *)
DeadlineInMinutes == now + 60 * Retention

Deadline == now + Retention

(* Mutant of RecordRedis: the life of a history is not renewed.             *)
RecordWithoutRenewal(x) ==
  IF x \in marked THEN UNCHANGED store
  ELSE /\ marked' = marked \cup {x}
       /\ hist' = [k \in Entities |-> IF k \in EntitiesOf(x) THEN Added(k, x) ELSE hist[k]]
       /\ expires' = [k \in RedisKeys |-> IF k \in EntitiesOf(x) \cup {x} /\ expires[k] <= now
                                          THEN Deadline ELSE expires[k]]

(* The Lua script.                                                          *)
RecordRedis(x) ==
  IF x \in marked THEN UNCHANGED store
  ELSE /\ marked' = marked \cup {x}
       /\ hist' = [k \in Entities |-> IF k \in EntitiesOf(x) THEN Added(k, x) ELSE hist[k]]
       /\ expires' = [k \in RedisKeys |-> IF k \in EntitiesOf(x) \cup {x} THEN Deadline
                                          ELSE expires[k]]

(* Two Python lists, appended to.                                           *)
RecordMemory(x) ==
  IF x \in marked THEN UNCHANGED store
  ELSE /\ marked' = marked \cup {x}
       /\ hist' = [k \in Entities |-> IF k \in EntitiesOf(x) THEN [hist[k] EXCEPT ![x] = @ + 1]
                                      ELSE hist[k]]
       /\ UNCHANGED expires

(* The model drops the context of the requests in S: nothing reads it again. *)
Forget(S) ==
  /\ seen' = [x \in Transactions |-> IF x \in S THEN NoEvents ELSE seen[x]]
  /\ known' = [x \in Transactions |-> IF x \in S THEN NoEvents ELSE known[x]]
  /\ readAt' = [x \in Transactions |-> IF x \in S THEN 0 ELSE readAt[x]]

(* A runner of the outbox applies the event.  If the reply or a later step  *)
(* of the runner fails, the event is deferred and applied again.            *)
RecordIfAbsent(x) ==
  /\ Goto(x, {"scored", "deferred"}, "processed") \/ Goto(x, {"scored", "deferred"}, "deferred")
  /\ IF kind = "redis" THEN RecordRedis(x) ELSE RecordMemory(x)
  /\ recorded' = recorded \cup {x}
  /\ Forget({x})
  /\ UNCHANGED <<kind, now, txn>>

(* The API process dies.  Requests without a decision may be repeated;      *)
(* Redis lives on, a store in memory is empty again.                        *)
Restart ==
  LET dead == {x \in Transactions : pc[x] \in {"customer", "card"}}
  IN /\ pc' = [x \in Transactions |-> IF x \in dead THEN "new" ELSE pc[x]]
     /\ Forget(dead)
     /\ IF kind = "redis" THEN UNCHANGED <<store, recorded>>
        ELSE /\ hist' = [k \in Entities |-> Empty]
             /\ marked' = {}
             /\ recorded' = {}
             /\ UNCHANGED expires
     /\ UNCHANGED <<kind, now, txn>>

(* Time passes, and Redis drops what has expired.                           *)
Expired(k) == kind = "redis" /\ expires[k] <= now + 1

Tick ==
  /\ now < MaxTime
  /\ now' = now + 1
  /\ hist' = [k \in Entities |-> IF Expired(k) THEN Empty ELSE hist[k]]
  /\ marked' = {x \in marked : ~Expired(x)}
  /\ UNCHANGED <<kind, requests, expires, recorded>>

Score(x) == Arrive(x) \/ ReadCustomer(x) \/ ReadCard(x) \/ ReadMemory(x)

Next == \/ \E x \in Transactions : Score(x) \/ RecordIfAbsent(x)
        \/ Restart \/ Tick

Spec == Init /\ [][Next]_vars
-----------------------------------------------------------------------------
Contexts == [customer: SUBSET Transactions, card: SUBSET Transactions]

(* The store and the requests have the shapes the code gives them.          *)
TypeOK ==
  /\ kind \in {"redis", "memory"}
  /\ now \in 0..MaxTime
  /\ txn \in [Transactions -> Txn]
  /\ pc \in [Transactions -> {"new", "customer", "card", "scored", "deferred", "processed"}]
  /\ seen \in [Transactions -> Contexts]
  /\ hist \in [Entities -> [Transactions -> Nat]]
  /\ marked \subseteq Transactions
  /\ expires \in [RedisKeys -> 0..now + Retention]
  /\ recorded \subseteq Transactions
  /\ known \in [Transactions -> Contexts]
  /\ readAt \in [Transactions -> 0..now]

Scored(x) == pc[x] = "scored"

(* The context was read so soon after the event that no pruning, by newer   *)
(* events or by age, can have reached into its windows.                     *)
Punctual(x) == readAt[x] + Skew + Window <= txn[x].time + Retention

(* The windowed features a punctual transaction is scored with are those    *)
(* that build_offline_features computes from the events recorded so far.    *)
WindowParity ==
  \A x \in Transactions : Scored(x) /\ Punctual(x) =>
    /\ InWindow(seen[x].customer, x) = InWindow(OfflineCustomer(known[x].customer, x), x)
    /\ InWindow(seen[x].card, x) = InWindow(OfflineCard(known[x].card, x), x)

(* Event e was too young for any pruning when the context of x was read.    *)
Young(e, x) == readAt[x] + Skew < txn[e].time + Retention

(* Over whatever history, what serving sees of the young events, and so every *)
(* feature as long as there are no others, is what training would: pruning   *)
(* by newer events and the expiry of whole histories forget nothing else.    *)
HistoryParity ==
  \A x \in Transactions : Scored(x) => \A e \in Transactions : Young(e, x) =>
    /\ e \in Prior(seen[x].customer, x) <=> e \in OfflineCustomer(known[x].customer, x)
    /\ e \in Prior(seen[x].card, x) <=> e \in OfflineCard(known[x].card, x)

(* However often the outbox applies an event, also after its marker has     *)
(* expired, no history counts it twice.                                     *)
CountedOnce == \A k \in Entities : \A e \in Transactions : hist[k][e] <= 1

(* The two reads of a context are not atomic, but the history of the card   *)
(* is never older than that of the customer.                                *)
CardNotBehind ==
  \A x \in Transactions : Scored(x) /\ Punctual(x) =>
    \A e \in InWindow(seen[x].customer, x) : txn[e].card = txn[x].card => e \in seen[x].card
=============================================================================
