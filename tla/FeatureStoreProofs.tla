-------------------------- MODULE FeatureStoreProofs --------------------------
(***************************************************************************)
(* Proofs about module FeatureStore for any number of transactions,         *)
(* customers and cards, any skew of the clients' clocks, and any window no  *)
(* longer than the retention.                                               *)
(***************************************************************************)
EXTENDS FeatureStore, TLAPS

(* An event older than any pruning can spare.                               *)
TooOld(e, at) == kind = "redis" /\ txn[e].time + Retention <= at + Skew

(* Events have happened when they arrive, and are recorded once scored.     *)
Recorded ==
  /\ \A x \in Transactions : pc[x] # "new" => txn[x].time <= now + Skew
  /\ \A x \in recorded : pc[x] \in {"deferred", "processed"}
  /\ marked \subseteq recorded

(* A history holds recorded events of its entity, all of them but those too *)
(* old, and lives for Retention after the newest of them was written.       *)
Histories ==
  /\ \A k \in Entities : \A e \in Transactions :
       hist[k][e] > 0 => /\ e \in recorded /\ k \in EntitiesOf(e)
                         /\ kind = "redis" => txn[e].time + Retention <= expires[k] + Skew
                         /\ kind = "memory" => e \in marked
  /\ \A e \in recorded : \A k \in EntitiesOf(e) : hist[k][e] > 0 \/ TooOld(e, now)

(* What was known when a request read its context had been recorded, and    *)
(* what it did not see of it was too old then.                              *)
CustomerContext(x) ==
  pc[x] \in {"card", "scored"} =>
    /\ \A e \in known[x].customer : pc[e] \in {"deferred", "processed"}
    /\ \A e \in seen[x].customer :
         e \in known[x].customer /\ txn[e].customer = txn[x].customer
    /\ \A e \in OfflineCustomer(known[x].customer, x) :
         e \in seen[x].customer \/ TooOld(e, IF pc[x] = "card" THEN now ELSE readAt[x])

CardContext(x) ==
  /\ pc[x] = "card" => kind = "redis" /\ known[x].customer \subseteq recorded
  /\ pc[x] = "scored" =>
       /\ known[x].customer \subseteq known[x].card
       /\ \A e \in known[x].card : pc[e] \in {"deferred", "processed"}
       /\ \A e \in seen[x].card : e \in known[x].card /\ txn[e].card = txn[x].card
       /\ \A e \in OfflineCard(known[x].card, x) :
            e \in seen[x].card \/ TooOld(e, readAt[x])

IInv ==
  /\ TypeOK
  /\ Recorded
  /\ CountedOnce
  /\ Histories
  /\ \A x \in Transactions : CustomerContext(x) /\ CardContext(x)
-----------------------------------------------------------------------------
LEMMA InitInvariant == Init => IInv
<1> SUFFICES ASSUME Init PROVE IInv
  OBVIOUS
<1> USE NamesAssumption, TimesAssumption DEF Init
<1>1. TypeOK
  <2>1. hist \in [Entities -> [Transactions -> Nat]]
    BY DEF Empty
  <2>2. seen \in [Transactions -> Contexts] /\ known \in [Transactions -> Contexts]
    BY DEF NoEvents, Contexts
  <2> QED
    BY <2>1, <2>2 DEF TypeOK
<1>2. Recorded /\ CountedOnce /\ Histories
  BY DEF Recorded, CountedOnce, Histories, Empty
<1>3. \A x \in Transactions : CustomerContext(x) /\ CardContext(x)
  BY DEF CustomerContext, CardContext
<1> QED
  BY <1>1, <1>2, <1>3 DEF IInv

(* Whom a step concerns.                                                    *)
LEMMA StepKinds ==
  ASSUME Next
  PROVE  \/ \E x \in Transactions : \/ Arrive(x) \/ ReadCustomer(x) \/ ReadCard(x)
                                    \/ ReadMemory(x) \/ RecordIfAbsent(x)
         \/ Restart \/ Tick
BY DEF Next, Score

(* What record_if_absent does to the histories.                             *)
LEMMA RecordEffect ==
  ASSUME TypeOK, NEW x \in Transactions, RecordIfAbsent(x)
  PROVE  /\ hist' \in [Entities -> [Transactions -> Nat]]
         /\ marked' = marked \cup {x}
         /\ \A k \in RedisKeys : \/ expires'[k] = expires[k]
                                 \/ kind = "redis" /\ expires'[k] = now + Retention
         /\ expires' \in [RedisKeys -> 0..now + Retention]
         /\ \A k \in Entities : \A e \in Transactions :
              /\ hist'[k][e] > 0 => \/ hist[k][e] > 0 /\ expires'[k] = expires[k]
                                    \/ hist[k][e] > 0 /\ kind = "redis" /\ expires'[k] = now + Retention
                                    \/ /\ e = x /\ k \in EntitiesOf(x)
                                       /\ kind = "redis" => expires'[k] = now + Retention
              /\ hist[k][e] > 0 /\ ~(hist'[k][e] > 0) =>
                   kind = "redis" /\ txn[e].time + Retention <= txn[x].time
              /\ hist[k][e] <= 1 /\ (kind = "memory" /\ hist[k][e] > 0 => e \in marked)
                   => hist'[k][e] <= 1
              /\ e = x /\ k \in EntitiesOf(x) /\ x \notin marked => hist'[k][e] > 0
<1> USE TimesAssumption DEF TypeOK, Txn
<1>1. CASE x \in marked
  BY <1>1 DEF RecordIfAbsent, RecordRedis, RecordMemory, store
<1>2. CASE x \notin marked /\ kind = "redis"
  <2>1. /\ marked' = marked \cup {x}
        /\ hist' = [k \in Entities |-> IF k \in EntitiesOf(x) THEN Added(k, x) ELSE hist[k]]
        /\ expires' = [k \in RedisKeys |-> IF k \in EntitiesOf(x) \cup {x} THEN now + Retention
                                           ELSE expires[k]]
    BY <1>2 DEF RecordIfAbsent, RecordRedis, Deadline
  <2>2. \A k \in Entities : Added(k, x) \in [Transactions -> Nat]
    BY DEF Added
  <2>3. ~Outdated(x, x)
    BY DEF Outdated
  <2>4. \A k \in Entities : \A e \in Transactions :
          hist'[k][e] = IF k \notin EntitiesOf(x) THEN hist[k][e]
                        ELSE IF Outdated(e, x) THEN 0 ELSE IF e = x THEN 1 ELSE hist[k][e]
    BY <2>1 DEF Added
  <2>5. hist' \in [Entities -> [Transactions -> Nat]]
    BY <2>1, <2>2
  <2>6. Entities \subseteq RedisKeys
    BY DEF RedisKeys
  <2> QED
    BY <1>2, <2>1, <2>3, <2>4, <2>5, <2>6 DEF Outdated
<1>3. CASE x \notin marked /\ kind = "memory"
  <2>1. /\ marked' = marked \cup {x}
        /\ hist' = [k \in Entities |-> IF k \in EntitiesOf(x) THEN [hist[k] EXCEPT ![x] = @ + 1]
                                       ELSE hist[k]]
        /\ expires' = expires
    BY <1>3 DEF RecordIfAbsent, RecordMemory
  <2>2. \A k \in Entities : \A e \in Transactions :
          hist'[k][e] = IF k \in EntitiesOf(x) /\ e = x THEN hist[k][e] + 1 ELSE hist[k][e]
    BY <2>1
  <2>3. \A k \in Entities : [hist[k] EXCEPT ![x] = @ + 1] \in [Transactions -> Nat]
    OBVIOUS
  <2>4. hist' \in [Entities -> [Transactions -> Nat]]
    BY <2>1, <2>3
  <2> QED
    BY <1>3, <2>1, <2>2, <2>4
<1> QED
  BY <1>1, <1>2, <1>3

LEMMA TypeCorrect == ASSUME TypeOK, Next PROVE TypeOK'
<1> USE NamesAssumption, TimesAssumption DEF TypeOK, Goto
<1>1. ASSUME NEW x \in Transactions, Arrive(x) PROVE TypeOK'
  BY <1>1 DEF Arrive, store
<1>2. ASSUME NEW x \in Transactions, ReadCustomer(x) PROVE TypeOK'
  <2>1. Prior(Events(txn[x].customer), x) \subseteq Transactions
    BY DEF Prior, Events
  <2>2. \A c \in Contexts : \A S \in SUBSET Transactions :
          [c EXCEPT !.customer = S] \in Contexts
    BY DEF Contexts
  <2>3. seen' \in [Transactions -> Contexts] /\ known' \in [Transactions -> Contexts]
    BY <1>2, <2>1, <2>2 DEF ReadCustomer
  <2> QED
    BY <1>2, <2>3 DEF ReadCustomer, store
<1>3. ASSUME NEW x \in Transactions, ReadCard(x) PROVE TypeOK'
  <2>1. Prior(Events(txn[x].card), x) \subseteq Transactions
    BY DEF Prior, Events
  <2>2. \A c \in Contexts : \A S \in SUBSET Transactions : [c EXCEPT !.card = S] \in Contexts
    BY DEF Contexts
  <2>3. seen' \in [Transactions -> Contexts] /\ known' \in [Transactions -> Contexts]
    BY <1>3, <2>1, <2>2 DEF ReadCard
  <2> QED
    BY <1>3, <2>3 DEF ReadCard, store
<1>4. ASSUME NEW x \in Transactions, ReadMemory(x) PROVE TypeOK'
  BY <1>4 DEF ReadMemory, store, Prior, Events, Contexts
<1>5. ASSUME NEW x \in Transactions, RecordIfAbsent(x) PROVE TypeOK'
  BY <1>5, RecordEffect DEF RecordIfAbsent, Forget, NoEvents, Contexts
<1>6. CASE Restart
  BY <1>6 DEF Restart, Forget, NoEvents, Contexts, store, Empty
<1>7. CASE Tick
  BY <1>7 DEF Tick, requests, Empty
<1> QED
  BY <1>1, <1>2, <1>3, <1>4, <1>5, <1>6, <1>7, StepKinds
-----------------------------------------------------------------------------
LEMMA StepRecorded == ASSUME IInv, Next PROVE Recorded'
<1> USE TimesAssumption DEF IInv, TypeOK, Txn, Recorded, Goto
<1>1. ASSUME NEW x \in Transactions, Arrive(x) PROVE Recorded'
  BY <1>1 DEF Arrive, store
<1>2. ASSUME NEW x \in Transactions, ReadCustomer(x) \/ ReadCard(x) \/ ReadMemory(x)
      PROVE  Recorded'
  BY <1>2 DEF ReadCustomer, ReadCard, ReadMemory, store
<1>3. ASSUME NEW x \in Transactions, RecordIfAbsent(x) PROVE Recorded'
  <2>1. /\ UNCHANGED <<now, txn>> /\ recorded' = recorded \cup {x}
        /\ pc[x] # "new" /\ pc'[x] \in {"deferred", "processed"}
        /\ \A y \in Transactions \ {x} : pc'[y] = pc[y]
    BY <1>3 DEF RecordIfAbsent
  <2>2. marked' = marked \cup {x}
    BY <1>3, RecordEffect
  <2> QED
    BY <2>1, <2>2
<1>4. CASE Restart
  BY <1>4 DEF Restart, store
<1>5. CASE Tick
  BY <1>5 DEF Tick, requests
<1> QED
  BY <1>1, <1>2, <1>3, <1>4, <1>5, StepKinds

LEMMA StepHistories == ASSUME IInv, Next PROVE CountedOnce' /\ Histories'
<1> USE NamesAssumption, TimesAssumption
<1>1. ASSUME NEW x \in Transactions,
             Arrive(x) \/ ReadCustomer(x) \/ ReadCard(x) \/ ReadMemory(x)
      PROVE  CountedOnce' /\ Histories'
  <2>1. UNCHANGED <<kind, now, store, recorded>>
    BY <1>1 DEF Arrive, ReadCustomer, ReadCard, ReadMemory
  <2>2. \A e \in recorded : txn'[e] = txn[e]
    BY <1>1 DEF Arrive, ReadCustomer, ReadCard, ReadMemory, IInv, TypeOK, Recorded, Goto
  <2> QED
    BY <2>1, <2>2 DEF IInv, TypeOK, CountedOnce, Histories, TooOld, EntitiesOf, store
<1>2. ASSUME NEW x \in Transactions, RecordIfAbsent(x) PROVE CountedOnce' /\ Histories'
  <2>1. UNCHANGED <<kind, now, txn>> /\ recorded' = recorded \cup {x} /\ pc[x] # "new"
    BY <1>2 DEF RecordIfAbsent, Goto
  <2>2. CountedOnce'
    BY <1>2, RecordEffect DEF IInv, TypeOK, CountedOnce, Histories
  <2>3. ASSUME NEW k \in Entities, NEW e \in Transactions, hist'[k][e] > 0
        PROVE  /\ e \in recorded' /\ k \in EntitiesOf(e)'
               /\ kind' = "redis" => txn'[e].time + Retention <= expires'[k] + Skew
               /\ kind' = "memory" => e \in marked'
    <3>1. txn[e].time \in Nat /\ expires[k] \in Nat /\ now \in Nat
      BY DEF IInv, TypeOK, Txn, RedisKeys
    <3>2. e \in recorded \/ e = x => txn[e].time <= now + Skew
      BY <2>1 DEF IInv, Recorded, TypeOK
    <3>3. hist[k][e] > 0 \/ (e = x /\ k \in EntitiesOf(x))
      BY <1>2, <2>3, RecordEffect DEF IInv
    <3>4. kind = "redis" => \/ hist[k][e] > 0 /\ expires'[k] = expires[k]
                            \/ expires'[k] = now + Retention
      BY <1>2, <2>3, RecordEffect DEF IInv
    <3>5. hist[k][e] > 0 => /\ e \in recorded /\ k \in EntitiesOf(e)
                            /\ kind = "redis" => txn[e].time + Retention <= expires[k] + Skew
                            /\ kind = "memory" => e \in marked
      BY DEF IInv, Histories
    <3>6. marked' = marked \cup {x}
      BY <1>2, RecordEffect DEF IInv
    <3>7. kind = "redis" => txn[e].time + Retention <= expires'[k] + Skew
      BY <3>1, <3>2, <3>3, <3>4, <3>5
    <3> QED
      BY <2>1, <3>3, <3>5, <3>6, <3>7 DEF EntitiesOf
  <2>4. ASSUME NEW e \in recorded', NEW k \in EntitiesOf(e)'
        PROVE  hist'[k][e] > 0 \/ TooOld(e, now)'
    <3>1. e \in Transactions /\ k \in Entities /\ k \in EntitiesOf(e)
      BY <2>1 DEF IInv, TypeOK, Txn, EntitiesOf, Entities
    <3>2. txn[e].time \in Nat /\ txn[x].time \in Nat /\ now \in Nat /\ txn[x].time <= now + Skew
      BY <2>1, <3>1 DEF IInv, TypeOK, Txn, Recorded
    <3>3. CASE e \in recorded
      <4>1. hist[k][e] > 0 \/ TooOld(e, now)
        BY <3>1, <3>3 DEF IInv, Histories
      <4>2. hist[k][e] > 0 /\ ~(hist'[k][e] > 0) =>
              kind = "redis" /\ txn[e].time + Retention <= txn[x].time
        BY <1>2, <3>1, RecordEffect DEF IInv
      <4> QED
        BY <2>1, <3>2, <4>1, <4>2 DEF TooOld
    <3>4. CASE e \notin recorded
      <4>1. e = x /\ x \notin marked
        BY <2>1, <3>4 DEF IInv, Recorded
      <4> QED
        BY <1>2, <3>1, <4>1, RecordEffect DEF IInv
    <3> QED
      BY <3>3, <3>4
  <2> QED
    BY <2>2, <2>3, <2>4 DEF Histories
<1>3. CASE Restart
  <2>1. CASE kind = "redis"
    BY <1>3, <2>1 DEF Restart, store, IInv, CountedOnce, Histories, TooOld, EntitiesOf
  <2>2. CASE kind = "memory"
    BY <1>3, <2>2 DEF Restart, Empty, CountedOnce, Histories
  <2> QED
    BY <2>1, <2>2 DEF IInv, TypeOK
<1>4. CASE Tick
  <2> USE DEF IInv, TypeOK, Txn
  <2>1. /\ UNCHANGED <<kind, txn, expires, recorded>> /\ now' = now + 1
        /\ \A k \in Entities : hist'[k] = IF Expired(k) THEN Empty ELSE hist[k]
        /\ kind = "memory" => marked' = marked
    BY <1>4 DEF Tick, requests, Expired
  <2>2. \A k \in Entities : \A e \in Transactions :
          hist'[k][e] = IF Expired(k) THEN 0 ELSE hist[k][e]
    BY <2>1 DEF Empty
  <2>3. CountedOnce'
    BY <2>2 DEF CountedOnce
  <2>4. ASSUME NEW k \in Entities, NEW e \in Transactions, hist'[k][e] > 0
        PROVE  /\ e \in recorded' /\ k \in EntitiesOf(e)'
               /\ kind' = "redis" => txn'[e].time + Retention <= expires'[k] + Skew
               /\ kind' = "memory" => e \in marked'
    BY <2>1, <2>2, <2>4 DEF Histories, EntitiesOf
  <2>5. ASSUME NEW e \in recorded', NEW k \in EntitiesOf(e)'
        PROVE  hist'[k][e] > 0 \/ TooOld(e, now)'
    <3>1. e \in recorded /\ k \in Entities /\ k \in EntitiesOf(e) /\ k \in RedisKeys
      BY <2>1 DEF EntitiesOf, Entities, RedisKeys
    <3>2. txn[e].time \in Nat /\ expires[k] \in Nat /\ now \in Nat
      BY <3>1
    <3>3. hist[k][e] > 0 \/ TooOld(e, now)
      BY <3>1 DEF Histories
    <3>4. hist[k][e] > 0 /\ kind = "redis" => txn[e].time + Retention <= expires[k] + Skew
      BY <3>1 DEF Histories
    <3> QED
      BY <2>1, <2>2, <3>1, <3>2, <3>3, <3>4 DEF TooOld, Expired
  <2> QED
    BY <2>3, <2>4, <2>5 DEF Histories
<1> QED
  BY <1>1, <1>2, <1>3, <1>4, StepKinds

(* What is recorded when a context is read is in the histories, unless it   *)
(* is too old; what is in the histories was recorded.                       *)
LEMMA ReadEffect ==
  ASSUME IInv, NEW x \in Transactions
  PROVE  /\ \A e \in Events(txn[x].customer) :
              e \in recorded /\ txn[e].customer = txn[x].customer
         /\ \A e \in Events(txn[x].card) : e \in recorded /\ txn[e].card = txn[x].card
         /\ \A e \in OfflineCustomer(recorded, x) :
              e \in Prior(Events(txn[x].customer), x) \/ TooOld(e, now)
         /\ \A e \in OfflineCard(recorded, x) :
              e \in Prior(Events(txn[x].card), x) \/ TooOld(e, now)
<1>1. /\ txn[x].customer \in Customers /\ txn[x].card \in Cards
      /\ \A e \in Transactions : txn[e].customer \in Customers /\ txn[e].card \in Cards
      /\ recorded \subseteq Transactions
  BY DEF IInv, TypeOK, Txn
<1> QED
  BY <1>1, NamesAssumption
     DEF IInv, Histories, Prior, Events, EntitiesOf, Entities, OfflineCustomer, OfflineCard

(* A step that leaves request y alone, and recorded events as they are,     *)
(* leaves what is known of its context.                                     *)
LEMMA ContextsKept ==
  ASSUME IInv, NEW y \in Transactions,
         kind' = kind, now' >= now, now' \in Nat,
         \A e \in Transactions : pc[e] \in {"deferred", "processed"} =>
                                   txn'[e] = txn[e] /\ pc'[e] \in {"deferred", "processed"},
         txn'[y] = txn[y], pc'[y] = pc[y], seen'[y] = seen[y],
         known'[y] = known[y], readAt'[y] = readAt[y],
         kind = "redis" => recorded \subseteq recorded'
  PROVE  CustomerContext(y)' /\ CardContext(y)'
<1>1. /\ known[y].customer \subseteq Transactions /\ known[y].card \subseteq Transactions
      /\ seen[y].customer \subseteq Transactions /\ seen[y].card \subseteq Transactions
      /\ now \in Nat /\ Skew \in Nat /\ Retention \in Nat
      /\ \A e \in Transactions : txn[e].time \in Nat
  BY TimesAssumption DEF IInv, TypeOK, Contexts, Txn
<1>2. CustomerContext(y) /\ CardContext(y)
  BY DEF IInv
<1>3. CustomerContext(y)'
  BY <1>1, <1>2 DEF CustomerContext, OfflineCustomer, Prior, TooOld
<1>4. CardContext(y)'
  BY <1>1, <1>2 DEF CardContext, OfflineCard, Prior, TooOld
<1> QED
  BY <1>3, <1>4

LEMMA StepContexts ==
  ASSUME IInv, Next, NEW y \in Transactions PROVE CustomerContext(y)' /\ CardContext(y)'
<1> USE DEF Goto
<1>1. /\ pc \in [Transactions -> {"new", "customer", "card", "scored", "deferred", "processed"}]
      /\ txn \in [Transactions -> Txn] /\ recorded \subseteq Transactions /\ now \in Nat
      /\ seen \in [Transactions -> Contexts] /\ known \in [Transactions -> Contexts]
      /\ readAt \in [Transactions -> Nat]
  BY DEF IInv, TypeOK
<1>2. \A x \in Transactions : x \in recorded => pc[x] \in {"deferred", "processed"}
  BY DEF IInv, Recorded
<1>3. ASSUME NEW x \in Transactions, Arrive(x) PROVE CustomerContext(y)' /\ CardContext(y)'
  <2>1. CASE y # x
    BY <1>1, <1>3, <2>1, ContextsKept DEF Arrive
  <2>2. CASE y = x
    BY <1>1, <1>3, <2>2 DEF Arrive, CustomerContext, CardContext
  <2> QED
    BY <2>1, <2>2
<1>4. ASSUME NEW x \in Transactions, ReadCustomer(x)
      PROVE  CustomerContext(y)' /\ CardContext(y)'
  <2>1. CASE y # x
    BY <1>1, <1>4, <2>1, ContextsKept DEF ReadCustomer
  <2>2. CASE y = x
    <3>1. /\ pc'[x] = "card" /\ kind = "redis" /\ known'[x].customer = recorded
          /\ seen'[x].customer = Prior(Events(txn[x].customer), x)
          /\ UNCHANGED <<kind, now, txn, recorded>>
          /\ \A e \in recorded : pc'[e] = pc[e]
      BY <1>1, <1>2, <1>4 DEF ReadCustomer, Contexts
    <3>2. CustomerContext(x)'
      BY <1>1, <1>2, <3>1, ReadEffect DEF CustomerContext, OfflineCustomer, Prior, TooOld
    <3>3. CardContext(x)'
      BY <3>1 DEF CardContext
    <3> QED
      BY <2>2, <3>2, <3>3
  <2> QED
    BY <2>1, <2>2
<1>5. ASSUME NEW x \in Transactions, ReadCard(x) PROVE CustomerContext(y)' /\ CardContext(y)'
  <2>1. CASE y # x
    BY <1>1, <1>5, <2>1, ContextsKept DEF ReadCard
  <2>2. CASE y = x
    <3>1. /\ pc[x] = "card" /\ pc'[x] = "scored" /\ known'[x].card = recorded
          /\ seen'[x].card = Prior(Events(txn[x].card), x)
          /\ known'[x].customer = known[x].customer /\ seen'[x].customer = seen[x].customer
          /\ readAt'[x] = now /\ UNCHANGED <<kind, now, txn, recorded>>
          /\ \A e \in Transactions \ {x} : pc'[e] = pc[e]
      BY <1>1, <1>5 DEF ReadCard, Contexts
    <3>2. CustomerContext(x) /\ CardContext(x)
      BY DEF IInv
    <3>3. CustomerContext(x)'
      <4>1. \A e \in known[x].customer : e \in Transactions /\ e # x
        BY <1>1, <3>1, <3>2 DEF Contexts, CustomerContext
      <4> QED
        BY <3>1, <3>2, <4>1 DEF CustomerContext, OfflineCustomer, Prior, TooOld
    <3>4. CardContext(x)'
      BY <1>1, <1>2, <3>1, <3>2, ReadEffect DEF CardContext, OfflineCard, Prior, TooOld
    <3> QED
      BY <2>2, <3>3, <3>4
  <2> QED
    BY <2>1, <2>2
<1>6. ASSUME NEW x \in Transactions, ReadMemory(x) PROVE CustomerContext(y)' /\ CardContext(y)'
  <2>1. CASE y # x
    BY <1>1, <1>6, <2>1, ContextsKept DEF ReadMemory
  <2>2. CASE y = x
    <3>1. /\ pc'[x] = "scored" /\ known'[x].card = recorded /\ known'[x].customer = recorded
          /\ seen'[x].card = Events(txn[x].card) /\ seen'[x].customer = Events(txn[x].customer)
          /\ readAt'[x] = now /\ UNCHANGED <<kind, now, txn, recorded>>
          /\ \A e \in recorded : pc'[e] = pc[e]
      BY <1>1, <1>2, <1>6 DEF ReadMemory
    <3>2. CustomerContext(x)'
      BY <1>1, <1>2, <3>1, ReadEffect DEF CustomerContext, OfflineCustomer, Prior, TooOld
    <3>3. CardContext(x)'
      BY <1>1, <1>2, <3>1, ReadEffect DEF CardContext, OfflineCard, Prior, TooOld
    <3> QED
      BY <2>2, <3>2, <3>3
  <2> QED
    BY <2>1, <2>2
<1>7. ASSUME NEW x \in Transactions, RecordIfAbsent(x)
      PROVE  CustomerContext(y)' /\ CardContext(y)'
  <2>1. CASE y # x
    BY <1>1, <1>7, <2>1, ContextsKept DEF RecordIfAbsent, Forget
  <2>2. CASE y = x
    BY <1>1, <1>7, <2>2 DEF RecordIfAbsent, CustomerContext, CardContext
  <2> QED
    BY <2>1, <2>2
<1>8. CASE Restart
  <2>1. CASE pc[y] \in {"customer", "card"}
    BY <1>1, <1>8, <2>1 DEF Restart, CustomerContext, CardContext
  <2>2. CASE pc[y] \notin {"customer", "card"}
    BY <1>1, <1>8, <2>2, ContextsKept DEF Restart, Forget
  <2> QED
    BY <2>1, <2>2
<1>9. CASE Tick
  BY <1>1, <1>9, ContextsKept DEF Tick, requests
<1> QED
  BY <1>3, <1>4, <1>5, <1>6, <1>7, <1>8, <1>9, StepKinds
-----------------------------------------------------------------------------
(* Every reachable state satisfies the inductive invariant.                 *)
THEOREM Invariant == Spec => []IInv
<1>1. IInv /\ [Next]_vars => IInv'
  <2>1. ASSUME IInv, Next PROVE IInv'
    <3>1. TypeOK'
      BY <2>1, TypeCorrect DEF IInv
    <3> QED
      BY <2>1, <3>1, StepRecorded, StepHistories, StepContexts DEF IInv
  <2>2. ASSUME IInv, UNCHANGED vars PROVE IInv'
    BY <2>2
       DEF IInv, TypeOK, Recorded, CountedOnce, Histories, CustomerContext, CardContext, TooOld,
           EntitiesOf, OfflineCustomer, OfflineCard, Prior, vars, requests, store
  <2> QED
    BY <2>1, <2>2
<1> QED
  BY <1>1, InitInvariant, PTL DEF Spec

(* The store and the requests always have the shapes the code gives them.   *)
THEOREM TypeCorrectness == Spec => []TypeOK
BY Invariant, PTL DEF IInv

(* record_if_absent: however often an event is applied, also after its      *)
(* marker expired, no history counts it twice.                              *)
THEOREM NothingCountedTwice == Spec => []CountedOnce
BY Invariant, PTL DEF IInv

(* Serving forgets no event that is younger than the retention, so the        *)
(* features over the whole history too are those of training until the        *)
(* history outlives it.                                                       *)
THEOREM YoungHistoryIsWhole == Spec => []HistoryParity
<1>1. IInv => HistoryParity
  <2> SUFFICES ASSUME IInv, NEW x \in Transactions, Scored(x),
                      NEW e \in Transactions, Young(e, x)
               PROVE
    /\ e \in Prior(seen[x].customer, x) <=> e \in OfflineCustomer(known[x].customer, x)
    /\ e \in Prior(seen[x].card, x) <=> e \in OfflineCard(known[x].card, x)
    BY DEF HistoryParity
  <2>1. CustomerContext(x) /\ CardContext(x)
    BY DEF IInv
  <2>2. txn[e].time \in Nat /\ readAt[x] \in Nat
    BY TimesAssumption DEF IInv, TypeOK, Txn
  <2>3. ~TooOld(e, readAt[x])
    BY <2>2, TimesAssumption DEF Young, TooOld
  <2> QED
    BY <2>1, <2>3 DEF CustomerContext, CardContext, Scored, OfflineCustomer, OfflineCard, Prior
<1> QED
  BY <1>1, Invariant, PTL

(* What a punctual request did not see was not in a window.                 *)
LEMMA PunctualSees ==
  ASSUME IInv, NEW x \in Transactions, Scored(x), Punctual(x), NEW e \in Transactions,
         e \in InWindow(known[x].customer, x) \/ e \in InWindow(known[x].card, x)
  PROVE  ~TooOld(e, readAt[x])
<1>1. /\ txn[x].time \in Nat /\ txn[e].time \in Nat /\ readAt[x] \in Nat
      /\ txn[e].time + Window > txn[x].time
  BY TimesAssumption DEF IInv, TypeOK, Txn, InWindow
<1> QED
  BY <1>1, TimesAssumption DEF Punctual, TooOld

(* RedisFeatureStore.context and build_feature_row give a punctual          *)
(* transaction the windowed features that training computes.                *)
THEOREM OnlineIsOffline == Spec => []WindowParity
<1>1. ASSUME IInv, NEW x \in Transactions, Scored(x), Punctual(x)
      PROVE  /\ InWindow(seen[x].customer, x) = InWindow(OfflineCustomer(known[x].customer, x), x)
             /\ InWindow(seen[x].card, x) = InWindow(OfflineCard(known[x].card, x), x)
  <2>1. CustomerContext(x) /\ CardContext(x) /\ known[x].customer \subseteq Transactions
        /\ known[x].card \subseteq Transactions
    BY <1>1 DEF IInv, TypeOK, Contexts
  <2>2. InWindow(seen[x].customer, x) = InWindow(OfflineCustomer(known[x].customer, x), x)
    BY <1>1, <2>1, PunctualSees
       DEF CustomerContext, Scored, InWindow, Prior, OfflineCustomer
  <2>3. InWindow(seen[x].card, x) = InWindow(OfflineCard(known[x].card, x), x)
    BY <1>1, <2>1, PunctualSees DEF CardContext, Scored, InWindow, Prior, OfflineCard
  <2> QED
    BY <2>2, <2>3
<1>2. IInv => WindowParity
  BY <1>1 DEF WindowParity
<1> QED
  BY <1>2, Invariant, PTL

(* RedisFeatureStore.context reads the customer first: an event of both     *)
(* that it sees there, it sees on the card.                                 *)
THEOREM CardIsCurrent == Spec => []CardNotBehind
<1>1. ASSUME IInv, NEW x \in Transactions, Scored(x), Punctual(x),
             NEW e \in InWindow(seen[x].customer, x), txn[e].card = txn[x].card
      PROVE  e \in seen[x].card
  <2>1. CustomerContext(x) /\ CardContext(x) /\ known[x].card \subseteq Transactions
    BY <1>1 DEF IInv, TypeOK, Contexts
  <2>2. e \in known[x].card /\ e \in InWindow(known[x].card, x)
    BY <1>1, <2>1 DEF CustomerContext, CardContext, Scored, InWindow, Prior
  <2> QED
    BY <1>1, <2>1, <2>2, PunctualSees DEF CardContext, Scored, OfflineCard, InWindow, Prior
<1>2. IInv => CardNotBehind
  BY <1>1 DEF CardNotBehind
<1> QED
  BY <1>2, Invariant, PTL
=============================================================================
