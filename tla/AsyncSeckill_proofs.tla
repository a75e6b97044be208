------------------------ MODULE AsyncSeckill_proofs -------------------------
(***************************************************************************)
(* The inductive invariant of AsyncSeckill and what follows from it: first *)
(* types and AlwaysInv, what MySQL keeps whatever happens to Redis, then   *)
(* NoLossInv, what MySQL and Redis guarantee together as long as Redis     *)
(* loses nothing, each with one lemma per part of the invariant.           *)
(***************************************************************************)
EXTENDS AsyncSeckillInv, FiniteSetTheorems, TLAPS

USE DEF WriteSnapshot, sqlVars, stateVars, streamVars, enablerVars, workerVars,
        envVars

LEMMA InitType == Init => TypeOK
<1> SUFFICES ASSUME Init PROVE TypeOK
  OBVIOUS
<1>1. InitStock \in Nat
  BY StockAssumption
<1>2. erow \in [Enablers -> Row]
  BY DEF Init, Row
<1>3. /\ epc \in [Enablers -> {"idle", "prepare", "check", "activate"}]
      /\ admission \in [Users -> Nat]
      /\ wpc \in [Workers ->
                    {"claim", "read", "apply", "compensate", "ack"}]
      /\ batch \in [Workers -> SUBSET Event]
  BY DEF Init
<1>4. stateKey \in BOOLEAN /\ eventsKey \in BOOLEAN
  BY DEF Init
<1>5. /\ asyncState \in 0..2
      /\ nextId \in Nat \ {0}
      /\ {generation, capacity, rGeneration, rStock, rCapacity, now,
          faults, losses} \subseteq Nat
  BY DEF Init
<1> QED BY <1>1, <1>2, <1>3, <1>4, <1>5 DEF Init, TypeOK

LEMMA DropType ==
  ASSUME TypeOK, NEW w \in Workers, NEW e, Drop(w, e)
  PROVE  /\ batch' \in [Workers -> SUBSET Event]
         /\ wpc' \in [Workers ->
                       {"claim", "read", "apply", "compensate", "ack"}]
<1>1. batch[w] \ {e} \in SUBSET Event
  BY DEF TypeOK
<1>2. (IF batch[w] = {e} THEN "claim" ELSE "apply") \in {"claim", "apply"}
  OBVIOUS
<1> QED BY <1>1, <1>2 DEF Drop, TypeOK

LEMMA EnablerType ==
  ASSUME TypeOK, NEW e \in Enablers, EnablerStep(e)
  PROVE  TypeOK'
<1>1. CASE EnableStage(e)
  <2>1. erow' \in [Enablers -> Row]
    BY <1>1 DEF EnableStage, TypeOK, Row
  <2> QED BY <1>1, <2>1 DEF EnableStage, TypeOK
<1>2. CASE EnablePrepare(e)
  <2>1. erow[e].gen \in Nat /\ erow[e].cap \in Nat
    BY DEF TypeOK, Row
  <2> QED BY <1>2, <2>1 DEF EnablePrepare, TypeOK
<1>3. CASE EnableCheck(e)
  BY <1>3 DEF EnableCheck, TypeOK
<1>4. CASE EnableActivate(e)
  BY <1>4 DEF EnableActivate, TypeOK
<1>5. CASE EnableStop(e)
  BY <1>5 DEF EnableStop, TypeOK
<1> QED BY <1>1, <1>2, <1>3, <1>4, <1>5 DEF EnablerStep

LEMMA BuyerType ==
  ASSUME TypeOK, NEW u \in Users, BuyerStep(u)
  PROVE  TypeOK'
<1>1. CASE Place(u)
  BY <1>1 DEF Place, TypeOK, Order
<1>2. CASE AcceptRead(u)
  BY <1>2 DEF AcceptRead, TypeOK
<1>3. CASE AcceptReserve(u)
  <2>1. NewEvent(u) \in Event
    BY DEF NewEvent, Event, TypeOK
  <2> QED BY <1>3, <2>1 DEF AcceptReserve, Admissible, TypeOK
<1>4. CASE AcceptRefused(u)
  BY <1>4 DEF AcceptRefused, TypeOK
<1> QED BY <1>1, <1>2, <1>3, <1>4 DEF BuyerStep

LEMMA WorkerType ==
  ASSUME TypeOK, NEW w \in Workers, WorkerStep(w)
  PROVE  TypeOK'
<1>1. CASE \E S \in SUBSET pel : WorkerClaim(w, S)
  BY <1>1 DEF WorkerClaim, TypeOK
<1>2. CASE WorkerRead(w)
  BY <1>2 DEF WorkerRead, Deliver, FreshPrefix, TypeOK
<1>3. ASSUME NEW e \in batch[w], WorkerApply(w, e)
      PROVE  TypeOK'
  <2>1. e \in Event /\ e.user \in Users /\ e.id \in Nat
    BY DEF TypeOK, Event
  <2>2. CASE ApplyAgain(w, e)
    BY <1>3, <2>2 DEF WorkerApply, ApplyAgain, AfterApply, TypeOK
  <2>3. CASE ApplyCreated(w, e)
    <3>1. stock # 0
      BY <2>3 DEF ApplyCreated, Refusal
    <3>2. [user |-> e.user, event |-> e.id] \in Order
      BY <2>1 DEF Order
    <3>3. [event |-> e, status |-> "created", reason |-> ""] \in Result
      BY <2>1 DEF Result, Reason
    <3>4. AfterApply("created") \in {"compensate", "ack"}
      BY DEF AfterApply
    <3> QED
      <4>1. stock' = stock - 1 /\ stock \in Nat
        BY <2>3 DEF ApplyCreated, TypeOK
      <4>2. orders' \subseteq Order /\ results' \subseteq Result
        BY <2>3, <3>2, <3>3 DEF ApplyCreated, TypeOK
      <4>3. wpc' \in [Workers ->
                       {"claim", "read", "apply", "compensate", "ack"}]
        BY <2>3, <3>4 DEF ApplyCreated, TypeOK
      <4>4. stock' \in Nat
        BY <3>1, <4>1
      <4> QED BY <1>3, <4>2, <4>3, <4>4
      DEF WorkerApply, TypeOK
  <2>4. CASE ApplyFailed(w, e)
    <3>1. Refusal(e) \in Reason
      BY DEF Refusal, Reason
    <3>2. [event |-> e, status |-> "failed", reason |-> Refusal(e)] \in Result
      BY <2>1, <3>1 DEF Result
    <3>3. AfterApply("failed") \in {"compensate", "ack"}
      BY DEF AfterApply
    <3> QED
      BY <1>3, <2>4, <3>2, <3>3 DEF WorkerApply, ApplyFailed, TypeOK
  <2> QED BY <1>3, <2>2, <2>3, <2>4 DEF WorkerApply
<1>4. ASSUME NEW e \in batch[w], WorkerCompensate(w, e)
      PROVE  TypeOK'
  <2>1. e \in Event
    BY DEF TypeOK
  <2> QED BY <1>4, <2>1 DEF WorkerCompensate, TypeOK
<1>5. ASSUME NEW e \in batch[w], WorkerAck(w, e)
      PROVE  TypeOK'
  BY <1>5, DropType DEF WorkerAck, TypeOK
<1>6. ASSUME NEW e \in batch[w], WorkerRetain(w, e)
      PROVE  TypeOK'
  BY <1>6, DropType DEF WorkerRetain, TypeOK
<1>7. CASE WorkerCrash(w)
  BY <1>7 DEF WorkerCrash, TypeOK
<1>8. CASE WorkerReadFails(w)
  <2>1. fresh' \subseteq Event /\ pel' \subseteq Event
    BY <1>8 DEF WorkerReadFails, Deliver, FreshPrefix, TypeOK
  <2> QED BY <1>8, <2>1 DEF WorkerReadFails, TypeOK
<1> QED
  BY <1>1, <1>2, <1>3, <1>4, <1>5, <1>6, <1>7, <1>8
  DEF WorkerStep, WorkerProgress

LEMMA EnvironmentType ==
  ASSUME TypeOK, Environment
  PROVE  TypeOK'
<1>1. CASE Tick
  BY <1>1 DEF Tick, TypeOK
<1>2. ASSUME NEW u \in Users, DeleteUser(u)
      PROVE  TypeOK'
  BY <1>2 DEF DeleteUser, TypeOK
<1>3. CASE LoseState
  <2>1. stateKey' \in BOOLEAN
    BY <1>3 DEF LoseState
  <2>2. losses' \in Nat
    BY <1>3 DEF LoseState, TypeOK
  <2>3. /\ {rGeneration', rStock', rCapacity'} \subseteq Nat
        /\ buyers' \subseteq Event /\ compensated' \subseteq Event
    BY <1>3 DEF LoseState
  <2> QED BY <1>3, <2>1, <2>2, <2>3 DEF LoseState, TypeOK
<1>4. CASE LoseEvents
  <2>1. eventsKey' \in BOOLEAN
    BY <1>4 DEF LoseEvents
  <2>2. losses' \in Nat
    BY <1>4 DEF LoseEvents, TypeOK
  <2>3. stream' \subseteq Event /\ fresh' \subseteq Event /\ pel' \subseteq Event
    BY <1>4 DEF LoseEvents
  <2> QED BY <1>4, <2>1, <2>2, <2>3 DEF LoseEvents, TypeOK
<1> QED BY <1>1, <1>2, <1>3, <1>4 DEF Environment

\* Every variable keeps its type in every reachable state, for any number of
\* users, enablers and workers: in particular no stock counter of MySQL or
\* Redis ever goes below zero.
THEOREM TypeCorrect == Spec => []TypeOK
<1>1. TypeOK /\ [Next]_vars => TypeOK'
  <2> SUFFICES ASSUME TypeOK, [Next]_vars PROVE TypeOK'
    OBVIOUS
  <2>1. CASE UNCHANGED vars
    BY <2>1 DEF vars, TypeOK
  <2> QED
    BY <2>1, EnablerType, BuyerType, WorkerType, EnvironmentType DEF Next
<1> QED BY InitType, <1>1, PTL DEF Spec

-----------------------------------------------------------------------------
(* AlwaysInv: what holds even when Redis loses its keys. *)

LEMMA InitAlways == Init => AlwaysInv
<1> SUFFICES ASSUME Init PROVE AlwaysInv
  OBVIOUS
<1>1. SqlInv
  <2>1. Created = {} /\ orders = {} /\ results = {} /\ asyncState = 0
    BY DEF Init, Created
  <2>2. InitStock \in Nat
    BY StockAssumption
  <2>3. stock + Cardinality(orders) = InitStock
    BY <2>1, <2>2, FS_EmptySet DEF Init
  <2> QED
    BY <2>1, <2>3, FS_EmptySet
    DEF SqlInv, SqlFinite, OneOrderPerUser, OrdersFollowResults,
        SyncAndAsyncNeverMix
<1>2. IdsInv
  BY DEF Init, IdsInv, Seen
<1>3. RefundInv
  BY DEF Init, RefundInv, RefundsFollowFailures
<1> QED BY <1>1, <1>2, <1>3 DEF AlwaysInv

\* An event is created or failed exactly if some result says so.
LEMMA OutcomeOf ==
  /\ \A e : e \in Created <=> \E r \in results : r.status = "created" /\ r.event = e
  /\ \A e : e \in Failed <=> \E r \in results : r.status = "failed" /\ r.event = e
  BY DEF Created, Failed

LEMMA OutcomeOfNext ==
  /\ \A e : e \in Created' <=> \E r \in results' : r.status = "created" /\ r.event = e
  /\ \A e : e \in Failed' <=> \E r \in results' : r.status = "failed" /\ r.event = e
  BY DEF Created, Failed

\* One more result row, of an event e.
LEMMA CreatedResult ==
  ASSUME NEW e, NEW r, r.event = e, r.status = "created",
         results' = results \cup {r}
  PROVE  Created' = Created \cup {e} /\ Failed' = Failed
<1>1. \A x : x \in Created' <=> x \in Created \/ x = e
  BY OutcomeOf, OutcomeOfNext
<1>2. \A x : x \in Failed' <=> x \in Failed
  BY OutcomeOf, OutcomeOfNext
<1> QED BY <1>1, <1>2

LEMMA FailedResult ==
  ASSUME NEW e, NEW r, r.event = e, r.status = "failed",
         results' = results \cup {r}
  PROVE  Failed' = Failed \cup {e} /\ Created' = Created
<1>1. \A x : x \in Failed' <=> x \in Failed \/ x = e
  BY OutcomeOf, OutcomeOfNext
<1>2. \A x : x \in Created' <=> x \in Created
  BY OutcomeOf, OutcomeOfNext
<1> QED BY <1>1, <1>2

\* The SQL part depends on these variables only.
LEMMA SqlFrame ==
  ASSUME SqlInv, UNCHANGED <<stock, asyncState, orders, results>>
  PROVE  SqlInv'
  BY DEF SqlInv, SqlFinite, OneOrderPerUser, OrdersFollowResults, Created,
         SyncAndAsyncNeverMix

\* Adding one order and taking one unit, with the result that explains it.
LEMMA SqlOrder ==
  ASSUME TypeOK, SqlInv, NEW o \in Order, ~HasOrder(o.user),
         stock > 0, stock' = stock - 1, orders' = orders \cup {o}
  PROVE  /\ SqlFinite => IsFiniteSet(orders')
         /\ stock' + Cardinality(orders') = InitStock
         /\ OneOrderPerUser'
<1>1. o \notin orders
  BY DEF HasOrder
<1>2. IsFiniteSet(orders')
      /\ Cardinality(orders') = Cardinality(orders) + 1
  BY <1>1, FS_AddElement DEF SqlInv, SqlFinite
<1>3. Cardinality(orders) \in Nat /\ stock \in Nat
  BY FS_CardinalityType DEF SqlInv, SqlFinite, TypeOK
<1>4. stock' + Cardinality(orders') = InitStock
  BY <1>2, <1>3 DEF SqlInv
<1>5. OneOrderPerUser'
  BY DEF SqlInv, OneOrderPerUser, HasOrder
<1> QED BY <1>2, <1>4, <1>5

LEMMA SqlStep ==
  ASSUME TypeOK, SqlInv, [Next]_vars
  PROVE  SqlInv'
<1>1. ASSUME NEW u \in Users, Place(u)
      PROVE  SqlInv'
  <2> DEFINE o == [user |-> u, event |-> 0]
  <2>1. /\ o \in Order /\ o.user = u /\ o.event = 0
        /\ ~HasOrder(o.user) /\ stock > 0 /\ stock' = stock - 1
        /\ orders' = orders \cup {o} /\ results' = results
        /\ asyncState = 0 /\ asyncState' = 0
    BY <1>1 DEF Place, Order
  <2>2. SqlFinite' /\ stock' + Cardinality(orders') = InitStock
        /\ OneOrderPerUser'
    BY <2>1, SqlOrder DEF SqlInv, SqlFinite
  <2>3. Created' = Created
    BY <2>1 DEF Created
  <2>4. OrdersFollowResults'
    BY <2>1, <2>3 DEF SqlInv, OrdersFollowResults
  <2> QED
    BY <2>1, <2>2, <2>4 DEF SqlInv, SyncAndAsyncNeverMix
<1>2. ASSUME NEW e \in Enablers, EnableStage(e)
      PROVE  SqlInv'
  <2>1. UNCHANGED <<stock, orders, results>>
        /\ (asyncState' = asyncState \/ orders = {})
    BY <1>2 DEF EnableStage, NeverOrdered
  <2> QED
    BY <2>1 DEF SqlInv, SqlFinite, OneOrderPerUser, OrdersFollowResults,
                Created, SyncAndAsyncNeverMix
<1>3. ASSUME NEW e \in Enablers, EnableActivate(e)
      PROVE  SqlInv'
  <2>1. UNCHANGED <<stock, orders, results>> /\ asyncState # 0
    BY <1>3 DEF EnableActivate
  <2> QED
    BY <2>1 DEF SqlInv, SqlFinite, OneOrderPerUser, OrdersFollowResults,
                Created, SyncAndAsyncNeverMix
<1>4. ASSUME NEW w \in Workers, NEW e \in batch[w], WorkerApply(w, e)
      PROVE  SqlInv'
  <2>1. CASE ApplyAgain(w, e)
    BY <1>4, <2>1, SqlFrame DEF WorkerApply, ApplyAgain
  <2>2. CASE ApplyCreated(w, e)
    <3> DEFINE o == [user |-> e.user, event |-> e.id]
               r == [event |-> e, status |-> "created", reason |-> ""]
    <3>1. e \in Event /\ e.user \in Users /\ e.id \in Nat \ {0}
      BY DEF TypeOK, Event
    <3>2. stock # 0 /\ ~HasOrder(e.user)
      BY <2>2 DEF ApplyCreated, Refusal
    <3>3. /\ stock' = stock - 1
          /\ orders' = orders \cup {o}
          /\ results' = results \cup {r}
          /\ asyncState' = asyncState
      BY <1>4, <2>2 DEF WorkerApply, ApplyCreated
    <3>4. stock > 0
      BY <3>2 DEF TypeOK
    <3>5. o \in Order /\ o.user = e.user /\ o.event = e.id
      BY <3>1 DEF Order
    <3>6. IsFiniteSet(orders') /\ OneOrderPerUser'
          /\ stock' + Cardinality(orders') = InitStock
      BY <3>2, <3>3, <3>4, <3>5, SqlOrder DEF SqlInv
    <3>7. IsFiniteSet(results')
      BY <3>3, FS_AddElement DEF SqlInv, SqlFinite
    <3>8. Created' = Created \cup {e}
      <4>1. r.event = e /\ r.status = "created"
        OBVIOUS
      <4> HIDE DEF r
      <4> QED BY <3>3, <4>1, CreatedResult
    <3>9. OrdersFollowResults'
      <4>1. {x \in orders' : x.event # 0} = {x \in orders : x.event # 0} \cup {o}
        BY <3>1, <3>3, <3>5
      <4>2. {[user |-> f.user, event |-> f.id] : f \in Created'} =
              {[user |-> f.user, event |-> f.id] : f \in Created} \cup {o}
        BY <3>8
      <4> QED BY <4>1, <4>2 DEF SqlInv, OrdersFollowResults
    <3>10. SyncAndAsyncNeverMix'
      BY <3>1, <3>3, <3>5 DEF SqlInv, SyncAndAsyncNeverMix
    <3> QED
      BY <3>6, <3>7, <3>9, <3>10 DEF SqlInv, SqlFinite
  <2>3. CASE ApplyFailed(w, e)
    <3> DEFINE r == [event |-> e, status |-> "failed", reason |-> Refusal(e)]
    <3>1. UNCHANGED <<stock, orders, asyncState>>
          /\ results' = results \cup {r}
      BY <1>4, <2>3 DEF WorkerApply, ApplyFailed
    <3>2. IsFiniteSet(results')
      BY <3>1, FS_AddElement DEF SqlInv, SqlFinite
    <3>3. Created' = Created
      <4>1. r.event = e /\ r.status = "failed"
        OBVIOUS
      <4> HIDE DEF r
      <4> QED BY <3>1, <4>1, FailedResult
    <3> QED
      BY <3>1, <3>2, <3>3
      DEF SqlInv, SqlFinite, OneOrderPerUser, OrdersFollowResults,
          SyncAndAsyncNeverMix
  <2> QED BY <1>4, <2>1, <2>2, <2>3 DEF WorkerApply
<1>5. ASSUME UNCHANGED <<stock, asyncState, orders, results>>
      PROVE  SqlInv'
  BY <1>5, SqlFrame
<1>6. ASSUME NEW e \in Enablers, EnablerStep(e)
      PROVE  SqlInv'
  BY <1>2, <1>3, <1>5, <1>6
  DEF EnablerStep, EnablePrepare, EnableCheck, EnableStop
<1>7. ASSUME NEW u \in Users, BuyerStep(u)
      PROVE  SqlInv'
  BY <1>1, <1>5, <1>7
  DEF BuyerStep, AcceptRead, AcceptReserve, AcceptRefused
<1>8. ASSUME NEW w \in Workers, WorkerStep(w)
      PROVE  SqlInv'
  BY <1>4, <1>5, <1>8
  DEF WorkerStep, WorkerProgress, WorkerClaim, WorkerRead, WorkerReadFails,
      WorkerCompensate, WorkerAck, WorkerRetain, WorkerCrash
<1>9. CASE Environment
  BY <1>5, <1>9 DEF Environment, Tick, DeleteUser, LoseState, LoseEvents
<1>10. CASE UNCHANGED vars
  BY <1>5, <1>10 DEF vars
<1> QED BY <1>6, <1>7, <1>8, <1>9, <1>10 DEF Next

LEMMA SeenMembers ==
  /\ \A x : x \in Seen <=> x \in stream \/ \E w \in Workers : x \in batch[w]
  /\ \A x : x \in Seen' <=> x \in stream' \/ \E w \in Workers : x \in batch'[w]
  BY DEF Seen

\* No step but an admission brings a new event into play.
LEMMA IdsFrame ==
  ASSUME IdsInv, Seen' \subseteq Seen, nextId' = nextId,
         fresh' \subseteq stream', pel' \subseteq stream'
  PROVE  IdsInv'
  BY DEF IdsInv

LEMMA IdsStep ==
  ASSUME TypeOK, IdsInv, [Next]_vars
  PROVE  IdsInv'
<1>1. ASSUME NEW u \in Users, AcceptReserve(u)
      PROVE  IdsInv'
  <2> DEFINE n == NewEvent(u)
  <2>1. n.id = nextId
    BY DEF NewEvent
  <2> HIDE DEF n
  <2>2. /\ stream' = stream \cup {n} /\ fresh' = fresh \cup {n}
        /\ pel' = pel /\ batch' = batch /\ nextId' = nextId + 1
    BY <1>1 DEF AcceptReserve, n
  <2>3. \A x \in Seen' : x \in Seen \/ x = n
    BY <2>2, SeenMembers
  <2>4. \A x \in Seen : x \in Event /\ x.id \in Nat
    BY SeenMembers DEF TypeOK, Event
  <2>5. nextId \in Nat
    BY DEF TypeOK
  <2>6. \A x \in Seen' : x.id < nextId'
    BY <2>1, <2>2, <2>3, <2>4, <2>5 DEF IdsInv
  <2>7. \A x, y \in Seen' : x.id = y.id => x = y
    BY <2>1, <2>3, <2>4, <2>5 DEF IdsInv
  <2> QED BY <2>2, <2>6, <2>7 DEF IdsInv
<1>2. ASSUME NEW e \in Enablers, EnablePrepare(e)
      PROVE  IdsInv'
  <2>1. batch' = batch /\ nextId' = nextId
    BY <1>2 DEF EnablePrepare
  <2>2. \/ stream' = {} /\ fresh' = {} /\ pel' = {}
        \/ UNCHANGED <<stream, fresh, pel>>
    BY <1>2 DEF EnablePrepare
  <2>3. Seen' \subseteq Seen
    BY <2>1, <2>2, SeenMembers
  <2> QED BY <2>1, <2>2, <2>3, IdsFrame DEF IdsInv
<1>3. ASSUME NEW w \in Workers, NEW S \in SUBSET pel, WorkerClaim(w, S)
      PROVE  IdsInv'
  <2>1. /\ UNCHANGED <<stream, fresh, pel, nextId>>
        /\ batch' = [batch EXCEPT ![w] = S]
    BY <1>3 DEF WorkerClaim
  <2>2. S \subseteq stream
    BY DEF IdsInv
  <2>3. \A v \in Workers : batch'[v] \subseteq batch[v] \cup stream
    BY <2>1, <2>2 DEF TypeOK
  <2>4. Seen' \subseteq Seen
    BY <2>1, <2>3, SeenMembers
  <2> QED BY <2>1, <2>4, IdsFrame DEF IdsInv
<1>4. ASSUME NEW w \in Workers, WorkerRead(w)
      PROVE  IdsInv'
  <2>1. /\ UNCHANGED <<stream, nextId>>
        /\ batch' = [batch EXCEPT ![w] = batch[w] \cup FreshPrefix]
        /\ fresh' = fresh \ FreshPrefix
        /\ pel' = pel \cup FreshPrefix
    BY <1>4 DEF WorkerRead, Deliver
  <2>2. FreshPrefix \subseteq stream
    BY DEF FreshPrefix, IdsInv
  <2>3. \A v \in Workers : batch'[v] \subseteq batch[v] \cup stream
    BY <2>1, <2>2 DEF TypeOK
  <2>4. Seen' \subseteq Seen
    BY <2>1, <2>3, SeenMembers
  <2> QED BY <2>1, <2>2, <2>4, IdsFrame DEF IdsInv
<1>4a. ASSUME NEW w \in Workers, WorkerReadFails(w)
       PROVE  IdsInv'
  <2>1. /\ UNCHANGED <<stream, nextId, batch>>
        /\ fresh' \subseteq fresh
        /\ pel' \subseteq pel \cup FreshPrefix
    BY <1>4a DEF WorkerReadFails, Deliver
  <2>2. FreshPrefix \subseteq stream
    BY DEF FreshPrefix, IdsInv
  <2>3. Seen' = Seen
    BY <2>1 DEF Seen
  <2> QED BY <2>1, <2>2, <2>3, IdsFrame DEF IdsInv
<1>5. ASSUME NEW w \in Workers, NEW e, Drop(w, e),
             UNCHANGED <<stream, fresh, nextId>>, pel' \subseteq pel
      PROVE  IdsInv'
  <2>1. \A v \in Workers : batch'[v] \subseteq batch[v]
    BY <1>5 DEF Drop, TypeOK
  <2>2. Seen' \subseteq Seen
    BY <1>5, <2>1, SeenMembers
  <2> QED BY <1>5, <2>2, IdsFrame DEF IdsInv
<1>6. ASSUME NEW w \in Workers, WorkerCrash(w)
      PROVE  IdsInv'
  <2>1. UNCHANGED <<stream, fresh, pel, nextId>>
        /\ batch' = [batch EXCEPT ![w] = {}]
    BY <1>6 DEF WorkerCrash
  <2>2. \A v \in Workers : batch'[v] \subseteq batch[v]
    BY <2>1 DEF TypeOK
  <2>3. Seen' \subseteq Seen
    BY <2>1, <2>2, SeenMembers
  <2> QED BY <2>1, <2>3, IdsFrame DEF IdsInv
<1>7. CASE LoseEvents
  <2>1. /\ stream' = {} /\ fresh' = {} /\ pel' = {}
        /\ batch' = batch /\ nextId' = nextId
    BY <1>7 DEF LoseEvents
  <2>2. Seen' \subseteq Seen
    BY <2>1, SeenMembers
  <2> QED BY <2>1, <2>2, IdsFrame
<1>8. ASSUME UNCHANGED <<stream, fresh, pel, nextId, batch>>
      PROVE  IdsInv'
  BY <1>8 DEF IdsInv, Seen
<1>9. ASSUME NEW e \in Enablers, EnablerStep(e)
      PROVE  IdsInv'
  BY <1>2, <1>8, <1>9
  DEF EnablerStep, EnableStage, EnableCheck, EnableActivate, EnableStop
<1>10. ASSUME NEW u \in Users, BuyerStep(u)
       PROVE  IdsInv'
  BY <1>1, <1>8, <1>10 DEF BuyerStep, Place, AcceptRead, AcceptRefused
<1>11. ASSUME NEW w \in Workers, WorkerStep(w)
       PROVE  IdsInv'
  <2>1. ASSUME NEW e \in batch[w], WorkerAck(w, e) \/ WorkerRetain(w, e)
        PROVE  IdsInv'
    BY <1>5, <2>1 DEF WorkerAck, WorkerRetain
  <2>2. ASSUME NEW e \in batch[w], WorkerApply(w, e) \/ WorkerCompensate(w, e)
        PROVE  IdsInv'
    BY <1>8, <2>2 DEF WorkerApply, WorkerCompensate
  <2> QED
    BY <1>3, <1>4, <1>6, <1>11, <1>4a, <2>1, <2>2
    DEF WorkerStep, WorkerProgress
<1>12. CASE Environment
  BY <1>7, <1>8, <1>12 DEF Environment, Tick, DeleteUser, LoseState
<1>13. CASE UNCHANGED vars
  BY <1>8, <1>13 DEF vars
<1> QED BY <1>9, <1>10, <1>11, <1>12, <1>13 DEF Next

\* Results are only ever added.
LEMMA FailuresStay ==
  ASSUME TypeOK, [Next]_vars
  PROVE  results \subseteq results' /\ Failed \subseteq Failed'
         /\ Created \subseteq Created'
<1>1. ASSUME NEW w \in Workers, NEW e \in batch[w], WorkerApply(w, e)
      PROVE  results \subseteq results'
  BY <1>1 DEF WorkerApply, ApplyAgain, ApplyCreated, ApplyFailed
<1>2. results \subseteq results'
  <2>1. ASSUME NEW w \in Workers, WorkerStep(w)
        PROVE  results \subseteq results'
    BY <1>1, <2>1
    DEF WorkerStep, WorkerProgress, WorkerClaim, WorkerRead,
        WorkerReadFails, WorkerCompensate, WorkerAck, WorkerRetain, WorkerCrash
  <2>2. ASSUME NEW e \in Enablers, EnablerStep(e)
        PROVE  results' = results
    BY <2>2 DEF EnablerStep, EnableStage, EnablePrepare, EnableCheck,
                EnableActivate, EnableStop
  <2>3. ASSUME NEW u \in Users, BuyerStep(u)
        PROVE  results' = results
    BY <2>3 DEF BuyerStep, Place, AcceptRead, AcceptReserve, AcceptRefused
  <2>4. CASE Environment
    BY <2>4 DEF Environment, Tick, DeleteUser, LoseState, LoseEvents
  <2> QED BY <2>1, <2>2, <2>3, <2>4 DEF Next, vars
<1> QED BY <1>2, OutcomeOf, OutcomeOfNext

\* A worker continues with the event it began with.
LEMMA NextUnique ==
  ASSUME TypeOK, IdsInv, NEW w \in Workers, NEW e, NEW f,
         IsNext(w, e), IsNext(w, f)
  PROVE  e = f
<1>1. e \in batch[w] /\ f \in batch[w] /\ e.id <= f.id /\ f.id <= e.id
  BY DEF IsNext
<1>2. e.id \in Nat /\ f.id \in Nat
  BY <1>1 DEF TypeOK, Event
<1>3. e \in Seen /\ f \in Seen
  BY <1>1, SeenMembers
<1> QED BY <1>1, <1>2, <1>3 DEF IdsInv

\* A worker whose hands are unchanged has the same event next.
LEMMA NextFrame ==
  ASSUME NEW w, NEW e, batch'[w] = batch[w]
  PROVE  IsNext(w, e)' <=> IsNext(w, e)
  BY DEF IsNext

\* Which steps move a worker to "compensate" and to "ack".
LEMMA WorkerMoves ==
  ASSUME TypeOK, IdsInv, [Next]_vars, NEW w \in Workers,
         wpc'[w] \in {"compensate", "ack"}, NEW e, IsNext(w, e)'
  PROVE  \/ wpc'[w] = wpc[w] /\ IsNext(w, e)
         \/ /\ WorkerApply(w, e)
            /\ wpc'[w] = "compensate" => e \in Failed'
            /\ wpc'[w] = "ack" => e \in Created'
         \/ WorkerCompensate(w, e) /\ wpc'[w] = "ack"
<1> DEFINE Goal ==
             \/ wpc'[w] = wpc[w] /\ IsNext(w, e)
             \/ /\ WorkerApply(w, e)
                /\ wpc'[w] = "compensate" => e \in Failed'
                /\ wpc'[w] = "ack" => e \in Created'
             \/ WorkerCompensate(w, e) /\ wpc'[w] = "ack"
<1>1. ASSUME wpc'[w] = wpc[w], batch'[w] = batch[w]
      PROVE  Goal
  BY <1>1, NextFrame
<1>2. ASSUME UNCHANGED workerVars
      PROVE  Goal
  BY <1>1, <1>2
<1>3. ASSUME NEW f \in batch[w], WorkerApply(w, f)
      PROVE  Goal
  <2>1. batch' = batch /\ IsNext(w, f)
    BY <1>3 DEF WorkerApply
  <2>2. e = f
    BY <2>1, NextFrame, NextUnique
  <2>3. CASE ApplyAgain(w, f)
    <3>1. PICK r \in results : r.event = f /\
            wpc' = [wpc EXCEPT ![w] = AfterApply(r.status)] /\ results' = results
      BY <2>3 DEF ApplyAgain, ResultsOf
    <3>2. r.status \in {"created", "failed"}
      BY DEF TypeOK, Result
    <3>3. wpc'[w] = AfterApply(r.status)
      BY <3>1 DEF TypeOK
    <3>4. wpc'[w] = "compensate" => r.status = "failed"
      BY <3>3 DEF AfterApply
    <3>5. wpc'[w] = "ack" => r.status = "created"
      BY <3>2, <3>3 DEF AfterApply
    <3> QED BY <1>3, <2>2, <3>1, <3>4, <3>5, OutcomeOfNext
  <2>4. CASE ApplyCreated(w, f)
    <3> DEFINE r == [event |-> f, status |-> "created", reason |-> ""]
    <3>1. r \in results' /\ r.event = f /\ r.status = "created"
      BY <2>4 DEF ApplyCreated
    <3>2. wpc'[w] = "ack"
      BY <2>4 DEF ApplyCreated, AfterApply, TypeOK
    <3> QED BY <1>3, <2>2, <3>1, <3>2, OutcomeOfNext
  <2>5. CASE ApplyFailed(w, f)
    <3> DEFINE r == [event |-> f, status |-> "failed", reason |-> Refusal(f)]
    <3>1. r \in results' /\ r.event = f /\ r.status = "failed"
      BY <2>5 DEF ApplyFailed
    <3>2. wpc'[w] = "compensate"
      BY <2>5 DEF ApplyFailed, AfterApply, TypeOK
    <3> QED BY <1>3, <2>2, <3>1, <3>2, OutcomeOfNext
  <2> QED BY <1>3, <2>3, <2>4, <2>5 DEF WorkerApply
<1>4. ASSUME NEW f \in batch[w], WorkerCompensate(w, f)
      PROVE  Goal
  <2>1. batch' = batch /\ IsNext(w, f) /\ wpc'[w] = "ack"
    BY <1>4 DEF WorkerCompensate, TypeOK
  <2>2. e = f
    BY <2>1, NextFrame, NextUnique
  <2> QED BY <1>4, <2>1, <2>2
<1>5. ASSUME NEW v \in Workers, v # w, WorkerStep(v)
      PROVE  Goal
  <2>1. wpc'[w] = wpc[w] /\ batch'[w] = batch[w]
    BY <1>5
    DEF WorkerStep, WorkerProgress, WorkerClaim, WorkerRead, WorkerReadFails,
        WorkerApply, ApplyAgain, ApplyCreated, ApplyFailed, WorkerCompensate, WorkerAck,
        WorkerRetain, WorkerCrash, Drop, TypeOK
  <2> QED BY <1>1, <2>1
<1>6. CASE WorkerStep(w)
  <2>1. ASSUME wpc'[w] \in {"claim", "read", "apply"}
        PROVE  FALSE
    BY <2>1
  <2>2. ASSUME NEW S \in SUBSET pel, WorkerClaim(w, S)
        PROVE  FALSE
    BY <2>1, <2>2 DEF WorkerClaim, TypeOK
  <2>3. ASSUME WorkerRead(w) \/ WorkerReadFails(w)
        PROVE  FALSE
    BY <2>1, <2>3 DEF WorkerRead, WorkerReadFails, TypeOK
  <2>4. ASSUME NEW f \in batch[w], WorkerAck(w, f) \/ WorkerRetain(w, f)
        PROVE  FALSE
    BY <2>1, <2>4 DEF WorkerAck, WorkerRetain, Drop, TypeOK
  <2>5. ASSUME WorkerCrash(w)
        PROVE  FALSE
    BY <2>1, <2>5 DEF WorkerCrash, TypeOK
  <2> QED
    BY <1>3, <1>4, <1>6, <2>2, <2>3, <2>4, <2>5 DEF WorkerStep, WorkerProgress
<1>7. ASSUME NEW x \in Enablers, EnablerStep(x)
      PROVE  Goal
  BY <1>2, <1>7 DEF EnablerStep, EnableStage, EnablePrepare, EnableCheck,
                    EnableActivate, EnableStop
<1>8. ASSUME NEW u \in Users, BuyerStep(u)
      PROVE  Goal
  BY <1>2, <1>8 DEF BuyerStep, Place, AcceptRead, AcceptReserve, AcceptRefused
<1>9. CASE Environment
  BY <1>2, <1>9 DEF Environment, Tick, DeleteUser, LoseState, LoseEvents
<1>10. CASE UNCHANGED vars
  BY <1>2, <1>10 DEF vars
<1> QED BY <1>5, <1>6, <1>7, <1>8, <1>9, <1>10 DEF Next

\* The compensation script marks at most one more event, and its caller
\* holds a committed failure of it.
LEMMA CompensatedGrows ==
  ASSUME TypeOK, [Next]_vars
  PROVE  \/ compensated' \subseteq compensated
         \/ \E w \in Workers : \E e \in batch[w] :
               WorkerCompensate(w, e) /\ compensated' = compensated \cup {e}
<1>1. ASSUME NEW w \in Workers, WorkerStep(w)
      PROVE  \/ compensated' = compensated
             \/ \E e \in batch[w] :
                   WorkerCompensate(w, e) /\ compensated' = compensated \cup {e}
  <2>1. ASSUME NEW e \in batch[w], WorkerCompensate(w, e)
        PROVE  \/ compensated' = compensated
               \/ compensated' = compensated \cup {e}
    BY <2>1 DEF WorkerCompensate
  <2>2. ASSUME NEW e \in batch[w],
               WorkerApply(w, e) \/ WorkerAck(w, e) \/ WorkerRetain(w, e)
        PROVE  compensated' = compensated
    BY <2>2 DEF WorkerApply, WorkerAck, WorkerRetain
  <2> QED
    BY <1>1, <2>1, <2>2
    DEF WorkerStep, WorkerProgress, WorkerClaim, WorkerRead, WorkerReadFails,
        WorkerCrash
<1>2. ASSUME NEW e \in Enablers, EnablerStep(e)
      PROVE  compensated' \subseteq compensated
  BY <1>2 DEF EnablerStep, EnableStage, EnablePrepare, EnableCheck,
              EnableActivate, EnableStop
<1>3. ASSUME NEW u \in Users, BuyerStep(u)
      PROVE  compensated' = compensated
  BY <1>3 DEF BuyerStep, Place, AcceptRead, AcceptReserve, AcceptRefused
<1>4. CASE Environment
  BY <1>4 DEF Environment, Tick, DeleteUser, LoseState, LoseEvents
<1> QED BY <1>1, <1>2, <1>3, <1>4 DEF Next, vars

LEMMA RefundStep ==
  ASSUME TypeOK, IdsInv, RefundInv, [Next]_vars
  PROVE  RefundInv'
<1>1. RefundsFollowFailures'
  <2>1. ASSUME NEW w \in Workers, NEW e \in batch[w], WorkerCompensate(w, e)
        PROVE  e \in Failed
    BY <2>1 DEF WorkerCompensate, RefundInv
  <2> QED
    BY <2>1, CompensatedGrows, FailuresStay
    DEF RefundInv, RefundsFollowFailures
<1>2. ASSUME NEW w \in Workers, NEW e \in batch'[w],
             wpc'[w] = "compensate", IsNext(w, e)'
      PROVE  e \in Failed'
  <2>1. CASE wpc'[w] = wpc[w] /\ IsNext(w, e)
    BY <1>2, <2>1, FailuresStay DEF RefundInv, IsNext
  <2> QED BY <1>2, <2>1, WorkerMoves
<1> QED BY <1>1, <1>2 DEF RefundInv

LEMMA AlwaysStep ==
  ASSUME TypeOK, AlwaysInv, [Next]_vars
  PROVE  AlwaysInv'
  BY SqlStep, IdsStep, RefundStep DEF AlwaysInv

THEOREM AlwaysCorrect == Spec => []AlwaysInv
<1>1. TypeOK /\ AlwaysInv /\ [Next]_vars => AlwaysInv'
  BY AlwaysStep
<1> QED BY InitAlways, <1>1, TypeCorrect, PTL DEF Spec

\* MySQL keeps its books whatever happens to Redis and to the workers: no
\* oversell, no lost unit, one order per user, an asynchronous order exactly
\* for each created result (repository.AsyncOrder.Apply, service.Order.Place).
THEOREM OrdersAlwaysMatchStock == Spec => []OrdersMatchStock
<1>1. AlwaysInv => OrdersMatchStock
  BY DEF AlwaysInv, SqlInv, OrdersMatchStock, OneOrderPerUser,
         OrdersFollowResults
<1> QED BY <1>1, AlwaysCorrect, PTL

\* Synchronous and asynchronous orders of an activity never mix: Stage fences
\* the synchronous writer under the lock of the same row.
THEOREM ModesNeverMix == Spec => []SyncAndAsyncNeverMix
<1>1. AlwaysInv => SyncAndAsyncNeverMix
  BY DEF AlwaysInv, SqlInv
<1> QED BY <1>1, AlwaysCorrect, PTL

\* A unit returns to Redis only for a committed failure, also when several
\* workers hold the same delivery and Redis loses its keys in between.
THEOREM RefundsAlwaysFollowFailures == Spec => []RefundsFollowFailures
<1>1. AlwaysInv => RefundsFollowFailures
  BY DEF AlwaysInv, RefundInv
<1> QED BY <1>1, AlwaysCorrect, PTL

-----------------------------------------------------------------------------
(* NoLossInv: MySQL and Redis together.                                     *)

\* Where every step starts from.
Before == TypeOK /\ AlwaysInv /\ NoLossInv

\* Redis loses nothing, neither before the step nor in it.
Kept == [Next]_vars /\ losses' = 0

LEMMA InitNoLoss == Init => NoLossInv
<1> SUFFICES ASSUME Init PROVE NoLossInv
  OBVIOUS
<1>1. ModeInv
  BY DEF Init, ModeInv
<1>2. SnapshotInv
  BY DEF Init, SnapshotInv
<1>3. StreamInv
  BY FS_EmptySet DEF Init, StreamInv
<1>4. ResultInv
  BY DEF Init, ResultInv, Resolved, Created, Failed
<1>5. WorkerInv
  BY DEF Init, WorkerInv
<1>6. AckedInv
  BY DEF Init, AckedInv
<1>7. StockInv
  BY DEF Init, StockInv
<1> QED BY <1>1, <1>2, <1>3, <1>4, <1>5, <1>6, <1>7 DEF NoLossInv

\* Neither key is lost in a step that loses nothing.
LEMMA NothingLost ==
  ASSUME TypeOK, Kept, Environment
  PROVE  Tick \/ \E u \in Users : DeleteUser(u)
<1>1. ~LoseState /\ ~LoseEvents
  BY DEF Kept, LoseState, LoseEvents, TypeOK
<1> QED BY <1>1 DEF Environment

\* Until an activity is open there is nothing to process.
LEMMA NothingYet ==
  ASSUME AlwaysInv, NoLossInv, asyncState # 2
  PROVE  /\ results = {} /\ stream = {} /\ buyers = {} /\ fresh = {} /\ pel = {}
         /\ Created = {} /\ Failed = {} /\ compensated = {}
         /\ \A w \in Workers : batch[w] = {}
<1>1. results = {} /\ stream = {}
  BY DEF NoLossInv, ModeInv
<1>2. buyers = {} /\ fresh = {} /\ pel = {}
  BY <1>1 DEF NoLossInv, StreamInv, AlwaysInv, IdsInv
<1>3. Created = {} /\ Failed = {}
  BY <1>1, OutcomeOf
<1>4. compensated = {}
  BY <1>3 DEF AlwaysInv, RefundInv, RefundsFollowFailures
<1>5. \A w \in Workers : batch[w] = {}
  BY <1>1 DEF NoLossInv, WorkerInv
<1> QED BY <1>1, <1>2, <1>3, <1>4, <1>5

\* What a worker holds is an entry of the stream of an open activity.
LEMMA InHand ==
  ASSUME AlwaysInv, NoLossInv, NEW w \in Workers, NEW e \in batch[w]
  PROVE  /\ e \in stream /\ e \notin fresh
         /\ asyncState = 2 /\ stateKey /\ eventsKey
<1>1. e \in stream /\ e \notin fresh
  BY DEF NoLossInv, WorkerInv
<1>2. asyncState = 2
  BY NothingYet
<1> QED BY <1>1, <1>2 DEF NoLossInv, ModeInv, SnapshotInv

\* Only an activity that is staged and not yet open is seeded: that of the
\* row the command still holds.
LEMMA PrepareSeeds ==
  ASSUME TypeOK, NoLossInv, NEW e \in Enablers, EnablePrepare(e), KeysAbsent
  PROVE  /\ asyncState = 1
         /\ erow[e] = [gen |-> generation, cap |-> capacity]
         /\ capacity = stock
<1>1. epc[e] = "prepare" /\ ~stateKey
  BY DEF EnablePrepare, KeysAbsent
<1>2. asyncState # 0 /\ asyncState # 2
      /\ erow[e] = [gen |-> generation, cap |-> capacity]
  BY <1>1 DEF NoLossInv, ModeInv
<1> QED BY <1>1, <1>2 DEF NoLossInv, ModeInv, TypeOK

-----------------------------------------------------------------------------
\* What the enable command and the workers leave alone.
LEMMA EnablerFrame ==
  ASSUME NEW e \in Enablers, EnablerStep(e)
  PROVE  UNCHANGED <<stock, orders, results, accounts, admission, wpc, batch,
                     now, faults, losses>>
  BY DEF EnablerStep, EnableStage, EnablePrepare, EnableCheck, EnableActivate,
         EnableStop

LEMMA WorkerFrame ==
  ASSUME NEW w \in Workers, WorkerStep(w)
  PROVE  UNCHANGED <<asyncState, generation, capacity, accounts, stateKey,
                     rGeneration, rCapacity, buyers, eventsKey, stream, nextId,
                     epc, erow, admission, now, losses>>
  BY DEF WorkerStep, WorkerProgress, WorkerClaim, WorkerRead, WorkerReadFails,
         WorkerApply, WorkerCompensate, WorkerAck, WorkerRetain, WorkerCrash
-----------------------------------------------------------------------------
LEMMA ModeStep ==
  ASSUME Before, Kept
  PROVE  ModeInv'
<1> USE DEF Before
<1>1. ASSUME NEW e \in Enablers, EnableStage(e)
      PROVE  ModeInv'
  <2>1. CASE asyncState = 0
    <3>1. \A f \in Enablers : epc[f] = "idle"
      BY <2>1 DEF NoLossInv, ModeInv, TypeOK
    <3>2. \A f \in Enablers : epc'[f] # "idle" =>
             epc'[f] = "prepare" /\ erow'[f] = [gen |-> generation', cap |-> capacity']
      BY <1>1, <3>1 DEF EnableStage, TypeOK
    <3> QED BY <1>1, <2>1, <3>2
            DEF EnableStage, NeverOrdered, NoLossInv, ModeInv
  <2>2. CASE asyncState # 0
    <3>1. \A f \in Enablers : f # e => epc'[f] = epc[f] /\ erow'[f] = erow[f]
      BY <1>1 DEF EnableStage, TypeOK
    <3>2. epc'[e] = "prepare"
          /\ erow'[e] = [gen |-> generation', cap |-> capacity']
      BY <1>1 DEF EnableStage, TypeOK
    <3> QED BY <1>1, <2>2, <3>1, <3>2 DEF EnableStage, NoLossInv, ModeInv
  <2> QED BY <2>1, <2>2
<1>2. ASSUME NEW e \in Enablers, EnablePrepare(e)
      PROVE  ModeInv'
  <2>1. \A f \in Enablers : f # e => epc'[f] = epc[f]
    BY <1>2 DEF EnablePrepare, TypeOK
  <2>2. epc'[e] = "check" /\ epc[e] = "prepare"
    BY <1>2 DEF EnablePrepare, TypeOK
  <2>3. CASE KeysAbsent
    BY <1>2, <2>1, <2>2, <2>3, PrepareSeeds
    DEF EnablePrepare, NoLossInv, ModeInv
  <2>4. CASE ~KeysAbsent
    BY <1>2, <2>1, <2>2, <2>4 DEF EnablePrepare, NoLossInv, ModeInv
  <2> QED BY <2>3, <2>4
<1>3. ASSUME NEW e \in Enablers, EnableCheck(e)
      PROVE  ModeInv'
  <2>1. \A f \in Enablers : f # e => epc'[f] = epc[f]
    BY <1>3 DEF EnableCheck, TypeOK
  <2>2. epc[e] = "check" /\ stateKey
    BY <1>3 DEF EnableCheck, Pristine
  <2> QED BY <1>3, <2>1, <2>2 DEF EnableCheck, NoLossInv, ModeInv
<1>4. ASSUME NEW e \in Enablers, EnableActivate(e)
      PROVE  ModeInv'
  <2>1. \A f \in Enablers : f # e => epc'[f] = epc[f]
    BY <1>4 DEF EnableActivate, TypeOK
  <2>2. epc[e] = "activate" /\ epc'[e] = "idle" /\ asyncState' = 2
    BY <1>4 DEF EnableActivate, TypeOK
  <2>3. stateKey
    BY <2>2 DEF NoLossInv, ModeInv
  <2> QED BY <1>4, <2>1, <2>2, <2>3 DEF EnableActivate, NoLossInv, ModeInv
<1>5. ASSUME NEW e \in Enablers, EnableStop(e)
      PROVE  ModeInv'
  <2>1. \A f \in Enablers : f # e => epc'[f] = epc[f]
    BY <1>5 DEF EnableStop, TypeOK
  <2>2. epc'[e] = "idle"
    BY <1>5 DEF EnableStop, TypeOK
  <2> QED BY <1>5, <2>1, <2>2 DEF EnableStop, NoLossInv, ModeInv
<1>6. ASSUME NEW u \in Users, BuyerStep(u)
      PROVE  ModeInv'
  <2>1. CASE Place(u)
    BY <2>1 DEF Place, NoLossInv, ModeInv
  <2>2. CASE AcceptRead(u)
    BY <2>2 DEF AcceptRead, NoLossInv, ModeInv
  <2>3. CASE AcceptReserve(u)
    <3>1. asyncState = 2
      BY <2>3 DEF AcceptReserve, NoLossInv, ModeInv
    <3> QED BY <2>3, <3>1 DEF AcceptReserve, NoLossInv, ModeInv
  <2>4. CASE AcceptRefused(u)
    <3>1. \A v \in Users : admission[v] = 0 => admission'[v] = 0
      BY <2>4 DEF AcceptRefused, TypeOK
    <3> QED BY <2>4, <3>1 DEF AcceptRefused, NoLossInv, ModeInv
  <2> QED BY <1>6, <2>1, <2>2, <2>3, <2>4 DEF BuyerStep
<1>7. ASSUME NEW w \in Workers, WorkerStep(w)
      PROVE  ModeInv'
  <2>1. \/ asyncState = 2
        \/ UNCHANGED <<stock, orders, results>>
    <3>1. ASSUME NEW e \in batch[w] PROVE asyncState = 2
      BY InHand
    <3> QED BY <1>7, <3>1
            DEF WorkerStep, WorkerProgress, WorkerClaim, WorkerRead,
                WorkerReadFails, WorkerCrash
  <2> QED BY <1>7, <2>1, WorkerFrame DEF NoLossInv, ModeInv
<1>8. ASSUME UNCHANGED <<stock, asyncState, generation, capacity, orders,
                         results, stateKey, stream, epc, erow, admission>>
      PROVE  ModeInv'
  BY <1>8 DEF NoLossInv, ModeInv
<1>9. CASE Environment
  BY <1>8, <1>9, NothingLost DEF Tick, DeleteUser
<1>10. CASE UNCHANGED vars
  BY <1>8, <1>10 DEF vars
<1>11. ASSUME NEW e \in Enablers, EnablerStep(e)
       PROVE  ModeInv'
  BY <1>1, <1>2, <1>3, <1>4, <1>5, <1>11 DEF EnablerStep
<1> QED BY <1>6, <1>7, <1>9, <1>10, <1>11 DEF Kept, Next

LEMMA SnapshotStep ==
  ASSUME Before, Kept
  PROVE  SnapshotInv'
<1> USE DEF Before
<1>1. ASSUME NEW e \in Enablers, EnableStage(e)
      PROVE  SnapshotInv'
  BY <1>1 DEF EnableStage, NoLossInv, ModeInv, SnapshotInv
<1>2. ASSUME NEW e \in Enablers, EnablePrepare(e)
      PROVE  SnapshotInv'
  <2>1. CASE KeysAbsent
    <3>1. /\ asyncState = 1 /\ capacity = stock
          /\ erow[e] = [gen |-> generation, cap |-> capacity]
      BY <1>2, <2>1, PrepareSeeds
    <3> QED BY <1>2, <2>1, <3>1 DEF EnablePrepare, SnapshotInv
  <2>2. CASE ~KeysAbsent
    BY <1>2, <2>2 DEF EnablePrepare, NoLossInv, SnapshotInv
  <2> QED BY <2>1, <2>2
<1>3. ASSUME NEW e \in Enablers, EnableActivate(e)
      PROVE  SnapshotInv'
  BY <1>3 DEF EnableActivate, NoLossInv, SnapshotInv
<1>4. ASSUME NEW u \in Users, BuyerStep(u)
      PROVE  SnapshotInv'
  <2>1. CASE Place(u)
    BY <2>1 DEF Place, NoLossInv, ModeInv, SnapshotInv
  <2>2. CASE AcceptReserve(u)
    <3>1. asyncState = 2
      BY <2>2 DEF AcceptReserve, NoLossInv, ModeInv
    <3> QED BY <2>2, <3>1 DEF AcceptReserve, NoLossInv, SnapshotInv
  <2>3. CASE AcceptRead(u) \/ AcceptRefused(u)
    BY <2>3 DEF AcceptRead, AcceptRefused, NoLossInv, SnapshotInv
  <2> QED BY <1>4, <2>1, <2>2, <2>3 DEF BuyerStep
<1>5. ASSUME NEW w \in Workers, WorkerStep(w)
      PROVE  SnapshotInv'
  <2>1. asyncState = 2 \/ UNCHANGED <<stock, rStock>>
    <3>1. ASSUME NEW e \in batch[w] PROVE asyncState = 2
      BY InHand
    <3> QED BY <1>5, <3>1
            DEF WorkerStep, WorkerProgress, WorkerClaim, WorkerRead,
                WorkerReadFails, WorkerCrash
  <2> QED BY <1>5, <2>1, WorkerFrame DEF NoLossInv, SnapshotInv
<1>6. ASSUME UNCHANGED <<stock, asyncState, generation, stateKey, rGeneration,
                         rStock, eventsKey>>
      PROVE  SnapshotInv'
  BY <1>6 DEF NoLossInv, SnapshotInv
<1>7. ASSUME NEW e \in Enablers, EnablerStep(e)
      PROVE  SnapshotInv'
  BY <1>1, <1>2, <1>3, <1>6, <1>7 DEF EnablerStep, EnableCheck, EnableStop
<1>8. CASE Environment
  BY <1>6, <1>8, NothingLost DEF Tick, DeleteUser
<1>9. CASE UNCHANGED vars
  BY <1>6, <1>9 DEF vars
<1> QED BY <1>4, <1>5, <1>7, <1>8, <1>9 DEF Kept, Next
\* An admission: the new entry is nobody else's, and no worker has it yet.
LEMMA Reserved ==
  ASSUME Before, NEW u \in Users, AcceptReserve(u)
  PROVE  LET n == NewEvent(u) IN
         /\ n.user = u /\ n.gen = generation /\ n.at = now /\ InWindow(now)
         /\ asyncState = 2 /\ stateKey /\ rStock > 0
         /\ n \notin stream
         /\ \A w \in Workers : n \notin batch[w]
         /\ \A e \in stream : e.user # u
<1> USE DEF Before
<1> DEFINE n == NewEvent(u)
<1>1. asyncState = 2
  BY DEF AcceptReserve, NoLossInv, ModeInv
<1>2. /\ stateKey /\ rStock > 0 /\ InWindow(now)
      /\ \A e \in buyers : e.user # u
  BY DEF AcceptReserve, Admissible
<1>3. n.user = u /\ n.gen = rGeneration /\ n.at = now /\ n.id = nextId
  BY DEF NewEvent
<1>4. rGeneration = generation
  BY <1>2 DEF NoLossInv, SnapshotInv
<1>5. n \notin Seen
  <2>1. nextId \in Nat
    BY DEF TypeOK
  <2> QED BY <1>3, <2>1 DEF AlwaysInv, IdsInv
<1>6. \A e \in stream : e.user # u
  BY <1>2 DEF NoLossInv, StreamInv
<1> HIDE DEF n
<1>7. n \notin stream /\ \A w \in Workers : n \notin batch[w]
  BY <1>5, SeenMembers
<1> QED BY <1>1, <1>2, <1>3, <1>4, <1>6, <1>7 DEF n

LEMMA StreamFrame ==
  ASSUME StreamInv, UNCHANGED <<stream, buyers, generation>>,
         fresh' \cap pel' = {}
  PROVE  StreamInv'
  BY DEF StreamInv, InWindow

LEMMA StreamStep ==
  ASSUME Before, Kept
  PROVE  StreamInv'
<1> USE DEF Before
<1>1. ASSUME NEW u \in Users, AcceptReserve(u)
      PROVE  StreamInv'
  <2> DEFINE n == NewEvent(u)
  <2>1. /\ n.user = u /\ n.gen = generation /\ InWindow(n.at)
        /\ n \notin stream
        /\ \A e \in stream : e.user # u
    BY <1>1, Reserved
  <2>2. /\ stream' = stream \cup {n} /\ buyers' = buyers \cup {n}
        /\ fresh' = fresh \cup {n} /\ UNCHANGED <<pel, generation>>
    BY <1>1 DEF AcceptReserve
  <2> HIDE DEF n
  <2>3. IsFiniteSet(stream')
    BY <2>2, FS_AddElement DEF NoLossInv, StreamInv
  <2>4. n \notin pel
    BY <2>1 DEF AlwaysInv, IdsInv
  <2>5. buyers' = stream' /\ fresh' \cap pel' = {}
    BY <2>2, <2>4 DEF NoLossInv, StreamInv
  <2>6. \A e \in stream' : e.gen = generation' /\ InWindow(e.at)
    BY <2>1, <2>2 DEF NoLossInv, StreamInv
  <2>7. \A e, f \in stream' : e.user = f.user => e = f
    BY <2>1, <2>2 DEF NoLossInv, StreamInv
  <2> QED BY <2>3, <2>5, <2>6, <2>7 DEF StreamInv, InWindow
<1>2. ASSUME NEW e \in Enablers, EnableStage(e)
      PROVE  StreamInv'
  <2>1. CASE asyncState = 0
    <3>1. stream = {} /\ buyers = {} /\ fresh = {}
      BY <2>1, NothingYet
    <3>2. UNCHANGED <<stream, buyers, fresh, pel>>
      BY <1>2 DEF EnableStage
    <3> QED BY <3>1, <3>2, FS_EmptySet DEF StreamInv
  <2>2. CASE asyncState # 0
    BY <1>2, <2>2, StreamFrame DEF EnableStage, NoLossInv, StreamInv
  <2> QED BY <2>1, <2>2
<1>3. ASSUME NEW e \in Enablers, EnablePrepare(e)
      PROVE  StreamInv'
  <2>1. CASE KeysAbsent
    <3>1. stream' = {} /\ buyers' = {} /\ fresh' = {}
      BY <1>3, <2>1 DEF EnablePrepare
    <3> QED BY <3>1, FS_EmptySet DEF StreamInv
  <2>2. CASE ~KeysAbsent
    BY <1>3, <2>2, StreamFrame DEF EnablePrepare, NoLossInv, StreamInv
  <2> QED BY <2>1, <2>2
<1>4. ASSUME NEW w \in Workers, WorkerStep(w)
      PROVE  StreamInv'
  <2>1. fresh' \cap pel' = {}
    <3>1. \/ fresh' = fresh /\ pel' \subseteq pel
          \/ Deliver
      BY <1>4
      DEF WorkerStep, WorkerProgress, WorkerClaim, WorkerRead, WorkerReadFails,
          WorkerApply, WorkerCompensate, WorkerAck, WorkerRetain, WorkerCrash
    <3> QED BY <3>1 DEF Deliver, NoLossInv, StreamInv
  <2> QED BY <1>4, <2>1, WorkerFrame, StreamFrame DEF NoLossInv
<1>5. ASSUME UNCHANGED <<stream, buyers, fresh, pel, generation>>
      PROVE  StreamInv'
  BY <1>5, StreamFrame DEF NoLossInv, StreamInv
<1>6. ASSUME NEW e \in Enablers, EnablerStep(e)
      PROVE  StreamInv'
  BY <1>2, <1>3, <1>5, <1>6
  DEF EnablerStep, EnableCheck, EnableActivate, EnableStop
<1>7. ASSUME NEW u \in Users, BuyerStep(u)
      PROVE  StreamInv'
  BY <1>1, <1>5, <1>7 DEF BuyerStep, Place, AcceptRead, AcceptRefused
<1>8. CASE Environment
  BY <1>5, <1>8, NothingLost DEF Tick, DeleteUser
<1>9. CASE UNCHANGED vars
  BY <1>5, <1>9 DEF vars
<1> QED BY <1>4, <1>6, <1>7, <1>8, <1>9 DEF Kept, Next
-----------------------------------------------------------------------------
LEMMA WorkIsFinite ==
  ASSUME StreamInv, ResultInv
  PROVE  /\ IsFiniteSet(Unresolved) /\ Cardinality(Unresolved) \in Nat
         /\ IsFiniteSet(Owed) /\ Cardinality(Owed) \in Nat
<1>1. IsFiniteSet(Unresolved)
  BY FS_Subset DEF StreamInv, Unresolved
<1>2. Owed \subseteq stream
  BY DEF Owed, ResultInv, Resolved
<1>3. IsFiniteSet(Owed)
  BY <1>2, FS_Subset DEF StreamInv
<1> QED BY <1>1, <1>3, FS_CardinalityType

\* While a ticket is undecided there is a unit for it.
LEMMA UnitForTicket ==
  ASSUME Before, stateKey, NEW e \in Unresolved
  PROVE  stock > 0
<1> USE DEF Before
<1>1. rStock + Cardinality(Unresolved) + Cardinality(Owed) = stock
  BY DEF NoLossInv, StockInv
<1>2. /\ IsFiniteSet(Unresolved) /\ Cardinality(Unresolved) \in Nat
      /\ Cardinality(Owed) \in Nat
  BY WorkIsFinite DEF NoLossInv
<1>3. Cardinality(Unresolved) # 0
  BY <1>2, FS_EmptySet
<1> QED BY <1>1, <1>2, <1>3 DEF TypeOK

\* The owner of an undecided ticket has no order.
LEMMA NoOtherOrder ==
  ASSUME Before, asyncState = 2, NEW e \in Unresolved
  PROVE  ~HasOrder(e.user)
<1> USE DEF Before
<1> SUFFICES ASSUME NEW o \in orders, o.user = e.user
             PROVE  FALSE
  BY DEF HasOrder
<1>1. o.event # 0
  BY DEF AlwaysInv, SqlInv, SyncAndAsyncNeverMix
<1>2. PICK f \in Created : o = [user |-> f.user, event |-> f.id]
  BY <1>1 DEF AlwaysInv, SqlInv, OrdersFollowResults
<1>3. f \in stream /\ e \in stream /\ f.user = e.user
  BY <1>2 DEF NoLossInv, ResultInv, Resolved, Unresolved
<1>4. f = e
  BY <1>3 DEF NoLossInv, StreamInv
<1> QED BY <1>2, <1>4 DEF Unresolved, Resolved

\* What Apply can do: nothing new, or decide an undecided ticket, and refuse
\* it only because its owner is gone.
LEMMA Verdict ==
  ASSUME Before, NEW w \in Workers, NEW e \in batch[w], WorkerApply(w, e)
  PROVE  \/ UNCHANGED <<stock, results>>
         \/ /\ e \in Unresolved
            /\ \A r \in results : r.event # e
            /\ \/ /\ results' = results \cup
                       {[event |-> e, status |-> "created", reason |-> ""]}
                  /\ stock' = stock - 1
                  /\ Created' = Created \cup {e} /\ Failed' = Failed
               \/ /\ results' = results \cup
                       {[event |-> e, status |-> "failed",
                         reason |-> "user_not_found"]}
                  /\ stock' = stock
                  /\ Failed' = Failed \cup {e} /\ Created' = Created
<1> USE DEF Before
<1>1. CASE ApplyAgain(w, e)
  BY <1>1 DEF ApplyAgain
<1>2. CASE ResultsOf(e) = {} /\ ApplyCreated(w, e)
  <2> DEFINE r == [event |-> e, status |-> "created", reason |-> ""]
  <2>1. /\ results' = results \cup {r} /\ stock' = stock - 1
        /\ \A q \in results : q.event # e
    BY <1>2 DEF ApplyCreated, ResultsOf
  <2>2. e \in Unresolved
    BY <2>1, InHand, OutcomeOf DEF Unresolved, Resolved
  <2>3. r.event = e /\ r.status = "created"
    OBVIOUS
  <2>4. Created' = Created \cup {e} /\ Failed' = Failed
    <3> HIDE DEF r
    <3> QED BY <2>1, <2>3, CreatedResult
  <2> QED BY <2>1, <2>2, <2>4
<1>3. CASE ResultsOf(e) = {} /\ ApplyFailed(w, e)
  <2> DEFINE r == [event |-> e, status |-> "failed", reason |-> Refusal(e)]
  <2>1. /\ results' = results \cup {r} /\ stock' = stock
        /\ Refusal(e) # "" /\ \A q \in results : q.event # e
    BY <1>3 DEF ApplyFailed, ResultsOf
  <2>2. e \in stream /\ asyncState = 2 /\ stateKey
    BY InHand
  <2>3. e \in Unresolved
    BY <2>1, <2>2, OutcomeOf DEF Unresolved, Resolved
  <2>4. r.event = e /\ r.status = "failed"
    OBVIOUS
  <2>5. Failed' = Failed \cup {e} /\ Created' = Created
    <3> HIDE DEF r
    <3> QED BY <2>1, <2>4, FailedResult
  <2>6. InWindow(e.at)
    BY <2>2 DEF NoLossInv, StreamInv
  <2>7. stock > 0 /\ ~HasOrder(e.user)
    BY <2>2, <2>3, UnitForTicket, NoOtherOrder
  <2>8. Refusal(e) = "user_not_found"
    <3>1. stock # 0
      BY <2>7 DEF TypeOK
    <3>2. Refusal(e) # ""
      BY <2>1
    <3> HIDE DEF r
    <3> QED BY <2>6, <2>7, <3>1, <3>2, Zenon DEF Refusal
  <2> QED BY <2>1, <2>3, <2>5, <2>8
<1> QED BY <1>1, <1>2, <1>3 DEF WorkerApply

\* Only Apply writes results.
LEMMA ResultsGrow ==
  ASSUME [Next]_vars
  PROVE  \/ results' = results
         \/ \E w \in Workers : \E e \in batch[w] : WorkerApply(w, e)
<1>1. ASSUME NEW w \in Workers, WorkerStep(w)
      PROVE  results' = results \/ \E e \in batch[w] : WorkerApply(w, e)
  BY <1>1
  DEF WorkerStep, WorkerProgress, WorkerClaim, WorkerRead, WorkerReadFails,
      WorkerCompensate, WorkerAck, WorkerRetain, WorkerCrash
<1>2. ASSUME NEW u \in Users, BuyerStep(u)
      PROVE  results' = results
  BY <1>2 DEF BuyerStep, Place, AcceptRead, AcceptReserve, AcceptRefused
<1>3. CASE Environment
  BY <1>3 DEF Environment, Tick, DeleteUser, LoseState, LoseEvents
<1> QED BY <1>1, <1>2, <1>3, EnablerFrame DEF Next, vars

\* The stream only grows, and to seed it is to start from nothing.
LEMMA StreamGrows ==
  ASSUME Before, Kept
  PROVE  stream \subseteq stream' /\ compensated \subseteq compensated'
<1> USE DEF Before
<1>1. ASSUME NEW e \in Enablers, EnablePrepare(e)
      PROVE  stream \subseteq stream' /\ compensated \subseteq compensated'
  <2>1. CASE KeysAbsent
    <3>1. asyncState = 1
      BY <1>1, <2>1, PrepareSeeds
    <3>2. stream = {} /\ compensated = {}
      BY <3>1, NothingYet
    <3> QED BY <3>2
  <2>2. CASE ~KeysAbsent
    BY <1>1, <2>2 DEF EnablePrepare
  <2> QED BY <2>1, <2>2
<1>2. ASSUME NEW e \in Enablers, EnablerStep(e)
      PROVE  stream \subseteq stream' /\ compensated \subseteq compensated'
  BY <1>1, <1>2
  DEF EnablerStep, EnableStage, EnableCheck, EnableActivate, EnableStop
<1>3. ASSUME NEW u \in Users, BuyerStep(u)
      PROVE  stream \subseteq stream' /\ compensated \subseteq compensated'
  BY <1>3 DEF BuyerStep, Place, AcceptRead, AcceptReserve, AcceptRefused
<1>4. ASSUME NEW w \in Workers, WorkerStep(w)
      PROVE  stream \subseteq stream' /\ compensated \subseteq compensated'
  BY <1>4
  DEF WorkerStep, WorkerProgress, WorkerClaim, WorkerRead, WorkerReadFails,
      WorkerApply, WorkerCompensate, WorkerAck, WorkerRetain, WorkerCrash
<1>5. CASE Environment
  BY <1>5, NothingLost DEF Tick, DeleteUser
<1> QED BY <1>2, <1>3, <1>4, <1>5 DEF Kept, Next, vars

LEMMA ResultStep ==
  ASSUME Before, Kept
  PROVE  ResultInv'
<1> USE DEF Before
<1>1. CASE results' = results
  <2>1. Resolved' = Resolved
    BY <1>1 DEF Resolved, Created, Failed
  <2> QED BY <1>1, <2>1, StreamGrows DEF NoLossInv, ResultInv
<1>2. ASSUME NEW w \in Workers, NEW e \in batch[w], WorkerApply(w, e),
             results' # results
      PROVE  ResultInv'
  <2>1. PICK r \in results' :
          /\ results' = results \cup {r} /\ r.event = e
          /\ r.status = "failed" => r.reason = "user_not_found"
    <3> DEFINE c == [event |-> e, status |-> "created", reason |-> ""]
               f == [event |-> e, status |-> "failed",
                     reason |-> "user_not_found"]
    <3>1. results' = results \cup {c} \/ results' = results \cup {f}
      BY <1>2, Verdict
    <3>2. /\ c.event = e /\ c.status # "failed"
          /\ f.event = e /\ f.reason = "user_not_found"
      OBVIOUS
    <3> HIDE DEF c, f
    <3>3. (c \in results' /\ results' = results \cup {c})
          \/ (f \in results' /\ results' = results \cup {f})
      BY <3>1
    <3> QED BY <3>2, <3>3
  <2>2. /\ \A q \in results : q.event # e
        /\ Resolved' = Resolved \cup {e}
        /\ e \in stream
    BY <1>2, Verdict DEF Resolved, Unresolved
  <2>3. stream \subseteq stream'
    BY StreamGrows
  <2>4. Resolved' \subseteq stream'
    BY <2>2, <2>3 DEF NoLossInv, ResultInv
  <2>5. \A q, s \in results' : q.event = s.event => q = s
    BY <2>1, <2>2 DEF NoLossInv, ResultInv
  <2>6. \A q \in results' : q.status = "failed" => q.reason = "user_not_found"
    BY <2>1 DEF NoLossInv, ResultInv
  <2> QED BY <2>4, <2>5, <2>6 DEF ResultInv
<1> QED BY <1>1, <1>2, ResultsGrow DEF Kept
-----------------------------------------------------------------------------
LEMMA SettledStays ==
  ASSUME Before, Kept, NEW e, IsSettled(e)
  PROVE  IsSettled(e)'
<1>1. compensated \subseteq compensated'
  BY StreamGrows
<1>2. Created \subseteq Created' /\ Failed \subseteq Failed'
  BY FailuresStay DEF Before, Kept
<1> QED BY <1>1, <1>2 DEF IsSettled

\* Workers hold what the group delivered, and only that.
LEMMA HandsStep ==
  ASSUME Before, Kept, NEW v \in Workers
  PROVE  batch'[v] \subseteq stream' \ fresh'
<1> USE DEF Before
<1>0. batch[v] \subseteq stream \ fresh /\ batch[v] \subseteq stream'
  BY StreamGrows DEF NoLossInv, WorkerInv
<1>1. ASSUME batch'[v] \subseteq batch[v], fresh' \subseteq fresh
      PROVE  batch'[v] \subseteq stream' \ fresh'
  BY <1>0, <1>1
<1>2. ASSUME NEW u \in Users, BuyerStep(u)
      PROVE  batch'[v] \subseteq stream' \ fresh'
  <2>1. CASE AcceptReserve(u)
    <3>1. fresh' = fresh \cup {NewEvent(u)} /\ batch' = batch
      BY <2>1 DEF AcceptReserve
    <3>2. NewEvent(u) \notin batch[v]
      BY <2>1, Reserved
    <3> QED BY <1>0, <3>1, <3>2
  <2>2. CASE Place(u) \/ AcceptRead(u) \/ AcceptRefused(u)
    BY <1>1, <2>2 DEF Place, AcceptRead, AcceptRefused
  <2> QED BY <1>2, <2>1, <2>2 DEF BuyerStep
<1>3. ASSUME NEW e \in Enablers, EnablerStep(e)
      PROVE  batch'[v] \subseteq stream' \ fresh'
  <2>1. batch' = batch /\ fresh' \subseteq fresh
    BY <1>3 DEF EnablerStep, EnableStage, EnablePrepare, EnableCheck,
                EnableActivate, EnableStop
  <2> QED BY <1>1, <2>1
<1>4. ASSUME NEW w \in Workers, WorkerStep(w)
      PROVE  batch'[v] \subseteq stream' \ fresh'
  <2>1. fresh' \subseteq fresh /\ stream' = stream
    BY <1>4
    DEF WorkerStep, WorkerProgress, WorkerClaim, WorkerRead, WorkerReadFails,
        WorkerApply, WorkerCompensate, WorkerAck, WorkerRetain, WorkerCrash,
        Deliver
  <2>2. ASSUME NEW S \in SUBSET pel, WorkerClaim(w, S)
        PROVE  batch'[v] \subseteq stream' \ fresh'
    <3>1. batch'[v] \subseteq batch[v] \cup pel /\ fresh' = fresh
      BY <2>2 DEF WorkerClaim, TypeOK
    <3>2. pel \subseteq stream \ fresh
      BY DEF AlwaysInv, IdsInv, NoLossInv, StreamInv
    <3> QED BY <1>0, <2>1, <3>1, <3>2
  <2>3. CASE WorkerRead(w)
    <3>1. batch'[v] \subseteq batch[v] \cup FreshPrefix
          /\ fresh' = fresh \ FreshPrefix
      BY <2>3 DEF WorkerRead, Deliver, TypeOK
    <3>2. FreshPrefix \subseteq stream
      BY DEF FreshPrefix, AlwaysInv, IdsInv
    <3> QED BY <1>0, <2>1, <3>1, <3>2
  <2>4. ASSUME NEW e \in batch[w], WorkerAck(w, e) \/ WorkerRetain(w, e)
        PROVE  batch'[v] \subseteq stream' \ fresh'
    <3>1. batch'[v] \subseteq batch[v]
      BY <2>4 DEF WorkerAck, WorkerRetain, Drop, TypeOK
    <3> QED BY <1>1, <2>1, <3>1
  <2>5. CASE WorkerCrash(w)
    <3>1. batch'[v] \subseteq batch[v]
      BY <2>5 DEF WorkerCrash, TypeOK
    <3> QED BY <1>1, <2>1, <3>1
  <2>6. CASE batch' = batch
    BY <1>1, <2>1, <2>6
  <2> QED
    BY <1>4, <2>2, <2>3, <2>4, <2>5, <2>6
    DEF WorkerStep, WorkerProgress, WorkerReadFails, WorkerApply,
        WorkerCompensate
<1>5. CASE Environment
  BY <1>1, <1>5, NothingLost DEF Tick, DeleteUser
<1>6. CASE UNCHANGED vars
  BY <1>1, <1>6 DEF vars
<1> QED BY <1>2, <1>3, <1>4, <1>5, <1>6 DEF Kept, Next

LEMMA WorkerStepKeeps ==
  ASSUME Before, Kept
  PROVE  WorkerInv'
<1>1. ASSUME NEW w \in Workers, NEW e, wpc'[w] = "ack", IsNext(w, e)'
      PROVE  IsSettled(e)'
  <2>1. CASE wpc[w] = "ack" /\ IsNext(w, e)
    <3>1. IsSettled(e)
      BY <2>1 DEF Before, NoLossInv, WorkerInv, IsNext
    <3> QED BY <3>1, SettledStays
  <2>2. CASE e \in Created'
    BY <2>2 DEF IsSettled
  <2>3. CASE WorkerCompensate(w, e)
    <3>1. e \in Failed /\ e \in compensated'
      BY <2>3 DEF WorkerCompensate, Before, AlwaysInv, RefundInv, IsNext,
                  Refunded
    <3>2. e \in Failed'
      BY <3>1, FailuresStay DEF Before, Kept
    <3> QED BY <3>1, <3>2 DEF IsSettled
  <2> QED BY <1>1, <2>1, <2>2, <2>3, WorkerMoves DEF Before, AlwaysInv, Kept
<1> QED BY <1>1, HandsStep DEF WorkerInv

LEMMA AckedStep ==
  ASSUME Before, Kept
  PROVE  AckedInv'
<1> USE DEF Before
<1>1. ASSUME stream' = stream, fresh \cup pel \subseteq fresh' \cup pel'
      PROVE  AckedInv'
  BY <1>1, SettledStays DEF NoLossInv, AckedInv
<1>2. ASSUME NEW u \in Users, BuyerStep(u)
      PROVE  AckedInv'
  <2>1. CASE AcceptReserve(u)
    <3>1. /\ stream' = stream \cup {NewEvent(u)}
          /\ fresh' = fresh \cup {NewEvent(u)} /\ pel' = pel
      BY <2>1 DEF AcceptReserve
    <3> QED BY <3>1, SettledStays DEF NoLossInv, AckedInv
  <2>2. CASE Place(u) \/ AcceptRead(u) \/ AcceptRefused(u)
    BY <1>1, <2>2 DEF Place, AcceptRead, AcceptRefused
  <2> QED BY <1>2, <2>1, <2>2 DEF BuyerStep
<1>3. ASSUME NEW e \in Enablers, EnablerStep(e)
      PROVE  AckedInv'
  <2>1. stream' = {} \/ UNCHANGED <<stream, fresh, pel>>
    BY <1>3 DEF EnablerStep, EnableStage, EnablePrepare, EnableCheck,
                EnableActivate, EnableStop
  <2>2. CASE stream' = {}
    BY <2>2 DEF AckedInv
  <2> QED BY <1>1, <2>1, <2>2
<1>4. ASSUME NEW w \in Workers, WorkerStep(w)
      PROVE  AckedInv'
  <2>1. stream' = stream
    BY <1>4, WorkerFrame
  <2>2. ASSUME NEW e \in batch[w], WorkerAck(w, e)
        PROVE  AckedInv'
    <3>1. fresh' = fresh /\ pel' = pel \ {e}
      BY <2>2 DEF WorkerAck
    <3>2. IsSettled(e)
      BY <2>2 DEF WorkerAck, NoLossInv, WorkerInv
    <3> QED BY <2>1, <3>1, <3>2, SettledStays DEF NoLossInv, AckedInv
  <2>3. ASSUME fresh \cup pel \subseteq fresh' \cup pel'
        PROVE  AckedInv'
    BY <1>1, <2>1, <2>3
  <2>4. ASSUME Deliver
        PROVE  AckedInv'
    BY <2>3, <2>4 DEF Deliver
  <2>5. CASE UNCHANGED <<fresh, pel>>
    BY <2>3, <2>5
  <2> QED
    BY <1>4, <2>2, <2>4, <2>5
    DEF WorkerStep, WorkerProgress, WorkerClaim, WorkerRead, WorkerReadFails,
        WorkerApply, WorkerCompensate, WorkerRetain, WorkerCrash
<1>5. CASE Environment
  BY <1>1, <1>5, NothingLost DEF Tick, DeleteUser
<1>6. CASE UNCHANGED vars
  BY <1>1, <1>6 DEF vars
<1> QED BY <1>2, <1>3, <1>4, <1>5, <1>6 DEF Kept, Next
-----------------------------------------------------------------------------
LEMMA StockFrame ==
  ASSUME StockInv, UNCHANGED <<stateKey, rStock, stock, stream, results,
                               compensated>>
  PROVE  StockInv'
<1>1. Created' = Created /\ Failed' = Failed
  BY DEF Created, Failed
<1> QED BY <1>1 DEF StockInv, Unresolved, Resolved, Owed

\* Every step that moves a unit moves it from one heap to another.
LEMMA StockStep ==
  ASSUME Before, Kept
  PROVE  StockInv'
<1> USE DEF Before
<1>0. /\ IsFiniteSet(Unresolved) /\ Cardinality(Unresolved) \in Nat
      /\ IsFiniteSet(Owed) /\ Cardinality(Owed) \in Nat
      /\ stock \in Nat /\ rStock \in Nat
  BY WorkIsFinite DEF NoLossInv, TypeOK
<1>00. stateKey =>
         rStock + Cardinality(Unresolved) + Cardinality(Owed) = stock
  BY DEF NoLossInv, StockInv
<1>1. ASSUME NEW u \in Users, Place(u)
      PROVE  StockInv'
  <2>1. ~stateKey'
    BY <1>1 DEF Place, NoLossInv, ModeInv
  <2> QED BY <2>1 DEF StockInv
<1>2. ASSUME NEW e \in Enablers, EnablePrepare(e)
      PROVE  StockInv'
  <2>1. CASE KeysAbsent
    <3>1. /\ asyncState = 1 /\ capacity = stock
          /\ erow[e] = [gen |-> generation, cap |-> capacity]
      BY <1>2, <2>1, PrepareSeeds
    <3>2. rStock' = stock /\ stock' = stock /\ stream' = {} /\ results' = results
      BY <1>2, <2>1, <3>1 DEF EnablePrepare
    <3>3. Failed' = {}
      BY <3>1, <3>2, NothingYet DEF Failed
    <3>4. Unresolved' = {} /\ Owed' = {}
      BY <3>2, <3>3 DEF Unresolved, Owed
    <3> QED BY <1>0, <3>2, <3>4, FS_EmptySet DEF StockInv
  <2>2. CASE ~KeysAbsent
    BY <1>2, <2>2, StockFrame DEF EnablePrepare, NoLossInv
  <2> QED BY <2>1, <2>2
<1>3. ASSUME NEW u \in Users, AcceptReserve(u)
      PROVE  StockInv'
  <2> DEFINE n == NewEvent(u)
  <2>1. n \notin stream /\ stateKey /\ rStock > 0
    BY <1>3, Reserved
  <2>2. /\ stream' = stream \cup {n} /\ rStock' = rStock - 1
        /\ UNCHANGED <<stock, results, compensated, stateKey>>
    BY <1>3 DEF AcceptReserve
  <2> HIDE DEF n
  <2>3. Created' = Created /\ Failed' = Failed
    BY <2>2 DEF Created, Failed
  <2>4. n \notin Resolved
    BY <2>1 DEF NoLossInv, ResultInv
  <2>5. Unresolved' = Unresolved \cup {n} /\ n \notin Unresolved
    BY <2>1, <2>2, <2>3, <2>4 DEF Unresolved, Resolved
  <2>6. Owed' = Owed
    BY <2>2, <2>3 DEF Owed
  <2>7. Cardinality(Unresolved') = Cardinality(Unresolved) + 1
    BY <1>0, <2>5, FS_AddElement
  <2> QED BY <1>0, <1>00, <2>1, <2>2, <2>6, <2>7 DEF StockInv
<1>4. ASSUME NEW w \in Workers, NEW e \in batch[w], WorkerApply(w, e)
      PROVE  StockInv'
  <2>1. UNCHANGED <<stateKey, rStock, stream, compensated>>
    BY <1>4 DEF WorkerApply
  <2>2. CASE UNCHANGED <<stock, results>>
    BY <2>1, <2>2, StockFrame DEF NoLossInv
  <2>3. CASE ~UNCHANGED <<stock, results>>
    <3>1. /\ e \in Unresolved
          /\ \/ /\ stock' = stock - 1
                /\ Created' = Created \cup {e} /\ Failed' = Failed
             \/ /\ stock' = stock
                /\ Failed' = Failed \cup {e} /\ Created' = Created
      BY <1>4, <2>3, Verdict
    <3>2. Unresolved' = Unresolved \ {e}
      BY <2>1, <3>1 DEF Unresolved, Resolved
    <3>3. Cardinality(Unresolved') = Cardinality(Unresolved) - 1
      BY <1>0, <3>1, <3>2, FS_RemoveElement
    <3>4. CASE stock' = stock - 1 /\ Failed' = Failed
      <4>1. Owed' = Owed
        BY <2>1, <3>4 DEF Owed
      <4> QED BY <1>0, <1>00, <2>1, <3>3, <3>4, <4>1 DEF StockInv
    <3>5. CASE stock' = stock /\ Failed' = Failed \cup {e}
      <4>1. e \notin Failed
        BY <3>1 DEF Unresolved, Resolved
      <4>2. e \notin compensated
        BY <4>1 DEF AlwaysInv, RefundInv, RefundsFollowFailures
      <4>3. Owed' = Owed \cup {e} /\ e \notin Owed
        BY <2>1, <3>5, <4>1, <4>2 DEF Owed
      <4>4. Cardinality(Owed') = Cardinality(Owed) + 1
        BY <1>0, <4>3, FS_AddElement
      <4> QED BY <1>0, <1>00, <2>1, <3>3, <3>5, <4>4 DEF StockInv
    <3> QED BY <3>1, <3>4, <3>5
  <2> QED BY <2>2, <2>3
<1>5. ASSUME NEW w \in Workers, NEW e \in batch[w], WorkerCompensate(w, e)
      PROVE  StockInv'
  <2>1. UNCHANGED <<stock, stateKey, stream, results>>
    BY <1>5 DEF WorkerCompensate
  <2>2. CASE Refunded(e)
    BY <1>5, <2>1, <2>2, StockFrame DEF WorkerCompensate, NoLossInv
  <2>3. CASE ~Refunded(e)
    <3>1. rStock' = rStock + 1 /\ compensated' = compensated \cup {e}
      BY <1>5, <2>3 DEF WorkerCompensate
    <3>2. e \in Owed
      BY <1>5, <2>3 DEF WorkerCompensate, AlwaysInv, RefundInv, Refunded, Owed
    <3>3. Failed' = Failed /\ Created' = Created
      BY <2>1 DEF Failed, Created
    <3>4. Owed' = Owed \ {e} /\ Unresolved' = Unresolved
      BY <2>1, <3>1, <3>3 DEF Owed, Unresolved, Resolved
    <3>5. Cardinality(Owed') = Cardinality(Owed) - 1
      BY <1>0, <3>2, <3>4, FS_RemoveElement
    <3> QED BY <1>0, <1>00, <2>1, <3>1, <3>4, <3>5 DEF StockInv
  <2> QED BY <2>2, <2>3
<1>6. ASSUME UNCHANGED <<stateKey, rStock, stock, stream, results, compensated>>
      PROVE  StockInv'
  BY <1>6, StockFrame DEF NoLossInv
<1>7. ASSUME NEW e \in Enablers, EnablerStep(e)
      PROVE  StockInv'
  BY <1>2, <1>6, <1>7
  DEF EnablerStep, EnableStage, EnableCheck, EnableActivate, EnableStop
<1>8. ASSUME NEW u \in Users, BuyerStep(u)
      PROVE  StockInv'
  BY <1>1, <1>3, <1>6, <1>8 DEF BuyerStep, AcceptRead, AcceptRefused
<1>9. ASSUME NEW w \in Workers, WorkerStep(w)
      PROVE  StockInv'
  <2>1. ASSUME NEW e \in batch[w], WorkerAck(w, e) \/ WorkerRetain(w, e)
        PROVE  StockInv'
    BY <1>6, <2>1 DEF WorkerAck, WorkerRetain
  <2> QED
    BY <1>4, <1>5, <1>6, <1>9, <2>1
    DEF WorkerStep, WorkerProgress, WorkerClaim, WorkerRead, WorkerReadFails,
        WorkerCrash
<1>10. CASE Environment
  BY <1>6, <1>10, NothingLost DEF Tick, DeleteUser
<1>11. CASE UNCHANGED vars
  BY <1>6, <1>11 DEF vars
<1> QED BY <1>7, <1>8, <1>9, <1>10, <1>11 DEF Kept, Next

-----------------------------------------------------------------------------
\* No loss is ever undone, so a run without losses never had one.
LEMMA LossesStay ==
  ASSUME TypeOK, [Next]_vars
  PROVE  losses' >= losses
<1>1. ASSUME NEW w \in Workers, WorkerStep(w) PROVE losses' = losses
  BY <1>1, WorkerFrame
<1>2. ASSUME NEW u \in Users, BuyerStep(u) PROVE losses' = losses
  BY <1>2 DEF BuyerStep, Place, AcceptRead, AcceptReserve, AcceptRefused
<1>3. CASE Environment
  BY <1>3 DEF Environment, Tick, DeleteUser, LoseState, LoseEvents, TypeOK
<1>4. losses' = losses => losses' >= losses
  BY DEF TypeOK
<1> QED BY <1>1, <1>2, <1>3, <1>4, EnablerFrame DEF Next, vars

LEMMA NoLossStep ==
  ASSUME IInv, [Next]_vars
  PROVE  losses' = 0 => NoLossInv'
<1> SUFFICES ASSUME losses' = 0 PROVE NoLossInv'
  OBVIOUS
<1>1. losses = 0
  BY LossesStay DEF IInv, TypeOK
<1>2. Before /\ Kept
  BY <1>1 DEF IInv, Before, Kept
<1> QED
  BY <1>2, ModeStep, SnapshotStep, StreamStep, ResultStep, WorkerStepKeeps,
     AckedStep, StockStep
  DEF NoLossInv

\* The inductive invariant with both of its halves: what MySQL keeps in any
\* case, and what the stores keep together while Redis loses nothing.
THEOREM InvariantHolds == Spec => []IInv
<1>1. Init => IInv
  BY InitType, InitAlways, InitNoLoss DEF IInv
<1>2. TypeOK /\ AlwaysInv /\ TypeOK' /\ AlwaysInv' /\ IInv /\ [Next]_vars => IInv'
  BY NoLossStep DEF IInv
<1> QED BY <1>1, <1>2, TypeCorrect, AlwaysCorrect, PTL DEF Spec

\* As long as Redis loses nothing, the SQL stock is at any moment what Redis
\* still offers plus the tickets MySQL has not decided plus the units failed
\* tickets have not given back: Accept never admits more buyers than units.
THEOREM StockAlwaysReconciles == Spec => []StockReconciles
<1>1. IInv => StockReconciles
  BY DEF IInv, NoLossInv, StockInv, StockReconciles
<1> QED BY <1>1, InvariantHolds, PTL

\* A ticket that was accepted (202) fails only because its owner is gone, for
\* any number of buyers, workers, enable commands, crashes and redeliveries.
THEOREM TicketsAlwaysHonoured == Spec => []TicketsAreHonoured
<1>1. IInv => TicketsAreHonoured
  BY DEF IInv, NoLossInv, ResultInv, TicketsAreHonoured
<1> QED BY <1>1, InvariantHolds, PTL

\* What the worker has acknowledged is settled: nothing is lost by an early
\* XACK, whoever acknowledges it.
THEOREM AckedAlwaysSettled == Spec => []AckedIsSettled
<1>1. IInv => AckedIsSettled
  BY DEF IInv, NoLossInv, AckedInv, IsSettled, AckedIsSettled
<1> QED BY <1>1, InvariantHolds, PTL
=============================================================================
