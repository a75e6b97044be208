------------------------ MODULE SeckillUsers_proofs -------------------------
(***************************************************************************)
(* What the seckill means to its users: SeckillPromise conserves units,    *)
(* and while Redis loses nothing the machinery implements it step by step; *)
(* the answers of the result query (SeckillResult) are true and final; and *)
(* what a visitor was told about a sold-out activity stays true            *)
(* (VoucherView). The queries only read, so all that holds of AsyncSeckill *)
(* holds beneath them.                                                     *)
(***************************************************************************)
EXTENDS SeckillResult, VoucherView, AsyncSeckill_proofs

USE DEF WriteSnapshot, sqlVars, stateVars, streamVars, enablerVars, workerVars,
        envVars

-----------------------------------------------------------------------------
(* The promise conserves units *)

\* The promise, for any number of users and units.
PromiseInv == Promise!TypeOK /\ Promise!EveryUnitAccountedFor

Holds == {"bought", "pending", "created", "failed"}

\* The instance counts as this module does.
LEMMA SameCount == \A S : Promise!Cardinality(S) = Cardinality(S)
BY DEF Promise!Cardinality, Cardinality

\* A ticket that moves changes the holders by its owner at most.
LEMMA MoveHolders ==
  ASSUME Promise!TypeOK, NEW u \in Users,
         NEW from, NEW to, Promise!Move(u, from, to)
  PROVE  /\ Cardinality(Promise!Holders) \in Nat
         /\ (from \in Holds /\ to \in Holds) =>
               Promise!Holders' = Promise!Holders
         /\ (from \notin Holds /\ to \in Holds) =>
               Cardinality(Promise!Holders') = Cardinality(Promise!Holders) + 1
         /\ (from \in Holds /\ to \notin Holds) =>
               Cardinality(Promise!Holders') = Cardinality(Promise!Holders) - 1
<1>1. IsFiniteSet(Promise!Holders) /\ Cardinality(Promise!Holders) \in Nat
  BY UsersAssumption, FS_Subset, FS_CardinalityType DEF Promise!Holders
<1>2. /\ Tickets[u] = from /\ Tickets'[u] = to
      /\ \A v \in Users : v # u => Tickets'[v] = Tickets[v]
  BY DEF Promise!Move, Promise!TypeOK
<1>3. (from \in Holds /\ to \in Holds) => Promise!Holders' = Promise!Holders
  BY <1>2 DEF Promise!Holders, Holds
<1>4. ASSUME from \notin Holds, to \in Holds
      PROVE  Cardinality(Promise!Holders') = Cardinality(Promise!Holders) + 1
  <2>1. Promise!Holders' = Promise!Holders \cup {u} /\ u \notin Promise!Holders
    BY <1>2, <1>4 DEF Promise!Holders, Holds
  <2> QED BY <1>1, <2>1, FS_AddElement
<1>5. ASSUME from \in Holds, to \notin Holds
      PROVE  Cardinality(Promise!Holders') = Cardinality(Promise!Holders) - 1
  <2>1. Promise!Holders' = Promise!Holders \ {u} /\ u \in Promise!Holders
    BY <1>2, <1>5 DEF Promise!Holders, Holds
  <2> QED BY <1>1, <2>1, FS_RemoveElement
<1> QED BY <1>1, <1>3, <1>4, <1>5

LEMMA PromiseInit ==
  ASSUME Promise!Init
  PROVE  PromiseInv
<1>1. Promise!TypeOK
  BY StockAssumption
  DEF Promise!Init, Promise!TypeOK, Promise!Mode, Promise!TicketState
<1>2. Promise!Holders = {}
  BY DEF Promise!Init, Promise!Holders
<1>3. Promise!EveryUnitAccountedFor
  BY <1>2, FS_EmptySet, SameCount, StockAssumption
  DEF Promise!Init, Promise!EveryUnitAccountedFor
<1> QED BY <1>1, <1>3 DEF PromiseInv

LEMMA PromiseStep ==
  ASSUME PromiseInv, [Promise!Next]_(Promise!vars)
  PROVE  PromiseInv'
<1> USE DEF PromiseInv
<1>1. ASSUME NEW u \in Users, Promise!Buy(u) \/ Promise!Admit(u)
      PROVE  PromiseInv'
  <2>1. PICK to \in {"bought", "pending"} : Promise!Move(u, "none", to)
    BY <1>1 DEF Promise!Buy, Promise!Admit
  <2>2. UnitsLeft' = UnitsLeft - 1 /\ UnitsLeft > 0 /\ ModeShown' = ModeShown
    BY <1>1 DEF Promise!Buy, Promise!Admit
  <2>3. Cardinality(Promise!Holders) \in Nat
        /\ Cardinality(Promise!Holders') = Cardinality(Promise!Holders) + 1
    BY <2>1, MoveHolders DEF Holds
  <2>4. Promise!TypeOK'
    BY <2>1, <2>2 DEF Promise!TypeOK, Promise!Move, Promise!TicketState
  <2>5. UnitsLeft \in Nat
    BY DEF Promise!TypeOK
  <2>6. Promise!EveryUnitAccountedFor'
    BY <2>2, <2>3, <2>5, SameCount DEF Promise!EveryUnitAccountedFor
  <2> QED BY <2>4, <2>6
<1>2. ASSUME NEW u \in Users, Promise!Confirm(u) \/ Promise!Reject(u)
      PROVE  PromiseInv'
  <2>1. PICK to \in {"created", "failed"} : Promise!Move(u, "pending", to)
    BY <1>2 DEF Promise!Confirm, Promise!Reject
  <2>2. UnitsLeft' = UnitsLeft /\ ModeShown' = ModeShown
    BY <1>2 DEF Promise!Confirm, Promise!Reject
  <2>3. Promise!Holders' = Promise!Holders
    BY <2>1, MoveHolders DEF Holds
  <2>4. Promise!TypeOK'
    BY <2>1, <2>2 DEF Promise!TypeOK, Promise!Move, Promise!TicketState
  <2> QED BY <2>2, <2>3, <2>4 DEF Promise!EveryUnitAccountedFor
<1>3. ASSUME NEW u \in Users, Promise!Refund(u)
      PROVE  PromiseInv'
  <2>1. /\ Promise!Move(u, "failed", "refunded")
        /\ UnitsLeft' = UnitsLeft + 1 /\ ModeShown' = ModeShown
    BY <1>3 DEF Promise!Refund
  <2>2. Cardinality(Promise!Holders) \in Nat
        /\ Cardinality(Promise!Holders') = Cardinality(Promise!Holders) - 1
    BY <2>1, MoveHolders DEF Holds
  <2>3. Promise!TypeOK'
    BY <2>1 DEF Promise!TypeOK, Promise!Move, Promise!TicketState
  <2>4. UnitsLeft \in Nat
    BY DEF Promise!TypeOK
  <2>5. Promise!EveryUnitAccountedFor'
    BY <2>1, <2>2, <2>4, SameCount DEF Promise!EveryUnitAccountedFor
  <2> QED BY <2>3, <2>5
<1>4. CASE Promise!Stage \/ Promise!Open
  BY <1>4
  DEF Promise!Stage, Promise!Open, Promise!TypeOK, Promise!Mode,
      Promise!EveryUnitAccountedFor, Promise!Holders
<1>5. CASE UNCHANGED Promise!vars
  BY <1>5
  DEF Promise!vars, Promise!TypeOK, Promise!EveryUnitAccountedFor,
      Promise!Holders
<1> QED BY <1>1, <1>2, <1>3, <1>4, <1>5 DEF Promise!Next

\* The free units and the users that hold one always add up to the initial
\* stock: what a ticket means to its owner (202 of POST /seckill-async) does
\* not depend on how many others hold one.
THEOREM PromiseConservesUnits ==
  Promise!SafeSpec => []Promise!EveryUnitAccountedFor
<1>1. Promise!Init => PromiseInv
  BY PromiseInit
<1>2. PromiseInv /\ [Promise!Next]_(Promise!vars) => PromiseInv'
  BY PromiseStep
<1>3. PromiseInv => Promise!EveryUnitAccountedFor
  BY DEF PromiseInv
<1> QED BY <1>1, <1>2, <1>3, PTL DEF Promise!SafeSpec

-----------------------------------------------------------------------------
(* The refinement of SeckillPromise *)

USE DEF ModeShown, UnitsLeft, Tickets

\* What the ticket of an event is worth.
StateOf(e) ==
    IF e \in Created THEN "created"
    ELSE IF e \in Owed THEN "failed"
    ELSE IF e \in Failed THEN "refunded"
    ELSE "pending"

BoughtDirectly(u) == \E o \in orders : o.user = u /\ o.event = 0

\* The ticket of a user is that of their only reservation.
TicketsSeen ==
    /\ \A e \in stream : TicketOf(e.user) = StateOf(e)
    /\ \A u \in Users : (\A e \in stream : e.user # u) =>
          TicketOf(u) = IF BoughtDirectly(u) THEN "bought" ELSE "none"

LEMMA TicketView == Before => TicketsSeen
<1> SUFFICES ASSUME Before PROVE TicketsSeen
  OBVIOUS
<1> USE DEF Before
<1>1. Created \subseteq stream /\ Failed \subseteq stream /\ Owed \subseteq Failed
  BY DEF NoLossInv, ResultInv, Resolved, Owed
<1>2. ASSUME NEW e \in stream
      PROVE  TicketOf(e.user) = StateOf(e)
  <2>1. asyncState = 2
    BY NothingYet
  <2>2. ~BoughtDirectly(e.user)
    BY <2>1 DEF BoughtDirectly, AlwaysInv, SqlInv, SyncAndAsyncNeverMix
  <2>3. \A f \in stream : f.user = e.user <=> f = e
    BY DEF NoLossInv, StreamInv
  <2>4. /\ (\E f \in Created : f.user = e.user) <=> e \in Created
        /\ (\E f \in Owed : f.user = e.user) <=> e \in Owed
        /\ (\E f \in Failed : f.user = e.user) <=> e \in Failed
        /\ \E f \in stream : f.user = e.user
    BY <1>1, <2>3
  <2> QED BY <2>2, <2>4, Zenon DEF TicketOf, StateOf, BoughtDirectly
<1>3. ASSUME NEW u \in Users, \A e \in stream : e.user # u
      PROVE  TicketOf(u) = IF BoughtDirectly(u) THEN "bought" ELSE "none"
  <2>1. /\ ~ \E f \in Created : f.user = u
        /\ ~ \E f \in Owed : f.user = u
        /\ ~ \E f \in Failed : f.user = u
        /\ ~ \E f \in stream : f.user = u
    BY <1>1, <1>3
  <2> QED BY <2>1, Zenon DEF TicketOf, BoughtDirectly
<1> QED BY <1>2, <1>3 DEF TicketsSeen

\* The same after the step.
LEMMA TicketViewNext == Before' => TicketsSeen'
  BY TicketView, PTL

\* What a step means that leaves all of this alone.
LEMMA TicketFrame ==
  ASSUME UNCHANGED <<orders, results, compensated, stream>>
  PROVE  \A u : TicketOf(u)' = TicketOf(u)
<1>1. Created' = Created /\ Failed' = Failed
  BY DEF Created, Failed
<1>2. Owed' = Owed
  BY <1>1 DEF Owed
<1> QED BY <1>1, <1>2 DEF TicketOf
-----------------------------------------------------------------------------
LEMMA MoveOne ==
  ASSUME NEW u \in Users, NEW from, NEW to,
         TicketOf(u) = from, TicketOf(u)' = to,
         \A v \in Users : v # u => TicketOf(v)' = TicketOf(v)
  PROVE  Promise!Move(u, from, to)
  BY DEF Promise!Move

\* A worker's step on one event moves the ticket of its user.
LEMMA MoveEvent ==
  ASSUME Before, Before', asyncState = 2, asyncState' = 2,
         NEW e \in stream, stream' = stream,
         \A f \in stream : f # e =>
            /\ f \in Created' <=> f \in Created
            /\ f \in Failed' <=> f \in Failed
            /\ f \in compensated' <=> f \in compensated,
         NEW from, NEW to, StateOf(e) = from, StateOf(e)' = to
  PROVE  Promise!Move(e.user, from, to)
<1> USE DEF Before
<1>1. TicketsSeen /\ TicketsSeen'
  BY TicketView, TicketViewNext
<1>2. e.user \in Users
  BY DEF TypeOK, Event
<1>3. TicketOf(e.user) = from /\ TicketOf(e.user)' = to
  BY <1>1 DEF TicketsSeen
<1>4. ASSUME NEW v \in Users, v # e.user
      PROVE  TicketOf(v)' = TicketOf(v)
  <2>1. CASE \E f \in stream : f.user = v
    <3>1. PICK f \in stream : f.user = v
      BY <2>1
    <3>2. f # e
      BY <1>4, <3>1
    <3>3. StateOf(f)' = StateOf(f)
      BY <3>2 DEF StateOf, Owed
    <3> QED BY <1>1, <3>1, <3>3 DEF TicketsSeen
  <2>2. CASE \A f \in stream : f.user # v
    <3>1. ~BoughtDirectly(v) /\ ~BoughtDirectly(v)'
      BY DEF BoughtDirectly, AlwaysInv, SqlInv, SyncAndAsyncNeverMix
    <3>2. /\ TicketOf(v) = IF BoughtDirectly(v) THEN "bought" ELSE "none"
          /\ TicketOf(v)' = IF BoughtDirectly(v)' THEN "bought" ELSE "none"
      BY <1>1, <2>2 DEF TicketsSeen
    <3> QED BY <3>1, <3>2
  <2> QED BY <2>1, <2>2
<1> QED BY <1>2, <1>3, <1>4, MoveOne

LEMMA Stutter ==
  ASSUME UNCHANGED <<asyncState, stock, rStock, orders, results, compensated,
                     stream>>
  PROVE  UNCHANGED Promise!vars
  BY TicketFrame DEF Promise!vars

LEMMA PlaceBuys ==
  ASSUME Before, Before', NEW u \in Users, Place(u)
  PROVE  Promise!Buy(u)
<1>1. TicketsSeen /\ TicketsSeen'
  BY TicketView, TicketViewNext
<1>2. /\ asyncState = 0 /\ asyncState' = 0 /\ stock > 0 /\ stock' = stock - 1
      /\ ~HasOrder(u) /\ orders' = orders \cup {[user |-> u, event |-> 0]}
  BY DEF Place
<1>3. stream = {} /\ stream' = {}
  BY <1>2 DEF Place, Before, NoLossInv, ModeInv
<1>4. \A v \in Users :
         /\ TicketOf(v) = IF BoughtDirectly(v) THEN "bought" ELSE "none"
         /\ TicketOf(v)' = IF BoughtDirectly(v)' THEN "bought" ELSE "none"
  BY <1>1, <1>3 DEF TicketsSeen
<1>5. ~BoughtDirectly(u) /\ BoughtDirectly(u)'
  <2> DEFINE o == [user |-> u, event |-> 0]
  <2>1. o.user = u /\ o.event = 0 /\ o \in orders'
    BY <1>2
  <2> HIDE DEF o
  <2>2. BoughtDirectly(u)'
    BY <2>1 DEF BoughtDirectly
  <2>3. ~BoughtDirectly(u)
    BY <1>2 DEF BoughtDirectly, HasOrder
  <2> QED BY <2>2, <2>3
<1>6. \A v \in Users : v # u => (BoughtDirectly(v)' <=> BoughtDirectly(v))
  BY <1>2 DEF BoughtDirectly
<1>7. Promise!Move(u, "none", "bought")
  <2>1. TicketOf(u) = "none" /\ TicketOf(u)' = "bought"
    BY <1>4, <1>5
  <2>2. \A v \in Users : v # u => TicketOf(v)' = TicketOf(v)
    BY <1>4, <1>6
  <2> QED BY <2>1, <2>2, MoveOne
<1> QED BY <1>2, <1>7 DEF Promise!Buy

LEMMA StageStages ==
  ASSUME Before, NEW e \in Enablers, EnableStage(e)
  PROVE  Promise!Stage \/ UNCHANGED Promise!vars
<1>1. CASE asyncState = 0
  <2>1. /\ orders = {} /\ stock > 0 /\ asyncState' = 1
        /\ UNCHANGED <<stock, orders, results, compensated, stream>>
    BY <1>1 DEF EnableStage, NeverOrdered
  <2>2. stream = {}
    BY <1>1, NothingYet DEF Before
  <2>3. \A u \in Users : TicketOf(u) = "none"
    BY <2>1, <2>2, TicketView DEF TicketsSeen, BoughtDirectly
  <2>4. \A u \in Users : TicketOf(u)' = TicketOf(u)
    BY <2>1, TicketFrame
  <2> QED BY <1>1, <2>1, <2>3, <2>4 DEF Promise!Stage
<1>2. CASE asyncState # 0
  BY <1>2, Stutter DEF EnableStage
<1> QED BY <1>1, <1>2

LEMMA ActivateOpens ==
  ASSUME Before, NEW e \in Enablers, EnableActivate(e)
  PROVE  Promise!Open \/ UNCHANGED Promise!vars
<1>1. /\ asyncState \in {1, 2} /\ asyncState' = 2
      /\ UNCHANGED <<stock, rStock, orders, results, compensated, stream>>
  BY DEF EnableActivate
<1>2. CASE asyncState = 1
  <2>1. stateKey
    BY DEF EnableActivate, Before, NoLossInv, ModeInv
  <2>2. rStock = stock
    BY <1>2, <2>1 DEF Before, NoLossInv, SnapshotInv
  <2>3. \A u \in Users : TicketOf(u)' = TicketOf(u)
    BY <1>1, TicketFrame
  <2> QED BY <1>1, <1>2, <2>2, <2>3 DEF Promise!Open
<1>3. CASE asyncState = 2
  BY <1>1, <1>3, Stutter
<1> QED BY <1>1, <1>2, <1>3

\* Seeding is invisible: the buyers of a staged activity see the SQL stock.
LEMMA PrepareIsInvisible ==
  ASSUME Before, NEW e \in Enablers, EnablePrepare(e)
  PROVE  UNCHANGED Promise!vars
<1>1. CASE KeysAbsent
  <2>1. asyncState = 1
    BY <1>1, PrepareSeeds DEF Before
  <2>2. stream = {} /\ compensated = {}
    BY <2>1, NothingYet DEF Before
  <2>3. UNCHANGED <<asyncState, stock, orders, results, compensated, stream>>
    BY <1>1, <2>2 DEF EnablePrepare
  <2>4. \A u \in Users : TicketOf(u)' = TicketOf(u)
    BY <2>3, TicketFrame
  <2> QED BY <2>1, <2>3, <2>4 DEF Promise!vars
<1>2. CASE ~KeysAbsent
  BY <1>2, Stutter DEF EnablePrepare
<1> QED BY <1>1, <1>2
LEMMA ReserveAdmits ==
  ASSUME Before, Before', NEW u \in Users, AcceptReserve(u)
  PROVE  Promise!Admit(u)
<1>0. PICK n : n = NewEvent(u)
  OBVIOUS
<1>1. TicketsSeen /\ TicketsSeen'
  BY TicketView, TicketViewNext
<1>2. /\ n.user = u /\ asyncState = 2 /\ rStock > 0 /\ n \notin stream
      /\ \A e \in stream : e.user # u
  BY <1>0, Reserved
<1>3. /\ asyncState' = 2 /\ stream' = stream \cup {n} /\ rStock' = rStock - 1
      /\ UNCHANGED <<orders, results, compensated>>
  BY <1>0, <1>2 DEF AcceptReserve
<1>4. Created' = Created /\ Failed' = Failed /\ Owed' = Owed
  BY <1>3 DEF Created, Failed, Owed
<1>5. \A e : StateOf(e)' = StateOf(e)
  BY <1>4 DEF StateOf
<1>6. \A v \in Users : BoughtDirectly(v)' <=> BoughtDirectly(v)
  BY <1>3 DEF BoughtDirectly
<1>7. TicketOf(u) = "none"
  <2>1. ~BoughtDirectly(u)
    BY <1>2 DEF BoughtDirectly, Before, AlwaysInv, SqlInv, SyncAndAsyncNeverMix
  <2> QED BY <1>1, <1>2, <2>1 DEF TicketsSeen
<1>8. TicketOf(u)' = "pending"
  <2>1. n \notin Created /\ n \notin Failed
    BY <1>2 DEF Before, NoLossInv, ResultInv, Resolved
  <2>2. StateOf(n) = "pending"
    BY <2>1 DEF StateOf, Owed
  <2>3. TicketOf(u)' = StateOf(n)'
    BY <1>1, <1>2, <1>3 DEF TicketsSeen
  <2> QED BY <1>5, <2>2, <2>3
<1>9. ASSUME NEW v \in Users, v # u
      PROVE  TicketOf(v)' = TicketOf(v)
  <2>1. ASSUME NEW e \in stream, e.user = v
        PROVE  TicketOf(v)' = TicketOf(v)
    BY <1>1, <1>3, <1>5, <2>1 DEF TicketsSeen
  <2>2. ASSUME \A e \in stream : e.user # v
        PROVE  TicketOf(v)' = TicketOf(v)
    <3>1. \A e \in stream' : e.user # v
      BY <1>2, <1>3, <1>9, <2>2
    <3> QED BY <1>1, <1>6, <2>2, <3>1 DEF TicketsSeen
  <2> QED BY <2>1, <2>2
<1>10. Promise!Move(u, "none", "pending")
  BY <1>7, <1>8, <1>9, MoveOne
<1> QED BY <1>2, <1>3, <1>10 DEF Promise!Admit

LEMMA ApplySettles ==
  ASSUME Before, Before', NEW w \in Workers, NEW e \in batch[w],
         WorkerApply(w, e)
  PROVE  \/ \E u \in Users : Promise!Confirm(u) \/ Promise!Reject(u)
         \/ UNCHANGED Promise!vars
<1>1. e \in stream /\ asyncState = 2 /\ e.user \in Users
  BY InHand DEF Before, TypeOK, Event
<1>2. UNCHANGED <<asyncState, rStock, stream, compensated>>
  BY DEF WorkerApply
<1>3. CASE UNCHANGED <<stock, results>>
  <2>1. UNCHANGED orders
    <3>1. ASSUME ApplyCreated(w, e) \/ ApplyFailed(w, e), ResultsOf(e) = {}
          PROVE  results' # results
      <4> DEFINE c == [event |-> e, status |-> "created", reason |-> ""]
                 f == [event |-> e, status |-> "failed",
                       reason |-> Refusal(e)]
      <4>1. c \in results' \/ f \in results'
        BY <3>1 DEF ApplyCreated, ApplyFailed
      <4>2. c.event = e /\ f.event = e
        OBVIOUS
      <4> HIDE DEF c, f
      <4> QED BY <3>1, <4>1, <4>2 DEF ResultsOf
    <3> QED BY <1>3, <3>1 DEF WorkerApply, ApplyAgain
  <2> QED BY <1>2, <1>3, <2>1, Stutter
<1>4. CASE ~UNCHANGED <<stock, results>>
  <2>1. /\ e \in Unresolved
        /\ \/ Created' = Created \cup {e} /\ Failed' = Failed
           \/ Failed' = Failed \cup {e} /\ Created' = Created
    BY <1>4, Verdict
  <2>2. e \notin Created /\ e \notin Failed /\ e \notin compensated
    BY <2>1 DEF Unresolved, Resolved, Before, AlwaysInv, RefundInv,
                RefundsFollowFailures
  <2>4. StateOf(e) = "pending"
    BY <2>2 DEF StateOf, Owed
  <2>5. StateOf(e)' = "created" \/ StateOf(e)' = "failed"
    BY <1>2, <2>1, <2>2 DEF StateOf, Owed
  <2>6. CASE StateOf(e)' = "created"
    <3>1. Promise!Move(e.user, "pending", "created")
      BY <1>1, <1>2, <2>1, <2>4, <2>6, MoveEvent
    <3> QED BY <1>1, <1>2, <3>1 DEF Promise!Confirm
  <2>7. CASE StateOf(e)' = "failed"
    <3>1. Promise!Move(e.user, "pending", "failed")
      BY <1>1, <1>2, <2>1, <2>4, <2>7, MoveEvent
    <3> QED BY <1>1, <1>2, <3>1 DEF Promise!Reject
  <2> QED BY <2>5, <2>6, <2>7
<1> QED BY <1>3, <1>4

LEMMA CompensateRefunds ==
  ASSUME Before, Before', NEW w \in Workers, NEW e \in batch[w],
         WorkerCompensate(w, e)
  PROVE  (\E u \in Users : Promise!Refund(u)) \/ UNCHANGED Promise!vars
<1>1. e \in stream /\ asyncState = 2 /\ e.user \in Users
  BY InHand DEF Before, TypeOK, Event
<1>2. UNCHANGED <<asyncState, stock, orders, stream, results>>
  BY DEF WorkerCompensate
<1>3. CASE Refunded(e)
  BY <1>2, <1>3, Stutter DEF WorkerCompensate
<1>4. CASE ~Refunded(e)
  <2>1. rStock' = rStock + 1 /\ compensated' = compensated \cup {e}
    BY <1>4 DEF WorkerCompensate
  <2>2. Created' = Created /\ Failed' = Failed
    BY <1>2 DEF Created, Failed
  <2>3. e \in Failed /\ e \notin compensated
    BY <1>4 DEF WorkerCompensate, Before, AlwaysInv, RefundInv, Refunded
  <2>4. e \notin Created
    <3>1. PICK r \in results : r.status = "failed" /\ r.event = e
      BY <2>3, OutcomeOf
    <3> QED BY <3>1, OutcomeOf DEF Before, NoLossInv, ResultInv
  <2>6. StateOf(e) = "failed"
    BY <2>3, <2>4 DEF StateOf, Owed
  <2>7. StateOf(e)' = "refunded"
    BY <2>1, <2>2, <2>3, <2>4 DEF StateOf, Owed
  <2>8. Promise!Move(e.user, "failed", "refunded")
    BY <1>1, <1>2, <2>1, <2>2, <2>6, <2>7, MoveEvent
  <2> QED BY <1>1, <1>2, <2>1, <2>8 DEF Promise!Refund
<1> QED BY <1>3, <1>4

-----------------------------------------------------------------------------
\* Every step of the machinery is a step of the promise or invisible.
LEMMA StepKeepsPromise ==
  ASSUME Before, Before', Kept
  PROVE  [Promise!Next]_(Promise!vars)
<1>1. ASSUME NEW e \in Enablers, EnablerStep(e)
      PROVE  Promise!Next \/ UNCHANGED Promise!vars
  <2>1. CASE EnableStage(e)
    BY <2>1, StageStages DEF Promise!Next
  <2>2. CASE EnablePrepare(e)
    BY <2>2, PrepareIsInvisible
  <2>3. CASE EnableCheck(e) \/ EnableStop(e)
    BY <2>3, Stutter DEF EnableCheck, EnableStop
  <2>4. CASE EnableActivate(e)
    BY <2>4, ActivateOpens DEF Promise!Next
  <2> QED BY <1>1, <2>1, <2>2, <2>3, <2>4 DEF EnablerStep
<1>2. ASSUME NEW u \in Users, BuyerStep(u)
      PROVE  Promise!Next \/ UNCHANGED Promise!vars
  <2>1. CASE Place(u)
    BY <2>1, PlaceBuys DEF Promise!Next
  <2>2. CASE AcceptReserve(u)
    BY <2>2, ReserveAdmits DEF Promise!Next
  <2>3. CASE AcceptRead(u) \/ AcceptRefused(u)
    BY <2>3, Stutter DEF AcceptRead, AcceptRefused
  <2> QED BY <1>2, <2>1, <2>2, <2>3 DEF BuyerStep
<1>3. ASSUME NEW w \in Workers, WorkerStep(w)
      PROVE  Promise!Next \/ UNCHANGED Promise!vars
  <2>1. ASSUME NEW e \in batch[w], WorkerApply(w, e)
        PROVE  Promise!Next \/ UNCHANGED Promise!vars
    BY <2>1, ApplySettles DEF Promise!Next
  <2>2. ASSUME NEW e \in batch[w], WorkerCompensate(w, e)
        PROVE  Promise!Next \/ UNCHANGED Promise!vars
    BY <2>2, CompensateRefunds DEF Promise!Next
  <2>3. ASSUME NEW e \in batch[w], WorkerAck(w, e) \/ WorkerRetain(w, e)
        PROVE  UNCHANGED Promise!vars
    BY <2>3, Stutter DEF WorkerAck, WorkerRetain
  <2>4. ASSUME NEW S \in SUBSET pel, WorkerClaim(w, S)
        PROVE  UNCHANGED Promise!vars
    BY <2>4, Stutter DEF WorkerClaim
  <2>5. CASE WorkerRead(w) \/ WorkerReadFails(w) \/ WorkerCrash(w)
    BY <2>5, Stutter DEF WorkerRead, WorkerReadFails, WorkerCrash
  <2> QED BY <1>3, <2>1, <2>2, <2>3, <2>4, <2>5
          DEF WorkerStep, WorkerProgress
<1>4. CASE Environment
  BY <1>4, NothingLost, Stutter DEF Before, Tick, DeleteUser
<1>5. CASE UNCHANGED vars
  BY <1>5, Stutter DEF vars
<1> QED BY <1>1, <1>2, <1>3, <1>4, <1>5 DEF Kept, Next

LEMMA InitKeepsPromise == Init => Promise!Init
<1> SUFFICES ASSUME Init PROVE Promise!Init
  OBVIOUS
<1>1. Created = {} /\ Failed = {} /\ Owed = {}
  BY DEF Init, Created, Failed, Owed
<1>2. \A u \in Users : TicketOf(u) = "none"
  BY <1>1 DEF Init, TicketOf
<1> QED BY <1>2 DEF Init, Promise!Init

\* As long as Redis loses nothing, two stores without a common transaction, a
\* queue that delivers at least once and processes that die anywhere amount
\* to the promise: each unit is free or held by one user, a ticket is admitted
\* against a unit, decided once, and its unit comes back at most once.
THEOREM PromiseIsKept == Spec /\ [](losses = 0) => KeepsPromise
<1>1. IInv /\ losses = 0 => Before
  BY DEF IInv, Before
<1>2. Before /\ Before' /\ (losses = 0)' /\ [Next]_vars
         => [Promise!Next]_(Promise!vars)
  BY StepKeepsPromise DEF Kept
<1> QED
  BY <1>1, <1>2, InitKeepsPromise, InvariantHolds, PTL
  DEF Spec, KeepsPromise, Promise!SafeSpec

\* So the free units, which MySQL counts before the activation and Redis
\* afterwards, and the users that hold one always add up to the initial stock.
THEOREM UnitsAlwaysAccountedFor ==
  Spec /\ [](losses = 0) => []Promise!EveryUnitAccountedFor
BY PromiseIsKept, PromiseConservesUnits DEF KeepsPromise

\* After activation no enable command, however late, and no retry raises the
\* Redis stock: it rises by one unit for one failed event not yet marked.
THEOREM StockRisesByRefundsOnly ==
  Spec /\ [](losses = 0) => OnlyRefundsReplenish
<1> DEFINE Refill == (asyncState = 2 /\ rStock' > rStock) =>
             /\ rStock' = rStock + 1
             /\ \E e \in Failed : e \notin compensated
                                  /\ compensated' = compensated \cup {e}
<1>1. ASSUME Before, Kept
      PROVE  Refill
  <2>1. ASSUME NEW e \in Enablers, EnablerStep(e), asyncState = 2
        PROVE  rStock' = rStock
    BY <1>1, <2>1
    DEF Before, NoLossInv, ModeInv, EnablerStep, EnableStage, EnablePrepare,
        KeysAbsent, EnableCheck, EnableActivate, EnableStop
  <2>2. ASSUME NEW u \in Users, BuyerStep(u)
        PROVE  rStock' = rStock \/ rStock' = rStock - 1
    BY <2>2 DEF BuyerStep, Place, AcceptRead, AcceptReserve, AcceptRefused
  <2>3. ASSUME NEW w \in Workers, WorkerStep(w), rStock' # rStock
        PROVE  /\ rStock' = rStock + 1
               /\ \E e \in Failed : e \notin compensated
                                    /\ compensated' = compensated \cup {e}
    <3>1. PICK e \in batch[w] : WorkerCompensate(w, e)
      BY <2>3
      DEF WorkerStep, WorkerProgress, WorkerClaim, WorkerRead, WorkerReadFails,
          WorkerApply, WorkerAck, WorkerRetain, WorkerCrash
    <3>2. /\ rStock' = rStock + 1 /\ e \notin compensated
          /\ compensated' = compensated \cup {e}
      BY <2>3, <3>1 DEF WorkerCompensate, Refunded
    <3>3. e \in Failed
      BY <1>1, <3>1 DEF WorkerCompensate, Before, AlwaysInv, RefundInv
    <3> QED BY <3>2, <3>3
  <2>4. CASE Environment
    BY <1>1, <2>4, NothingLost DEF Before, Tick, DeleteUser, TypeOK
  <2>5. CASE UNCHANGED vars
    BY <1>1, <2>5 DEF vars, Before, TypeOK
  <2>6. rStock' = rStock \/ rStock' = rStock - 1 => ~(rStock' > rStock)
    BY <1>1 DEF Before, TypeOK
  <2> QED BY <1>1, <2>1, <2>2, <2>3, <2>4, <2>5, <2>6 DEF Kept, Next
<1>2. IInv /\ losses = 0 /\ (losses = 0)' /\ [Next]_vars => [Refill]_vars
  BY <1>1 DEF IInv, Before, Kept
<1> QED
  BY <1>2, InvariantHolds, PTL DEF Spec, OnlyRefundsReplenish

-----------------------------------------------------------------------------
(* SeckillResult: the invariant *)

\* UNIQUE (voucher, generation, user) and the single generation of an open
\* activity leave every user one result at most, whatever Redis loses.
OutcomeInv ==
    /\ \A r \in results : asyncState = 2 /\ r.event.gen = generation
    /\ \A r, q \in results : r.event.user = q.event.user => r = q

\* A final answer repeats a committed result, and once it was given a query
\* never gets past its first call.
FinalInv ==
    \A u \in Askers :
       answer[u].status \in {"created", "failed"} =>
          /\ query[u] = "idle"
          /\ \E r \in results : /\ r.event.user = u
                                /\ r.status = answer[u].status
                                /\ r.event.id = answer[u].ticket

\* A pending answer names the user's entry of the stream; the other answers
\* name no ticket.
PendingInv ==
    \A u \in Askers :
       /\ answer[u].status = "pending" =>
             \E e \in stream : e.user = u /\ e.id = answer[u].ticket
       /\ answer[u].status \notin {"pending", "created", "failed"} =>
             answer[u].ticket = 0

AnswerInv ==
    /\ AskTypeOK
    /\ OutcomeInv
    /\ FinalInv
    /\ losses = 0 => PendingInv

AskStep == (Next /\ UNCHANGED askVars) \/ AskNext

-----------------------------------------------------------------------------
LEMMA ResultsBelow == ResultSpec => Spec
<1>1. [AskStep]_allVars => [Next]_vars
  BY DEF AskStep, AskNext, AskResult, AskActivity, AskReceipt, allVars
<1>2. AskInit => Init
  BY DEF AskInit
<1> QED BY <1>1, <1>2, PTL DEF ResultSpec, Spec, AskStep

\* An open activity stays open, under the same generation.
LEMMA OpenStays ==
  ASSUME TypeOK, [Next]_vars, asyncState = 2
  PROVE  asyncState' = 2 /\ generation' = generation
<1>1. ASSUME NEW e \in Enablers, EnablerStep(e)
      PROVE  asyncState' = 2 /\ generation' = generation
  BY <1>1 DEF EnablerStep, EnableStage, EnablePrepare, EnableCheck,
              EnableActivate, EnableStop
<1>2. ASSUME NEW u \in Users, BuyerStep(u)
      PROVE  asyncState' = 2 /\ generation' = generation
  BY <1>2 DEF BuyerStep, Place, AcceptRead, AcceptReserve, AcceptRefused
<1>3. CASE Environment
  BY <1>3 DEF Environment, Tick, DeleteUser, LoseState, LoseEvents
<1> QED BY <1>1, <1>2, <1>3, WorkerFrame DEF Next, vars

\* What Apply commits is the only result of its user.
LEMMA OneOutcome ==
  ASSUME OutcomeInv, NEW w \in Workers, NEW e \in batch[w], WorkerApply(w, e),
         results' # results
  PROVE  \E r : /\ results' = results \cup {r} /\ r.event = e
                /\ asyncState = 2 /\ e.gen = generation
                /\ \A q \in results : q.event.user # e.user
<1> DEFINE c == [event |-> e, status |-> "created", reason |-> ""]
           f == [event |-> e, status |-> "failed", reason |-> Refusal(e)]
<1>1. CanRecord(e) /\ (ApplyCreated(w, e) \/ ApplyFailed(w, e))
  BY DEF WorkerApply, ApplyAgain
<1>2. results' = results \cup {c} \/ results' = results \cup {f}
  BY <1>1 DEF ApplyCreated, ApplyFailed
<1>3. /\ asyncState = 2 /\ e.gen = generation
      /\ \A q \in results : q.event.user # e.user
  BY <1>1 DEF CanRecord, OutcomeInv
<1>4. c.event = e /\ f.event = e
  OBVIOUS
<1> HIDE DEF c, f
<1> QED BY <1>2, <1>3, <1>4

LEMMA OutcomeStep ==
  ASSUME TypeOK, OutcomeInv, [Next]_vars
  PROVE  OutcomeInv' /\ results \subseteq results'
<1>1. CASE results' = results
  BY <1>1, OpenStays DEF OutcomeInv
<1>2. ASSUME NEW w \in Workers, NEW e \in batch[w], WorkerApply(w, e),
             results' # results
      PROVE  OutcomeInv' /\ results \subseteq results'
  <2>1. PICK r : /\ results' = results \cup {r} /\ r.event = e
                 /\ asyncState = 2 /\ e.gen = generation
                 /\ \A q \in results : q.event.user # e.user
    BY <1>2, OneOutcome
  <2>2. asyncState' = 2 /\ generation' = generation
    BY <2>1, OpenStays
  <2>3. \A q \in results' : asyncState' = 2 /\ q.event.gen = generation'
    BY <2>1, <2>2 DEF OutcomeInv
  <2>4. \A p, q \in results' : p.event.user = q.event.user => p = q
    BY <2>1 DEF OutcomeInv
  <2> QED BY <2>1, <2>3, <2>4 DEF OutcomeInv
<1> QED BY <1>1, <1>2, ResultsGrow

-----------------------------------------------------------------------------
LEMMA InitAnswer == AskInit => AnswerInv
<1> SUFFICES ASSUME AskInit PROVE AnswerInv
  OBVIOUS
<1>1. NoAnswer \in Answer
  BY DEF NoAnswer, Answer
<1>2. AskTypeOK
  BY <1>1 DEF AskInit, AskTypeOK
<1>3. \A u \in Askers : answer[u].status = "none" /\ answer[u].ticket = 0
  BY DEF AskInit, NoAnswer
<1>4. OutcomeInv
  BY DEF AskInit, Init, OutcomeInv
<1> QED BY <1>2, <1>3, <1>4 DEF AnswerInv, FinalInv, PendingInv

LEMMA ReplyIs ==
  ASSUME AskTypeOK, NEW u \in Askers, NEW s, NEW t, Reply(u, s, t)
  PROVE  /\ query'[u] = "idle"
         /\ answer'[u].status = s /\ answer'[u].ticket = t
         /\ \A v \in Askers \ {u} : query'[v] = query[v]
                                    /\ answer'[v] = answer[v]
  BY DEF AskTypeOK, Reply

LEMMA ProceedIs ==
  ASSUME AskTypeOK, NEW u \in Askers, NEW s, Proceed(u, s)
  PROVE  /\ query'[u] = s /\ answer' = answer
         /\ \A v \in Askers \ {u} : query'[v] = query[v]
  BY DEF AskTypeOK, Proceed

\* What the answer to u's query may be: one case per call and reply.
Replies(u) ==
    \/ /\ query[u] = "idle"
       /\ \E r \in results : r.event.user = u /\ Reply(u, r.status, r.event.id)
    \/ /\ query[u] = "activity" /\ asyncState # 2
       /\ Reply(u, "conflict", 0)
    \/ /\ query[u] = "receipt"
       /\ \E e \in stream : e.user = u /\ Reply(u, "pending", e.id)
    \/ /\ query[u] = "receipt"
       /\ \A e \in buyers : e.user # u
       /\ Reply(u, "not_found", 0)
    \/ /\ query[u] = "receipt"
       /\ ~\E e \in buyers \cap stream :
             /\ e.user = u /\ e.gen = rGeneration /\ e.gen = generation
             /\ stateKey /\ eventsKey
       /\ Reply(u, "dependency", 0)

\* How the query goes on without an answer.
Proceeds(u) ==
    \/ /\ query[u] = "idle"
       /\ \A r \in results : r.event.user # u
       /\ Proceed(u, "activity")
    \/ query[u] = "activity" /\ Proceed(u, "receipt")

LEMMA AskCases ==
  ASSUME NEW u \in Askers, AskResult(u) \/ AskActivity(u) \/ AskReceipt(u)
  PROVE  UNCHANGED vars /\ (Replies(u) \/ Proceeds(u))
<1>1. CASE AskResult(u)
  BY <1>1 DEF AskResult, Replies, Proceeds
<1>2. CASE AskActivity(u)
  BY <1>2 DEF AskActivity, Replies, Proceeds
<1>3. CASE AskReceipt(u)
  <2> DEFINE receipts == {e \in Receipt(u) : stateKey /\ eventsKey
                                             /\ e.gen = generation}
  <2>1. query[u] = "receipt" /\ UNCHANGED vars
    BY <1>3 DEF AskReceipt
  <2>2. CASE \E e \in receipts : Reply(u, "pending", e.id)
    BY <2>1, <2>2 DEF Receipt, Replies
  <2>3. CASE (~\E e \in buyers : e.user = u) /\ Reply(u, "not_found", 0)
    BY <2>1, <2>3 DEF Replies
  <2>4. CASE receipts = {} /\ Reply(u, "dependency", 0)
    BY <2>1, <2>4 DEF Receipt, Replies
  <2> QED BY <1>3, <2>2, <2>3, <2>4 DEF AskReceipt
<1> QED BY <1>1, <1>2, <1>3

LEMMA AskTypeStep ==
  ASSUME TypeOK, AskTypeOK, [AskStep]_allVars
  PROVE  AskTypeOK'
<1>1. ASSUME NEW u \in Askers, Replies(u) PROVE AskTypeOK'
  <2>1. \A r \in results : r.status \in {"created", "failed"}
                           /\ r.event.id \in Nat
    BY DEF TypeOK, Result, Event
  <2>2. \A e \in stream : e.id \in Nat
    BY DEF TypeOK, Event
  <2>3. PICK s, t : Reply(u, s, t) /\ [status |-> s, ticket |-> t] \in Answer
    BY <1>1, <2>1, <2>2 DEF Replies, Answer
  <2> QED BY <2>3 DEF Reply, AskTypeOK
<1>2. ASSUME NEW u \in Askers, Proceeds(u) PROVE AskTypeOK'
  BY <1>2 DEF Proceeds, Proceed, AskTypeOK
<1>3. CASE UNCHANGED askVars
  BY <1>3 DEF askVars, AskTypeOK
<1> QED BY <1>1, <1>2, <1>3, AskCases DEF AskStep, AskNext, allVars

\* Nothing an asker is told changes what it was told about an own ticket.
LEMMA AnswerStays ==
  ASSUME Before, OutcomeInv, AskTypeOK, FinalInv, PendingInv,
         NEW u \in Askers, Replies(u), answer[u].ticket # 0
  PROVE  /\ answer'[u].ticket = answer[u].ticket
         /\ answer[u].status # "pending" =>
               answer'[u].status = answer[u].status
<1> USE DEF Before
<1>1. answer[u].status \in {"pending", "created", "failed"}
  BY DEF PendingInv
<1>2. CASE answer[u].status # "pending"
  <2>1. PICK r \in results : /\ query[u] = "idle"
                             /\ r.event.user = u
                             /\ r.status = answer[u].status
                             /\ r.event.id = answer[u].ticket
    BY <1>1, <1>2 DEF FinalInv
  <2>2. PICK q \in results : /\ q.event.user = u
                             /\ Reply(u, q.status, q.event.id)
    BY <2>1 DEF Replies
  <2>3. q = r
    BY <2>1, <2>2 DEF OutcomeInv
  <2> QED BY <2>1, <2>2, <2>3, ReplyIs
<1>3. CASE answer[u].status = "pending"
  <2>1. PICK e \in stream : e.user = u /\ e.id = answer[u].ticket
    BY <1>3 DEF PendingInv
  <2>2. asyncState = 2
    BY <2>1, NothingYet
  <2>3. /\ e \in buyers /\ e.gen = generation /\ rGeneration = generation
        /\ stateKey /\ eventsKey
        /\ \A f \in stream : f.user = u => f = e
    BY <2>1, <2>2 DEF NoLossInv, ModeInv, SnapshotInv, StreamInv
  <2>4. \A r \in results : r.event \in stream
    <3>1. \A r \in results : r.status \in {"created", "failed"}
      BY DEF TypeOK, Result
    <3>2. \A r \in results : r.event \in Created \cup Failed
      BY <3>1, OutcomeOf
    <3> QED BY <3>2 DEF NoLossInv, ResultInv, Resolved
  <2>5. PICK s : Reply(u, s, e.id)
    BY <2>1, <2>2, <2>3, <2>4 DEF Replies
  <2> QED BY <1>3, <2>1, <2>5, ReplyIs
<1> QED BY <1>2, <1>3

LEMMA FinalStep ==
  ASSUME TypeOK, AskTypeOK, OutcomeInv, FinalInv, [AskStep]_allVars
  PROVE  FinalInv'
<1>1. results \subseteq results'
  <2>1. [Next]_vars
    BY AskCases DEF AskStep, AskNext, allVars
  <2> QED BY <2>1, OutcomeStep
<1>2. CASE UNCHANGED askVars
  BY <1>1, <1>2 DEF FinalInv, askVars
<1>3. ASSUME NEW u \in Askers, UNCHANGED vars, Replies(u)
      PROVE  FinalInv'
  <2>1. PICK s, t : Reply(u, s, t)
    BY <1>3 DEF Replies
  <2>2. /\ query'[u] = "idle"
        /\ \A v \in Askers \ {u} : query'[v] = query[v]
                                   /\ answer'[v] = answer[v]
    BY <2>1, ReplyIs
  <2>3. answer'[u].status \in {"created", "failed"} =>
           \E r \in results : /\ r.event.user = u
                              /\ r.status = answer'[u].status
                              /\ r.event.id = answer'[u].ticket
    BY <1>3, ReplyIs DEF Replies
  <2> QED BY <1>1, <2>2, <2>3 DEF FinalInv
<1>4. ASSUME NEW u \in Askers, UNCHANGED vars, Proceeds(u)
      PROVE  FinalInv'
  <2>1. answer[u].status \notin {"created", "failed"}
    BY <1>4 DEF Proceeds, FinalInv
  <2>2. answer' = answer /\ \A v \in Askers \ {u} : query'[v] = query[v]
    BY <1>4, ProceedIs DEF Proceeds
  <2> QED BY <1>1, <2>1, <2>2 DEF FinalInv
<1> QED BY <1>2, <1>3, <1>4, AskCases DEF AskStep, AskNext, allVars

LEMMA PendingStep ==
  ASSUME IInv, AnswerInv, [AskStep]_allVars, losses' = 0
  PROVE  PendingInv'
<1>1. [Next]_vars
  BY AskCases DEF AskStep, AskNext, allVars
<1>2. losses = 0
  BY <1>1, LossesStay DEF IInv, TypeOK
<1>3. Before /\ Kept /\ PendingInv
  BY <1>1, <1>2 DEF IInv, Before, Kept, AnswerInv
<1>4. stream \subseteq stream'
  BY <1>3, StreamGrows
<1>5. CASE answer' = answer
  BY <1>3, <1>4, <1>5 DEF PendingInv
<1>6. ASSUME NEW u \in Askers, Replies(u)
      PROVE  PendingInv'
  <2>1. \A r \in results : r.status \in {"created", "failed"}
    BY DEF IInv, TypeOK, Result
  <2>2. PICK s, t : /\ Reply(u, s, t)
                    /\ s = "pending" => \E e \in stream : e.user = u /\ e.id = t
                    /\ s \notin {"pending", "created", "failed"} => t = 0
    BY <1>6, <2>1 DEF Replies
  <2>3. /\ answer'[u].status = s /\ answer'[u].ticket = t
        /\ \A v \in Askers \ {u} : answer'[v] = answer[v]
    BY <2>2, ReplyIs DEF AnswerInv
  <2> QED BY <1>3, <1>4, <2>2, <2>3 DEF PendingInv
<1>7. ASSUME NEW u \in Askers, Proceeds(u)
      PROVE  answer' = answer
  BY <1>7 DEF Proceeds, Proceed
<1> QED BY <1>5, <1>6, <1>7, AskCases DEF AskStep, AskNext, allVars, askVars

\* The invariant of the queries over that of the machinery beneath them.
THEOREM AnswersInvariant == ResultSpec => [](IInv /\ AnswerInv)
<1>1. AskInit => AnswerInv
  BY InitAnswer
<1>2. ASSUME IInv, AnswerInv, [AskStep]_allVars
      PROVE  AnswerInv'
  <2>1. [Next]_vars
    BY <1>2, AskCases DEF AskStep, AskNext, allVars
  <2> QED BY <1>2, <2>1, AskTypeStep, OutcomeStep, FinalStep, PendingStep
         DEF AnswerInv, IInv
<1> QED BY <1>1, <1>2, ResultsBelow, InvariantHolds, PTL
       DEF ResultSpec, AskStep

\* What a buyer is told is never ahead of the truth, even if Redis loses its
\* data: created means that the order is in MySQL, failed that there is none
\* and, as results are final, never will be.
THEOREM AnswersAlwaysTrue == ResultSpec => []AnswersAreTrue
<1>1. ASSUME IInv, AnswerInv, NEW u \in Askers,
             answer[u].status = "created"
      PROVE  [user |-> u, event |-> answer[u].ticket] \in orders
  <2>1. PICK r \in results : /\ r.event.user = u
                             /\ r.status = "created"
                             /\ r.event.id = answer[u].ticket
    BY <1>1 DEF AnswerInv, FinalInv
  <2>2. r.event \in Created
    BY <2>1, OutcomeOf
  <2> QED BY <1>1, <2>1, <2>2 DEF IInv, AlwaysInv, SqlInv, OrdersFollowResults
<1>2. ASSUME IInv, AnswerInv, NEW u \in Askers,
             answer[u].status = "failed", NEW o \in orders, o.user = u
      PROVE  FALSE
  <2>1. PICK r \in results : r.event.user = u /\ r.status = "failed"
    BY <1>2 DEF AnswerInv, FinalInv
  <2>2. o.event # 0
    BY <1>2, <2>1 DEF AnswerInv, OutcomeInv, IInv, AlwaysInv, SqlInv,
                SyncAndAsyncNeverMix
  <2>3. PICK e \in Created : o = [user |-> e.user, event |-> e.id]
    BY <1>2, <2>2 DEF IInv, AlwaysInv, SqlInv, OrdersFollowResults
  <2>4. PICK q \in results : q.status = "created" /\ q.event = e
    BY OutcomeOf
  <2>5. q = r
    BY <1>2, <2>1, <2>3, <2>4 DEF AnswerInv, OutcomeInv
  <2> QED BY <2>1, <2>4, <2>5
<1>3. IInv /\ AnswerInv => AnswersAreTrue
  BY <1>1, <1>2 DEF AnswersAreTrue, HasOrder
<1> QED BY <1>3, AnswersInvariant, PTL

\* As long as Redis loses nothing, a ticket a user has seen never turns into
\* another one, into not_found or into conflict, and a final answer is final,
\* although the three calls of a query see three different states.
THEOREM AnswersAlwaysAdvance == ResultSpec => AnswersOnlyAdvance
<1> DEFINE Advances(u) ==
             (losses = 0 /\ answer[u].ticket # 0) =>
                /\ answer'[u].ticket = answer[u].ticket
                /\ answer[u].status # "pending" => answer'[u] = answer[u]
<1>1. ASSUME IInv, AnswerInv, [AskStep]_allVars, NEW u \in Askers
      PROVE  Advances(u)
  <2>1. CASE answer'[u] = answer[u]
    BY <2>1
  <2>2. CASE Replies(u) /\ losses = 0 /\ answer[u].ticket # 0
    <3>1. /\ answer'[u].ticket = answer[u].ticket
          /\ answer[u].status # "pending" =>
                answer'[u].status = answer[u].status
      BY <1>1, <2>2, AnswerStays DEF IInv, AnswerInv, Before
    <3>2. AskTypeOK /\ AskTypeOK'
      BY <1>1, AskTypeStep DEF IInv, AnswerInv
    <3>3. answer[u] \in Answer /\ answer'[u] \in Answer
      BY <3>2 DEF AskTypeOK
    <3> QED BY <3>1, <3>3 DEF Answer
  <2>3. ASSUME NEW v \in Askers \ {u}, Replies(v)
        PROVE  answer'[u] = answer[u]
    BY <1>1, <2>3, ReplyIs DEF Replies, AnswerInv
  <2>4. ASSUME NEW v \in Askers, Proceeds(v)
        PROVE  answer'[u] = answer[u]
    BY <2>4 DEF Proceeds, Proceed
  <2> QED BY <1>1, <2>1, <2>2, <2>3, <2>4, AskCases
         DEF AskStep, AskNext, allVars, askVars
<1>2. ASSUME IInv /\ AnswerInv, [AskStep]_allVars
      PROVE  \A u \in Askers : Advances(u)
  BY <1>1, <1>2
<1> QED BY <1>2, AnswersInvariant, PTL
       DEF ResultSpec, AskStep, AnswersOnlyAdvance

-----------------------------------------------------------------------------
(* VoucherView: that a sold-out page stays true in the asynchronous mode   *)
(* rests on the reconciliation of Redis and MySQL (StockInv).              *)

\* Only Place adds an order of no event: the others carry a stream ID.
LEMMA DirectOrders ==
  ASSUME TypeOK, Next, NEW o \in orders' \ orders, o.event = 0
  PROVE  stock > 0
<1>1. ASSUME NEW u \in Users, BuyerStep(u) PROVE stock > 0
  BY <1>1 DEF BuyerStep, Place, AcceptRead, AcceptReserve, AcceptRefused
<1>2. ASSUME NEW w \in Workers, WorkerStep(w) PROVE FALSE
  <2>1. PICK e \in batch[w] : WorkerApply(w, e)
    BY <1>2
    DEF WorkerStep, WorkerProgress, WorkerClaim, WorkerRead, WorkerReadFails,
        WorkerCompensate, WorkerAck, WorkerRetain, WorkerCrash
  <2>2. o = [user |-> e.user, event |-> e.id]
    BY <2>1 DEF WorkerApply, ApplyAgain, ApplyCreated, ApplyFailed
  <2>3. e.id # 0
    BY <2>1 DEF TypeOK, Event
  <2> QED BY <2>2, <2>3
<1>3. CASE Environment
  BY <1>3 DEF Environment, Tick, DeleteUser, LoseState, LoseEvents
<1> QED BY <1>1, <1>2, <1>3, EnablerFrame DEF Next

\* Only AcceptReserve adds to the stream, and what Redis offers MySQL has.
LEMMA TicketsNeedStock ==
  ASSUME Before, Next, stream' \ stream # {}
  PROVE  stock > 0
<1>1. ASSUME NEW e \in Enablers, EnablerStep(e) PROVE stream' \subseteq stream
  BY <1>1 DEF EnablerStep, EnableStage, EnablePrepare, EnableCheck,
              EnableActivate, EnableStop
<1>2. ASSUME NEW w \in Workers, WorkerStep(w) PROVE stream' = stream
  BY <1>2, WorkerFrame
<1>3. ASSUME Environment PROVE stream' \subseteq stream
  BY <1>3 DEF Environment, Tick, DeleteUser, LoseState, LoseEvents
<1>4. PICK u \in Users : BuyerStep(u)
  BY <1>1, <1>2, <1>3 DEF Next
<1>5. AcceptReserve(u)
  BY <1>4 DEF BuyerStep, Place, AcceptRead, AcceptRefused
<1>6. stateKey /\ rStock > 0
  BY <1>5, Reserved
<1>7. rStock + Cardinality(Unresolved) + Cardinality(Owed) = stock
  BY <1>6 DEF Before, NoLossInv, StockInv
<1>8. Cardinality(Unresolved) \in Nat /\ Cardinality(Owed) \in Nat
  BY WorkIsFinite DEF Before, NoLossInv
<1> QED BY <1>6, <1>7, <1>8 DEF Before, TypeOK

\* Nothing returns a unit to MySQL: refunds go to Redis only.
LEMMA StockFalls ==
  ASSUME TypeOK, [Next]_vars
  PROVE  stock' <= stock
<1>1. stock \in Nat
  BY DEF TypeOK
<1>2. ASSUME NEW u \in Users, BuyerStep(u) PROVE stock' <= stock
  BY <1>1, <1>2
  DEF BuyerStep, Place, AcceptRead, AcceptReserve, AcceptRefused
<1>3. ASSUME NEW w \in Workers, WorkerStep(w) PROVE stock' <= stock
  <2>1. stock' = stock \/ \E e \in batch[w] : WorkerApply(w, e)
    BY <1>3
    DEF WorkerStep, WorkerProgress, WorkerClaim, WorkerRead, WorkerReadFails,
        WorkerCompensate, WorkerAck, WorkerRetain, WorkerCrash
  <2>2. ASSUME NEW e, WorkerApply(w, e) PROVE stock' \in {stock, stock - 1}
    BY <2>2 DEF WorkerApply, ApplyAgain, ApplyCreated, ApplyFailed
  <2> QED BY <1>1, <2>1, <2>2
<1>4. CASE Environment
  BY <1>1, <1>4 DEF Environment, Tick, DeleteUser, LoseState, LoseEvents
<1>5. ASSUME NEW e \in Enablers, EnablerStep(e) PROVE stock' <= stock
  BY <1>1, <1>5, EnablerFrame
<1>6. CASE UNCHANGED vars
  BY <1>1, <1>6 DEF vars
<1> QED BY <1>2, <1>3, <1>4, <1>5, <1>6 DEF Next

\* A row that was read is never short of what is left now, and sold_out is
\* shown only when nothing was left.
PageInv ==
    /\ PageTypeOK
    /\ \A v \in Visitors :
          /\ page[v].pc = "row" => stock <= page[v].stock
          /\ page[v] = SoldOut => stock = 0

PageStep == (Next /\ UNCHANGED page) \/ ViewNext

LEMMA ViewsOnlyRead == PageSpec => Spec
<1>1. [PageStep]_viewVars => [Next]_vars
  BY DEF PageStep, ViewNext, ReadRow, ShowPage, viewVars
<1>2. PageInit => Init
  BY DEF PageInit
<1> QED BY <1>1, <1>2, PTL DEF PageSpec, Spec, PageStep

LEMMA PageKept ==
  ASSUME TypeOK, TypeOK', PageInv, [PageStep]_viewVars
  PROVE  PageInv'
<1>1. stock \in Nat /\ stock' \in Nat
  BY DEF TypeOK
<1>2. ASSUME [Next]_vars, page' = page
      PROVE  PageInv'
  <2>1. stock' <= stock
    BY <1>2, StockFalls
  <2>2. \A v \in Visitors : page[v].pc = "row" => page[v].stock \in Nat
    BY DEF PageInv, PageTypeOK, NoPage, RowHeld, StatusShown
  <2> QED BY <1>1, <1>2, <2>1, <2>2 DEF PageInv, PageTypeOK
<1>3. ASSUME NEW v \in Visitors, ReadRow(v)
      PROVE  PageInv'
  <2>1. /\ stock' = stock
        /\ page' = [page EXCEPT ![v] = [pc |-> "row", stock |-> stock]]
    BY <1>3 DEF ReadRow, vars
  <2>2. [pc |-> "row", stock |-> stock] \in RowHeld
    BY <1>1 DEF RowHeld
  <2>3. page'[v] = [pc |-> "row", stock |-> stock] /\ page'[v] # SoldOut
    BY <2>1 DEF PageInv, PageTypeOK, SoldOut
  <2>4. PageTypeOK'
    BY <2>1, <2>2 DEF PageInv, PageTypeOK
  <2> QED BY <1>1, <2>1, <2>3, <2>4 DEF PageInv, PageTypeOK
<1>4. ASSUME NEW v \in Visitors, ShowPage(v)
      PROVE  PageInv'
  <2>1. PICK clock \in 0 .. MaxTime :
           page' = [page EXCEPT ![v] =
              [pc |-> "shown",
               status |-> VoucherStatus(page[v].stock, clock)]]
    BY <1>4 DEF ShowPage
  <2> DEFINE status == VoucherStatus(page[v].stock, clock)
  <2>2. /\ page[v].pc = "row" /\ stock' = stock
        /\ page[v].stock \in Nat /\ stock <= page[v].stock
    BY <1>4 DEF ShowPage, vars, PageInv, PageTypeOK, NoPage, RowHeld,
                StatusShown
  <2>3. /\ status \in {"upcoming", "ended", "sold_out", "active"}
        /\ status = "sold_out" => page[v].stock = 0
    BY DEF VoucherStatus
  <2> HIDE DEF status
  <2>4. [pc |-> "shown", status |-> status] \in StatusShown
    BY <2>3 DEF StatusShown
  <2>5. page'[v] = [pc |-> "shown", status |-> status]
        /\ \A x \in Visitors \ {v} : page'[x] = page[x]
    BY <2>1 DEF PageInv, PageTypeOK, status
  <2>6. PageTypeOK'
    BY <2>1, <2>4 DEF PageInv, PageTypeOK, status
  <2>7. page'[v].pc = "shown" /\ page'[v].status = status
    BY <2>5
  <2>8. page'[v] = SoldOut => stock' = 0
    BY <1>1, <2>2, <2>3, <2>7 DEF SoldOut
  <2>9. page'[v].pc # "row"
    BY <2>7
  <2> QED BY <2>2, <2>5, <2>6, <2>8, <2>9 DEF PageInv
<1>5. PageStep => (Next /\ page' = page) \/ ViewNext
  BY DEF PageStep
<1> QED BY <1>2, <1>3, <1>4, <1>5 DEF ViewNext, viewVars

THEOREM PageInvariant == PageSpec => [](IInv /\ PageInv)
<1>1. PageInit => PageInv
  BY DEF PageInit, PageInv, PageTypeOK, NoPage, SoldOut
<1>2. IInv /\ IInv' /\ PageInv /\ [PageStep]_viewVars => PageInv'
  BY PageKept DEF IInv
<1> QED BY <1>1, <1>2, ViewsOnlyRead, InvariantHolds, PTL
       DEF PageSpec, PageStep

\* Once the page of the voucher says sold_out, from however old a row and by
\* whatever clock, nobody gets a direct order any more, nor a ticket unless
\* Redis has lost data.
THEOREM SoldOutIsAlwaysFinal == PageSpec => SoldOutIsFinal
<1>1. ASSUME IInv, PageInv, [PageStep]_viewVars, Entered
      PROVE  ~SoldOutShown
  <2>1. Next
    BY <1>1 DEF PageStep, viewVars, vars, ViewNext, ReadRow, ShowPage, Entered
  <2>2. stock > 0
    BY <1>1, <2>1, DirectOrders, TicketsNeedStock DEF IInv, Before, Entered
  <2>3. stock \in Nat
    BY <1>1 DEF IInv, TypeOK
  <2> QED BY <1>1, <2>2, <2>3 DEF PageInv, SoldOutShown
<1>2. IInv /\ PageInv /\ [PageStep]_viewVars => (Entered => ~SoldOutShown)
  BY <1>1
<1> QED BY <1>2, PageInvariant, PTL DEF PageSpec, PageStep, SoldOutIsFinal
=============================================================================
