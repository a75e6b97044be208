-------------------------- MODULE AsyncSeckillInv ---------------------------
(***************************************************************************)
(* The inductive invariant behind the safety properties of AsyncSeckill,   *)
(* as a conjunction of named parts: AlwaysInv, what holds whatever happens *)
(* to Redis, and NoLossInv, what the stores guarantee together as long as  *)
(* Redis loses nothing.                                                    *)
(***************************************************************************)
EXTENDS AsyncSeckill

SqlFinite == IsFiniteSet(orders) /\ IsFiniteSet(results)

\* An asynchronous order goes with the created result of the same event.
OrdersFollowResults ==
    {o \in orders : o.event # 0} =
       {[user |-> e.user, event |-> e.id] : e \in Created}

OneOrderPerUser == \A o, p \in orders : o.user = p.user => o = p

SqlInv ==
    /\ SqlFinite
    /\ stock + Cardinality(orders) = InitStock
    /\ OneOrderPerUser
    /\ OrdersFollowResults
    /\ SyncAndAsyncNeverMix

\* Every event that may still be processed, wherever it is.
Seen == stream \cup UNION {batch[w] : w \in Workers}

\* Stream IDs identify events even after the stream was lost, so a worker
\* always continues with the event it began with.
IdsInv ==
    /\ fresh \subseteq stream
    /\ pel \subseteq stream
    /\ \A e \in Seen : e.id < nextId
    /\ \A e, f \in Seen : e.id = f.id => e = f

\* Refunds need a committed failure, and a worker about to refund has one.
RefundInv ==
    /\ RefundsFollowFailures
    /\ \A w \in Workers : \A e \in batch[w] :
          (wpc[w] = "compensate" /\ IsNext(w, e)) => e \in Failed

AlwaysInv == SqlInv /\ IdsInv /\ RefundInv

\* Before activation nothing asynchronous exists, and a snapshot in Redis is
\* an untouched copy of the row.
ModeInv ==
    /\ asyncState = 0 => ~stateKey
    /\ asyncState # 0 => orders = {} \/ asyncState = 2
    /\ asyncState = 1 => capacity = stock
    /\ asyncState = 2 => stateKey
    /\ asyncState # 2 =>
          /\ results = {} /\ stream = {}
          /\ \A u \in Users : admission[u] = 0
    /\ \A e \in Enablers : epc[e] # "idle" =>
          /\ asyncState # 0
          /\ erow[e] = [gen |-> generation, cap |-> capacity]
          /\ epc[e] = "activate" => stateKey

SnapshotInv ==
    /\ eventsKey = stateKey
    /\ stateKey =>
          /\ rGeneration = generation
          /\ asyncState = 1 => rStock = stock

\* The stream and the buyer markers record the same reservations, at most
\* one of each user, all of them admitted in the window.
StreamInv ==
    /\ IsFiniteSet(stream)
    /\ buyers = stream
    /\ fresh \cap pel = {}
    /\ \A e \in stream : e.gen = generation /\ InWindow(e.at)
    /\ \A e, f \in stream : e.user = f.user => e = f

ResultInv ==
    /\ Resolved \subseteq stream
    /\ \A r, q \in results : r.event = q.event => r = q
    /\ \A r \in results : r.status = "failed" => r.reason = "user_not_found"

IsSettled(e) == e \in Created \/ e \in Failed \cap compensated

\* What a worker does next with an event was already earned before.
WorkerInv ==
    \A w \in Workers :
       /\ batch[w] \subseteq stream \ fresh
       /\ \A e \in batch[w] :
             (wpc[w] = "ack" /\ IsNext(w, e)) => IsSettled(e)

AckedInv == \A e \in stream \ (fresh \cup pel) : IsSettled(e)

StockInv ==
    stateKey => rStock + Cardinality(Unresolved) + Cardinality(Owed) = stock

NoLossInv ==
    /\ ModeInv
    /\ SnapshotInv
    /\ StreamInv
    /\ ResultInv
    /\ WorkerInv
    /\ AckedInv
    /\ StockInv

IInv ==
    /\ TypeOK
    /\ AlwaysInv
    /\ losses = 0 => NoLossInv
=============================================================================
