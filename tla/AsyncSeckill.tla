---------------------------- MODULE AsyncSeckill ----------------------------
(***************************************************************************)
(* The seckill of one voucher: synchronous orders, the enable command, the *)
(* Redis admission script, the order stream and its consumer group, and    *)
(* the workers that turn reservations into MySQL orders.                   *)
(*                                                                         *)
(* Granularity: one action per MySQL transaction and per Redis command or  *)
(* script, since each is atomic at its server; everything between two of   *)
(* them may interleave with every other process.  All state is keyed by    *)
(* the voucher, so one voucher is enough.                                  *)
(*                                                                         *)
(* Not represented: the begin/end copies in the Redis hash (written once   *)
(* by Prepare from the row, in the milliseconds both stores keep), the     *)
(* version field, field syntax, and commands the code issues that change   *)
(* nothing (ActiveIDs, Check on an active voucher).  MySQL and Redis share *)
(* one clock: ADR 007 requires them synchronised.                          *)
(***************************************************************************)
EXTENDS Naturals, FiniteSets

CONSTANTS
    Users,        \* users that may buy
    Enablers,     \* concurrent runs of `seckill -mode enable`
    Workers,      \* processes running `seckill -mode worker`
    InitStock,    \* stock of the activity before its first sale
    BeginTime,    \* the activity window is [BeginTime, EndTime)
    EndTime,
    Batch,        \* COUNT of XREADGROUP and XAUTOCLAIM (20 in the code)
    MaxTime,      \* bound: the clock stops here
    MaxFaults,    \* bound: failed or unanswered calls and worker crashes
    MaxDeleted,   \* bound: accounts that may disappear
    MaxLosses     \* bound: Redis keys that may be lost

ASSUME StockAssumption == InitStock \in Nat
ASSUME WindowAssumption ==
    BeginTime \in Nat /\ EndTime \in Nat /\ BeginTime < EndTime
ASSUME UsersAssumption == IsFiniteSet(Users)
ASSUME BoundsAssumption ==
    /\ Batch \in Nat \ {0}
    /\ MaxTime \in Nat
    /\ MaxFaults \in Nat
    /\ MaxDeleted \in Nat
    /\ MaxLosses \in Nat

VARIABLES
    \* MySQL: the seckill_voucher row, then the tables that refer to it
    stock, asyncState, generation, capacity,
    orders,       \* voucher_order: set of Order
    results,      \* seckill_result: set of Result
    accounts,     \* users: the accounts that still exist
    \* Redis :state hash
    stateKey,     \* the key exists
    rGeneration, rStock, rCapacity,
    buyers,       \* the events the buyer:<user> fields point to
    compensated,  \* the events with a compensated:<event> field
    \* Redis :events stream and its consumer group "orders"
    eventsKey,    \* the key and the group exist
    stream,       \* every entry: acknowledging one does not delete it
    fresh,        \* entries the group has not delivered yet
    pel,          \* entries delivered and not acknowledged
    nextId,       \* the next stream ID: XADD * never repeats one
    \* processes
    epc, erow,    \* per enabler: the next step, the row Stage returned
    admission,    \* per user: the generation Accept read, 0 if no request
    wpc, batch,   \* per worker: the next step, deliveries still in hand
    \* environment
    now, faults, losses

sqlVars == <<stock, asyncState, generation, capacity, orders, results,
             accounts>>
stateVars == <<stateKey, rGeneration, rStock, rCapacity, buyers, compensated>>
streamVars == <<eventsKey, stream, fresh, pel, nextId>>
enablerVars == <<epc, erow>>
workerVars == <<wpc, batch>>
envVars == <<now, faults, losses>>
vars == <<sqlVars, stateVars, streamVars, enablerVars, admission, workerVars,
          envVars>>

\* A stream entry: who reserved, when (accepted_ms) and under which generation.
Event == [id : Nat \ {0}, user : Users, at : Nat, gen : Nat]

\* event is the stream ID that caused the order, 0 for a synchronous one.
Order == [user : Users, event : Nat]

Reason == {"", "outside_activity_window", "user_not_found",
           "already_purchased", "sold_out"}
Result == [event : Event, status : {"created", "failed"}, reason : Reason]

Row == [gen : Nat, cap : Nat]

TypeOK ==
    /\ stock \in Nat
    /\ asyncState \in 0..2
    /\ generation \in Nat
    /\ capacity \in Nat
    /\ orders \subseteq Order
    /\ results \subseteq Result
    /\ accounts \subseteq Users
    /\ stateKey \in BOOLEAN
    /\ rGeneration \in Nat
    /\ rStock \in Nat
    /\ rCapacity \in Nat
    /\ buyers \subseteq Event
    /\ compensated \subseteq Event
    /\ eventsKey \in BOOLEAN
    /\ stream \subseteq Event
    /\ fresh \subseteq Event
    /\ pel \subseteq Event
    /\ nextId \in Nat \ {0}
    /\ epc \in [Enablers -> {"idle", "prepare", "check", "activate"}]
    /\ erow \in [Enablers -> Row]
    /\ admission \in [Users -> Nat]
    /\ wpc \in [Workers ->
                  {"claim", "read", "apply", "compensate", "ack"}]
    /\ batch \in [Workers -> SUBSET Event]
    /\ now \in Nat
    /\ faults \in Nat
    /\ losses \in Nat

Init ==
    /\ stock = InitStock
    /\ asyncState = 0
    /\ generation = 0
    /\ capacity = 0
    /\ orders = {}
    /\ results = {}
    /\ accounts = Users
    /\ stateKey = FALSE
    /\ rGeneration = 0
    /\ rStock = 0
    /\ rCapacity = 0
    /\ buyers = {}
    /\ compensated = {}
    /\ eventsKey = FALSE
    /\ stream = {}
    /\ fresh = {}
    /\ pel = {}
    /\ nextId = 1
    /\ epc = [e \in Enablers |-> "idle"]
    /\ erow = [e \in Enablers |-> [gen |-> 0, cap |-> 0]]
    /\ admission = [u \in Users |-> 0]
    /\ wpc = [w \in Workers |-> "claim"]
    /\ batch = [w \in Workers |-> {}]
    /\ now = 0
    /\ faults = 0
    /\ losses = 0

InWindow(t) == BeginTime <= t /\ t < EndTime
HasOrder(u) == \E o \in orders : o.user = u

-----------------------------------------------------------------------------
(***************************************************************************)
(* Synchronous orders: one transaction under the lock of the activity row. *)
(* Every early return rolls the whole transaction back, which is the same  *)
(* as not taking the step.                                                 *)
(***************************************************************************)

\* Mutant: the mode is not checked under the lock.
PlaceUnfenced(u) ==
    /\ InWindow(now)
    /\ ~HasOrder(u)
    /\ stock > 0
    /\ u \in accounts
    /\ stock' = stock - 1
    /\ orders' = orders \cup {[user |-> u, event |-> 0]}
    /\ UNCHANGED <<asyncState, generation, capacity, results, accounts,
                   stateVars, streamVars, enablerVars, admission, workerVars,
                   envVars>>

Place(u) ==
    /\ asyncState = 0
    /\ InWindow(now)
    /\ ~HasOrder(u)
    /\ stock > 0
    /\ u \in accounts                   \* foreign key of voucher_order
    /\ stock' = stock - 1
    /\ orders' = orders \cup {[user |-> u, event |-> 0]}
    /\ UNCHANGED <<asyncState, generation, capacity, results, accounts,
                   stateVars, streamVars, enablerVars, admission, workerVars,
                   envVars>>

-----------------------------------------------------------------------------
(***************************************************************************)
(* Enable: Stage, Prepare, Check and Activate are four calls; the command  *)
(* may stop between any two of them and be run again, also concurrently.   *)
(***************************************************************************)

\* Mutant: activities that already sold units may change mode.
NeverOrderedUnchecked == TRUE

NeverOrdered == orders = {}

\* With asyncState = 2 Stage returns the row and the command only runs Check
\* without the pristine flag, which changes nothing.
EnableStage(e) ==
    /\ epc[e] = "idle"
    /\ \/ /\ asyncState = 0
          /\ NeverOrdered
          /\ stock > 0
          /\ now < EndTime
          /\ asyncState' = 1
          /\ generation' = generation + 1
          /\ capacity' = stock
       \/ /\ asyncState = 1
          /\ UNCHANGED <<asyncState, generation, capacity>>
    /\ epc' = [epc EXCEPT ![e] = "prepare"]
    /\ erow' = [erow EXCEPT ![e] = [gen |-> generation', cap |-> capacity']]
    /\ UNCHANGED <<stock, orders, results, accounts, stateVars, streamVars,
                   admission, workerVars, envVars>>

\* Mutant: the script overwrites what it finds.
KeysAbsentUnchecked == TRUE

KeysAbsent == ~stateKey /\ ~eventsKey

\* The script creates both keys in one step.
WriteSnapshot(row) ==
    /\ stateKey' = TRUE
    /\ rGeneration' = row.gen
    /\ rStock' = row.cap
    /\ rCapacity' = row.cap
    /\ buyers' = {}
    /\ compensated' = {}
    /\ eventsKey' = TRUE
    /\ stream' = {}
    /\ fresh' = {}
    /\ pel' = {}
    /\ UNCHANGED nextId

\* Finding either key the script answers "conflict", which Enable takes as
\* the trace of an earlier run and tolerates.
EnablePrepare(e) ==
    /\ epc[e] = "prepare"
    /\ epc' = [epc EXCEPT ![e] = "check"]
    /\ \/ KeysAbsent /\ WriteSnapshot(erow[e])
       \/ ~KeysAbsent /\ UNCHANGED <<stateVars, streamVars>>
    /\ UNCHANGED <<sqlVars, erow, admission, workerVars, envVars>>

\* Check with the pristine flag: an untouched snapshot of exactly this row.
Pristine(row) ==
    /\ stateKey /\ eventsKey
    /\ rGeneration = row.gen
    /\ rCapacity = row.cap
    /\ rStock = row.cap
    /\ stream = {}
    /\ buyers = {} /\ compensated = {}

EnableCheck(e) ==
    /\ epc[e] = "check"
    /\ Pristine(erow[e])
    /\ epc' = [epc EXCEPT ![e] = "activate"]
    /\ UNCHANGED <<sqlVars, stateVars, streamVars, erow, admission,
                   workerVars, envVars>>

EnableActivate(e) ==
    /\ epc[e] = "activate"
    /\ generation = erow[e].gen
    /\ asyncState \in {1, 2}
    /\ asyncState' = 2
    /\ epc' = [epc EXCEPT ![e] = "idle"]
    /\ UNCHANGED <<stock, generation, capacity, orders, results, accounts,
                   stateVars, streamVars, erow, admission, workerVars,
                   envVars>>

\* An error, a timeout, a lost reply or a crash ends the command anywhere.
EnableStop(e) ==
    /\ epc[e] # "idle"
    /\ epc' = [epc EXCEPT ![e] = "idle"]
    /\ UNCHANGED <<sqlVars, stateVars, streamVars, erow, admission,
                   workerVars, envVars>>

-----------------------------------------------------------------------------
(***************************************************************************)
(* Accept: read the row without a lock, then run the admission script.     *)
(***************************************************************************)

AcceptRead(u) ==
    /\ admission[u] = 0
    /\ asyncState = 2
    /\ admission' = [admission EXCEPT ![u] = generation]
    /\ UNCHANGED <<sqlVars, stateVars, streamVars, enablerVars, workerVars,
                   envVars>>

\* Mutant: the script forgets that stock can be exhausted.
AdmissibleUnlimited(u) ==
    /\ stateKey /\ eventsKey
    /\ rGeneration = admission[u]
    /\ InWindow(now)
    /\ \A e \in buyers : e.user # u

\* What the script checks before its first write; every other outcome is a
\* refusal that writes nothing.
Admissible(u) ==
    /\ stateKey /\ eventsKey
    /\ rGeneration = admission[u]
    /\ InWindow(now)
    /\ \A e \in buyers : e.user # u
    /\ rStock > 0

NewEvent(u) ==
    [id |-> nextId, user |-> u, at |-> now, gen |-> rGeneration]

AcceptReserve(u) ==
    /\ admission[u] # 0
    /\ Admissible(u)
    /\ stream' = stream \cup {NewEvent(u)}
    /\ fresh' = fresh \cup {NewEvent(u)}
    /\ nextId' = nextId + 1
    /\ rStock' = rStock - 1
    /\ buyers' = buyers \cup {NewEvent(u)}
    /\ admission' = [admission EXCEPT ![u] = 0]
    /\ UNCHANGED <<sqlVars, stateKey, rGeneration, rCapacity, compensated,
                   eventsKey, pel, enablerVars, workerVars, envVars>>

\* A refusal by the script, or a request cancelled before it ran.
AcceptRefused(u) ==
    /\ admission[u] # 0
    /\ admission' = [admission EXCEPT ![u] = 0]
    /\ UNCHANGED <<sqlVars, stateVars, streamVars, enablerVars, workerVars,
                   envVars>>

-----------------------------------------------------------------------------
(***************************************************************************)
(* RunWorker: claim pending deliveries, read new ones, then process what   *)
(* is in hand one by one.  Claimed IDs precede freshly delivered ones and  *)
(* each reply is in ID order, so the code works through its batch by       *)
(* ascending ID.  Consumer names matter to nothing the code reads.         *)
(***************************************************************************)

IsNext(w, e) == e \in batch[w] /\ \A f \in batch[w] : e.id <= f.id

\* XAUTOCLAIM takes over entries that have been idle for 30 s, whoever holds
\* them: which entries those are is open, and a failed call claims none.
WorkerClaim(w, S) ==
    /\ wpc[w] = "claim"
    /\ asyncState = 2
    /\ S \subseteq pel
    /\ Cardinality(S) <= Batch
    /\ batch' = [batch EXCEPT ![w] = S]
    /\ wpc' = [wpc EXCEPT ![w] = "read"]
    /\ UNCHANGED <<sqlVars, stateVars, streamVars, enablerVars, admission,
                   envVars>>

\* The first Batch entries the group has not delivered.
FreshPrefix ==
    {e \in fresh : Cardinality({f \in fresh : f.id <= e.id}) <= Batch}

Deliver ==
    /\ fresh' = fresh \ FreshPrefix
    /\ pel' = pel \cup FreshPrefix

WorkerRead(w) ==
    /\ wpc[w] = "read"
    /\ LET hand == batch[w] \cup FreshPrefix IN
       /\ batch' = [batch EXCEPT ![w] = hand]
       /\ wpc' = [wpc EXCEPT ![w] = IF hand = {} THEN "claim" ELSE "apply"]
    /\ Deliver
    /\ UNCHANGED <<sqlVars, stateVars, eventsKey, stream, nextId,
                   enablerVars, admission, envVars>>

\* XREADGROUP fails, or delivers and its reply is lost; the error is logged
\* and the loop goes on with what was claimed.
WorkerReadFails(w) ==
    /\ wpc[w] = "read"
    /\ faults < MaxFaults
    /\ faults' = faults + 1
    /\ wpc' = [wpc EXCEPT ![w] = IF batch[w] = {} THEN "claim" ELSE "apply"]
    /\ Deliver \/ UNCHANGED <<fresh, pel>>
    /\ UNCHANGED <<sqlVars, stateVars, eventsKey, stream, nextId,
                   enablerVars, admission, batch, now, losses>>

\* Process is done with e, one way or the other; the loop goes on.
Drop(w, e) ==
    /\ batch' = [batch EXCEPT ![w] = @ \ {e}]
    /\ wpc' = [wpc EXCEPT ![w] =
                 IF batch[w] = {e} THEN "claim" ELSE "apply"]

\* Mutant: eligibility is judged at the time of processing.
RefusalLate(e) ==
    IF ~InWindow(now) THEN "outside_activity_window"
    ELSE IF e.user \notin accounts THEN "user_not_found"
    ELSE IF HasOrder(e.user) THEN "already_purchased"
    ELSE IF stock = 0 THEN "sold_out"
    ELSE ""

\* The final verdict on an event that has no result yet; "" is an order.
Refusal(e) ==
    IF ~InWindow(e.at) THEN "outside_activity_window"
    ELSE IF e.user \notin accounts THEN "user_not_found"
    ELSE IF HasOrder(e.user) THEN "already_purchased"
    ELSE IF stock = 0 THEN "sold_out"
    ELSE ""

ResultsOf(e) == {r \in results : r.event = e}

\* Mutant: a failed result is acknowledged like a created one.
AfterApplyNoRefund(status) == "ack"

\* Mutant: every processed reservation is compensated.
AfterApplyAlwaysRefund(status) == "compensate"

AfterApply(status) == IF status = "failed" THEN "compensate" ELSE "ack"

\* A transaction that writes a result can commit: the voucher is active
\* under the event's generation and UNIQUE (voucher, generation, user) holds.
CanRecord(e) ==
    /\ asyncState = 2
    /\ generation = e.gen
    /\ \A r \in results : r.event.user = e.user => r.event.gen # e.gen

\* Mutant: a redelivered event is not recognised.
ApplyAgainMissed(w, e) == FALSE

\* The event already has a committed result: return it, change nothing.
ApplyAgain(w, e) ==
    \E r \in ResultsOf(e) :
       /\ wpc' = [wpc EXCEPT ![w] = AfterApply(r.status)]
       /\ UNCHANGED <<stock, orders, results>>

\* Mutant: nobody notices that the stock update matched no row.
ApplyCreatedFree(w, e) ==
    /\ Refusal(e) = ""
    /\ stock' = stock
    /\ orders' = orders \cup {[user |-> e.user, event |-> e.id]}
    /\ results' = results \cup
         {[event |-> e, status |-> "created", reason |-> ""]}
    /\ wpc' = [wpc EXCEPT ![w] = AfterApply("created")]

ApplyCreated(w, e) ==
    /\ Refusal(e) = ""
    /\ stock' = stock - 1
    /\ orders' = orders \cup {[user |-> e.user, event |-> e.id]}
    /\ results' = results \cup
         {[event |-> e, status |-> "created", reason |-> ""]}
    /\ wpc' = [wpc EXCEPT ![w] = AfterApply("created")]

ApplyFailed(w, e) ==
    /\ Refusal(e) # ""
    /\ results' = results \cup
         {[event |-> e, status |-> "failed", reason |-> Refusal(e)]}
    /\ wpc' = [wpc EXCEPT ![w] = AfterApply("failed")]
    /\ UNCHANGED <<stock, orders>>

WorkerApply(w, e) ==
    /\ wpc[w] = "apply"
    /\ IsNext(w, e)
    /\ \/ ApplyAgain(w, e)
       \/ /\ ResultsOf(e) = {}
          /\ CanRecord(e)
          /\ ApplyCreated(w, e) \/ ApplyFailed(w, e)
    /\ UNCHANGED <<asyncState, generation, capacity, accounts, stateVars,
                   streamVars, enablerVars, admission, batch, envVars>>

\* Mutant: the marker of an earlier refund is not consulted.
RefundedIgnored(e) == FALSE

Refunded(e) == e \in compensated

\* The compensation script answers 1.
CanCompensate(e) ==
    /\ stateKey
    /\ rGeneration = e.gen
    /\ e \in buyers
    /\ Refunded(e) \/ rStock < rCapacity

WorkerCompensate(w, e) ==
    /\ wpc[w] = "compensate"
    /\ IsNext(w, e)
    /\ CanCompensate(e)
    /\ \/ /\ Refunded(e)
          /\ UNCHANGED <<rStock, compensated>>
       \/ /\ ~Refunded(e)
          /\ rStock' = rStock + 1
          /\ compensated' = compensated \cup {e}
    /\ wpc' = [wpc EXCEPT ![w] = "ack"]
    /\ UNCHANGED <<sqlVars, stateKey, rGeneration, rCapacity, buyers,
                   streamVars, enablerVars, admission, batch, envVars>>

\* XACK succeeds whether or not the entry is still pending.
WorkerAck(w, e) ==
    /\ wpc[w] = "ack"
    /\ IsNext(w, e)
    /\ pel' = pel \ {e}
    /\ Drop(w, e)
    /\ UNCHANGED <<sqlVars, stateVars, eventsKey, stream, fresh, nextId,
                   enablerVars, admission, envVars>>

\* The step Process is at returns an error every time it is tried.
Refused(w, e) ==
    \/ wpc[w] = "apply" /\ ResultsOf(e) = {} /\ ~CanRecord(e)
    \/ wpc[w] = "compensate" /\ ~CanCompensate(e)

\* Process returns an error: a call failed, or succeeded without an answer
\* (then the step itself came first).  The delivery stays pending.
WorkerRetain(w, e) ==
    /\ wpc[w] \in {"apply", "compensate", "ack"}
    /\ IsNext(w, e)
    /\ \/ Refused(w, e) /\ UNCHANGED faults
       \/ faults < MaxFaults /\ faults' = faults + 1
    /\ Drop(w, e)
    /\ UNCHANGED <<sqlVars, stateVars, streamVars, enablerVars, admission,
                   now, losses>>

\* The process dies or is told to stop; its successor has empty hands.
WorkerCrash(w) ==
    /\ wpc[w] # "claim"
    /\ faults < MaxFaults
    /\ faults' = faults + 1
    /\ batch' = [batch EXCEPT ![w] = {}]
    /\ wpc' = [wpc EXCEPT ![w] = "claim"]
    /\ UNCHANGED <<sqlVars, stateVars, streamVars, enablerVars, admission,
                   now, losses>>

-----------------------------------------------------------------------------
(* Environment *)

Tick ==
    /\ now < MaxTime
    /\ now' = now + 1
    /\ UNCHANGED <<sqlVars, stateVars, streamVars, enablerVars, admission,
                   workerVars, faults, losses>>

\* An account disappears; the foreign key protects those with an order.
DeleteUser(u) ==
    /\ u \in accounts
    /\ ~HasOrder(u)
    /\ Cardinality(Users \ accounts) < MaxDeleted
    /\ accounts' = accounts \ {u}
    /\ UNCHANGED <<stock, asyncState, generation, capacity, orders, results,
                   stateVars, streamVars, enablerVars, admission, workerVars,
                   envVars>>

LoseState ==
    /\ stateKey
    /\ losses < MaxLosses
    /\ losses' = losses + 1
    /\ stateKey' = FALSE
    /\ rGeneration' = 0
    /\ rStock' = 0
    /\ rCapacity' = 0
    /\ buyers' = {}
    /\ compensated' = {}
    /\ UNCHANGED <<sqlVars, streamVars, enablerVars, admission, workerVars,
                   now, faults>>

LoseEvents ==
    /\ eventsKey
    /\ losses < MaxLosses
    /\ losses' = losses + 1
    /\ eventsKey' = FALSE
    /\ stream' = {}
    /\ fresh' = {}
    /\ pel' = {}
    /\ UNCHANGED <<sqlVars, stateVars, nextId, enablerVars, admission,
                   workerVars, now, faults>>

-----------------------------------------------------------------------------
EnablerStep(e) ==
    \/ EnableStage(e)
    \/ EnablePrepare(e)
    \/ EnableCheck(e)
    \/ EnableActivate(e)
    \/ EnableStop(e)

BuyerStep(u) ==
    \/ Place(u)
    \/ AcceptRead(u)
    \/ AcceptReserve(u)
    \/ AcceptRefused(u)

\* Everything a worker does with what it holds, failures by accident aside.
WorkerProgress(w) ==
    \/ WorkerRead(w)
    \/ \E e \in batch[w] :
          \/ WorkerApply(w, e)
          \/ WorkerCompensate(w, e)
          \/ WorkerAck(w, e)

WorkerStep(w) ==
    \/ \E S \in SUBSET pel : WorkerClaim(w, S)
    \/ WorkerProgress(w)
    \/ WorkerReadFails(w)
    \/ \E e \in batch[w] : WorkerRetain(w, e)
    \/ WorkerCrash(w)

Environment ==
    \/ Tick
    \/ \E u \in Users : DeleteUser(u)
    \/ LoseState
    \/ LoseEvents

Next ==
    \/ \E e \in Enablers : EnablerStep(e)
    \/ \E u \in Users : BuyerStep(u)
    \/ \E w \in Workers : WorkerStep(w)
    \/ Environment

Spec == Init /\ [][Next]_vars

(***************************************************************************)
(* Fairness: RunWorker never stops by itself and every call it makes has a *)
(* deadline, so a worker keeps stepping; XAUTOCLAIM's cursor survives from *)
(* round to round and wraps, so an entry that stays pending is claimed in  *)
(* some later round.  Buyers, enablers and the environment owe nothing.    *)
(***************************************************************************)
ClaimsTicketOf(w, u) ==
    \E S \in SUBSET pel : (\E e \in S : e.user = u) /\ WorkerClaim(w, S)

Fairness ==
    /\ \A w \in Workers : WF_vars(WorkerProgress(w))
    /\ \A w \in Workers : WF_vars(\E S \in SUBSET pel : WorkerClaim(w, S))
    /\ \A w \in Workers :
          WF_vars(\E e \in batch[w] : Refused(w, e) /\ WorkerRetain(w, e))
    /\ \A u \in Users : SF_vars(\E w \in Workers : ClaimsTicketOf(w, u))

FairSpec == Spec /\ Fairness

-----------------------------------------------------------------------------
(* Properties *)

Created == {r.event : r \in {q \in results : q.status = "created"}}
Failed == {r.event : r \in {q \in results : q.status = "failed"}}
Resolved == Created \cup Failed

\* Accepted reservations MySQL has not decided yet.
Unresolved == stream \ Resolved

\* Units that a failed reservation still has to give back to Redis.
Owed == Failed \ compensated

\* Redis and MySQL never disagree about the stock for a reason other than
\* the work in progress: what Redis still offers, what undecided tickets
\* hold and what failed tickets have not returned add up to the SQL stock.
\* This is what makes a 202 worth something: sold_out and the stock > 0
\* check of Apply are only ever a backstop.
StockReconciles ==
    (stateKey /\ losses = 0) =>
        rStock + Cardinality(Unresolved) + Cardinality(Owed) = stock

\* An accepted ticket fails for one reason only, that its owner is gone:
\* never because the stock ran out, the activity ended while it waited in
\* the stream, or a synchronous order of the same user got in between.
TicketsAreHonoured ==
    losses = 0 =>
        \A r \in results :
            r.status = "failed" => r.reason = "user_not_found"

\* MySQL on its own: no unit is sold twice or vanishes, whatever happens to
\* Redis, to the workers and to duplicated deliveries; every user has at
\* most one order, and an asynchronous order exists exactly if a created
\* result names its event.
OrdersMatchStock ==
    /\ stock + Cardinality(orders) = InitStock
    /\ \A o, p \in orders : o.user = p.user => o = p
    /\ {o \in orders : o.event # 0} =
          {[user |-> e.user, event |-> e.id] : e \in Created}

\* Staging fences the synchronous writer: once an activity left mode 0 none
\* of its orders was placed synchronously, before or after.
SyncAndAsyncNeverMix ==
    asyncState # 0 => \A o \in orders : o.event # 0

\* A reservation leaves the pending list only when nothing is left to do
\* for it: its result is committed and, if it failed, its unit is back.
AckedIsSettled ==
    losses = 0 =>
        \A e \in stream \ (fresh \cup pel) :
            e \in Created \/ e \in Failed \cap compensated

\* "Final SQL failure must be committed BEFORE calling this script": a unit
\* returns to Redis only for a ticket whose failure is durable.
RefundsFollowFailures == compensated \subseteq Failed

\* After activation the Redis stock rises only as a refund, one unit for one
\* newly marked event; no enable command replenishes it.
OnlyRefundsReplenish ==
    [][ (asyncState = 2 /\ rStock' > rStock) =>
          /\ rStock' = rStock + 1
          /\ \E e \in Failed : e \notin compensated
                               /\ compensated' = compensated \cup {e} ]_vars

\* "After activation the create-only initialisation is never used to
\* replenish stock" (ADR 007, decision 1): a lost snapshot stays lost.
LostSnapshotStaysLost ==
    [][ (asyncState = 2 /\ ~stateKey) => ~stateKey' ]_vars

\* Every accepted ticket is eventually decided, refunded if it failed, and
\* acknowledged, however the workers crash, overlap or lose answers.
Settled(u) ==
    \E e \in stream : /\ e.user = u
                      /\ e \notin fresh \cup pel
                      /\ e \in Created \/ e \in Failed \cap compensated

EveryTicketSettles ==
    \A u \in Users : (\E e \in stream : e.user = u) ~> Settled(u)

-----------------------------------------------------------------------------
(* What a buyer may rely on: the refinement of SeckillPromise. *)

TicketOf(u) ==
    IF \E o \in orders : o.user = u /\ o.event = 0 THEN "bought"
    ELSE IF \E e \in Created : e.user = u THEN "created"
    ELSE IF \E e \in Owed : e.user = u THEN "failed"
    ELSE IF \E e \in Failed : e.user = u THEN "refunded"
    ELSE IF \E e \in stream : e.user = u THEN "pending"
    ELSE "none"

ModeShown == IF asyncState = 0 THEN "sync"
             ELSE IF asyncState = 1 THEN "staged" ELSE "open"

UnitsLeft == IF asyncState = 2 THEN rStock ELSE stock

Tickets == [u \in Users |-> TicketOf(u)]

Promise == INSTANCE SeckillPromise WITH
    mode <- ModeShown, left <- UnitsLeft, ticket <- Tickets

\* Without losing Redis data, the whole machinery implements the promise.
KeepsPromise == Promise!SafeSpec

\* The same with the promise's own liveness.
KeepsPromiseFairly == Promise!Spec
=============================================================================
