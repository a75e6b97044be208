--------------------------- MODULE SeckillPromise ---------------------------
(***************************************************************************)
(* What the seckill of ONE voucher promises to its buyers, with no         *)
(* database, queue or worker in sight.  A unit of stock is either free     *)
(* (counted in left) or held by exactly one user.  A voucher is sold       *)
(* either synchronously (POST /seckill) or, once opened, through tickets   *)
(* that are admitted first and settled later (POST /seckill-async); it     *)
(* never goes back, and an admitted ticket may fail, but never because     *)
(* the stock ran out.  AsyncSeckill is shown to implement this module.     *)
(***************************************************************************)
EXTENDS Naturals, FiniteSets

CONSTANTS
    Users,       \* the users that may buy
    InitStock    \* units on sale when the activity is created

VARIABLES
    mode,        \* "sync" | "staged" | "open"
    left,        \* units promised to nobody
    ticket       \* [Users -> TicketState]

vars == <<mode, left, ticket>>

Mode == {"sync", "staged", "open"}
TicketState ==
    {"none", "bought", "pending", "created", "failed", "refunded"}

TypeOK ==
    /\ mode \in Mode
    /\ left \in Nat
    /\ ticket \in [Users -> TicketState]

Init ==
    /\ mode = "sync"
    /\ left = InitStock
    /\ ticket = [u \in Users |-> "none"]

Move(u, from, to) ==
    /\ ticket[u] = from
    /\ ticket' = [ticket EXCEPT ![u] = to]

\* A synchronous order: the unit is sold in the same step.
Buy(u) ==
    /\ mode = "sync"
    /\ left > 0
    /\ Move(u, "none", "bought")
    /\ left' = left - 1
    /\ UNCHANGED mode

\* Only an activity that never sold a unit and still has some may change mode.
Stage ==
    /\ mode = "sync"
    /\ left > 0
    /\ \A u \in Users : ticket[u] = "none"
    /\ mode' = "staged"
    /\ UNCHANGED <<left, ticket>>

Open ==
    /\ mode = "staged"
    /\ mode' = "open"
    /\ UNCHANGED <<left, ticket>>

\* A ticket takes its unit when it is admitted, not when it is settled.
Admit(u) ==
    /\ mode = "open"
    /\ left > 0
    /\ Move(u, "none", "pending")
    /\ left' = left - 1
    /\ UNCHANGED mode

Confirm(u) == Move(u, "pending", "created") /\ UNCHANGED <<mode, left>>

Reject(u) == Move(u, "pending", "failed") /\ UNCHANGED <<mode, left>>

\* The unit of a failed ticket returns exactly once.
Refund(u) ==
    /\ Move(u, "failed", "refunded")
    /\ left' = left + 1
    /\ UNCHANGED mode

Settle(u) == Confirm(u) \/ Reject(u)

Next ==
    \/ Stage
    \/ Open
    \/ \E u \in Users :
          Buy(u) \/ Admit(u) \/ Confirm(u) \/ Reject(u) \/ Refund(u)

Fairness == \A u \in Users : WF_vars(Settle(u)) /\ WF_vars(Refund(u))

SafeSpec == Init /\ [][Next]_vars
Spec == SafeSpec /\ Fairness

\* The users that hold a unit: an order, or a reservation not yet returned.
Holders ==
    {u \in Users : ticket[u] \in {"bought", "pending", "created", "failed"}}

\* No unit is ever lost or sold twice: the free units and the users that
\* hold one always add up to the initial stock.
EveryUnitAccountedFor == left + Cardinality(Holders) = InitStock
=============================================================================
