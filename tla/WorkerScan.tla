----------------------------- MODULE WorkerScan -----------------------------
(***************************************************************************)
(* How a seckill worker finds its work when many activities are open: it   *)
(* pages through the active ones, at most Limit at a time, and per         *)
(* activity keeps the cursor of XAUTOCLAIM, which looks at a bounded part  *)
(* of the pending entries.  AsyncSeckill assumes that a pending entry is   *)
(* claimed in some later round; this module shows why.  What processing an *)
(* entry does is the business of AsyncSeckill: here it ends or fails.      *)
(*                                                                         *)
(* Granularity: one action per query or Redis command, as in AsyncSeckill. *)
(***************************************************************************)
EXTENDS Naturals, FiniteSets

CONSTANTS
    Activities,  \* voucher IDs
    Workers,
    Limit,       \* activities per query (100 in the code)
    Count,       \* entries per XAUTOCLAIM and XREADGROUP (20 in the code)
    MaxEntries,  \* bound: reservations made
    MaxBad,      \* bound: malformed stream entries
    MaxFaults    \* bound: failed calls and crashes

ASSUME ScanAssumption ==
    /\ Activities \subseteq Nat \ {0} /\ IsFiniteSet(Activities)
    /\ Limit \in Nat \ {0} /\ Count \in Nat \ {0}
    /\ MaxEntries \in Nat /\ MaxBad \in Nat /\ MaxFaults \in Nat

VARIABLES
    active,      \* activities with async_state = 2
    added,       \* number of stream entries so far
    fresh,       \* entries not yet delivered
    pending,     \* entries delivered and not acknowledged
    idle,        \* those of them nobody touched for 30 s
    worker,      \* [Workers -> the local variables of RunWorker]
    faults

vars == <<active, added, fresh, pending, idle, worker, faults>>

\* An entry of the stream of activity act; bad ones cannot be decoded.
Entry == [id : Nat \ {0}, act : Activities, bad : BOOLEAN]

\* after and todo page through the activities, cursors[a] is where the next
\* XAUTOCLAIM on a starts, 0 for "0-0".
Started == [pc |-> "scan", after |-> 0, todo |-> {},
            cursors |-> [a \in Activities |-> 0], hand |-> {}]

TypeOK ==
    /\ active \subseteq Activities
    /\ added \in Nat /\ faults \in Nat
    /\ fresh \subseteq Entry /\ pending \subseteq Entry
    /\ idle \subseteq pending
    /\ worker \in [Workers ->
                     [pc : {"scan", "claim", "read", "process"},
                      after : Activities \cup {0}, todo : SUBSET Activities,
                      cursors : [Activities -> Nat], hand : SUBSET Entry]]

Init ==
    /\ active = {}
    /\ added = 0
    /\ fresh = {}
    /\ pending = {}
    /\ idle = {}
    /\ worker = [w \in Workers |-> Started]
    /\ faults = 0

Fault == faults < MaxFaults /\ faults' = faults + 1

\* The n first numbers, and the n first entries.
FirstIDs(S, n) == {i \in S : Cardinality({j \in S : j < i}) < n}
FirstOf(S, n) == {e \in S : Cardinality({f \in S : f.id < e.id}) < n}
Least(S) == CHOOSE i \in S : \A j \in S : i <= j
Greatest(S) == CHOOSE i \in S : \A j \in S : j <= i

-----------------------------------------------------------------------------
(* RunWorker *)

\* Mutant: a short page does not start over.
NextAfterStuck(w, page) == IF page = {} THEN worker[w].after ELSE Greatest(page)

\* Where the following page begins.
NextAfter(w, page) ==
    IF Cardinality(page) < Limit THEN 0 ELSE Greatest(page)

Scan(w) ==
    LET page == FirstIDs({a \in active : a > worker[w].after}, Limit) IN
    /\ worker[w].pc = "scan"
    /\ worker' = [worker EXCEPT
                    ![w].after = NextAfter(w, page),
                    ![w].todo = page,
                    ![w].pc = IF page = {} THEN "scan" ELSE "claim"]
    /\ UNCHANGED <<active, added, fresh, pending, idle, faults>>

Current(w) == Least(worker[w].todo)

\* XAUTOCLAIM looks at the pending entries from the cursor on until it has
\* Count idle ones or has looked at ten times as many.
Examined(w) ==
    LET from == {e \in pending : /\ e.act = Current(w)
                                 /\ e.id >= worker[w].cursors[Current(w)]}
        Before(e) == {f \in from : f.id < e.id}
    IN  {e \in from : /\ Cardinality(Before(e)) < 10 * Count
                      /\ Cardinality(Before(e) \cap idle) < Count}

\* Mutant: every round starts at the first pending entry.
NextCursorReset(w) == 0

NextCursor(w) ==
    LET rest == {e.id : e \in {f \in pending \ Examined(w) :
                   /\ f.act = Current(w)
                   /\ f.id >= worker[w].cursors[Current(w)]}}
    IN  IF rest = {} THEN 0 ELSE Least(rest)

Healthy(S) == {e \in S : ~e.bad}

Claim(w) ==
    /\ worker[w].pc = "claim"
    /\ idle' = idle \ Examined(w)
    /\ worker' = [worker EXCEPT
                    ![w].cursors[Current(w)] = NextCursor(w),
                    ![w].hand = Healthy(Examined(w) \cap idle),
                    ![w].pc = "read"]
    /\ UNCHANGED <<active, added, fresh, pending, faults>>

\* The call fails, or claims and its reply is lost: the cursor stays.
ClaimFails(w) ==
    /\ worker[w].pc = "claim"
    /\ Fault
    /\ idle' \in {idle, idle \ Examined(w)}
    /\ worker' = [worker EXCEPT ![w].hand = {}, ![w].pc = "read"]
    /\ UNCHANGED <<active, added, fresh, pending>>

\* The activity is done with: on to the next one or the next page.
Leave(w) ==
    LET rest == worker[w].todo \ {Current(w)} IN
    worker' = [worker EXCEPT
                 ![w].hand = {}, ![w].todo = rest,
                 ![w].pc = IF rest = {} THEN "scan" ELSE "claim"]

Delivered(w) == FirstOf({e \in fresh : e.act = Current(w)}, Count)

Deliver(w) ==
    /\ fresh' = fresh \ Delivered(w)
    /\ pending' = pending \cup Delivered(w)

GoOn(w, hand) ==
    IF hand = {} THEN Leave(w)
    ELSE worker' = [worker EXCEPT ![w].hand = hand, ![w].pc = "process"]

Read(w) ==
    /\ worker[w].pc = "read"
    /\ Deliver(w)
    /\ GoOn(w, worker[w].hand \cup Healthy(Delivered(w)))
    /\ UNCHANGED <<active, added, idle, faults>>

ReadFails(w) ==
    /\ worker[w].pc = "read"
    /\ Fault
    /\ Deliver(w) \/ UNCHANGED <<fresh, pending>>
    /\ GoOn(w, worker[w].hand)
    /\ UNCHANGED <<active, added, idle>>

\* Process ends with the acknowledgement of the entry, or with an error.
Process(w, e) ==
    /\ worker[w].pc = "process"
    /\ e \in FirstOf(worker[w].hand, 1)
    /\ pending' = pending \ {e}
    /\ idle' = idle \ {e}
    /\ GoOn(w, worker[w].hand \ {e})
    /\ UNCHANGED <<active, added, fresh, faults>>

ProcessFails(w, e) ==
    /\ worker[w].pc = "process"
    /\ e \in FirstOf(worker[w].hand, 1)
    /\ Fault
    /\ GoOn(w, worker[w].hand \ {e})
    /\ UNCHANGED <<active, added, fresh, pending, idle>>

\* The process ends; its successor knows neither cursors nor the page.
Restart(w) ==
    /\ worker[w] # Started
    /\ Fault
    /\ worker' = [worker EXCEPT ![w] = Started]
    /\ UNCHANGED <<active, added, fresh, pending, idle>>

-----------------------------------------------------------------------------
(* Environment *)

Activate(a) ==
    /\ a \notin active
    /\ active' = active \cup {a}
    /\ UNCHANGED <<added, fresh, pending, idle, worker, faults>>

\* A reservation is added to the stream of a, or something undecodable is.
Arrive(a, bad) ==
    /\ a \in active
    /\ added < MaxEntries
    /\ bad => Cardinality({e \in fresh \cup pending : e.bad}) < MaxBad
    /\ added' = added + 1
    /\ fresh' = fresh \cup {[id |-> added + 1, act |-> a, bad |-> bad]}
    /\ UNCHANGED <<active, pending, idle, worker, faults>>

\* 30 s pass without anybody claiming e.
GetsIdle(e) ==
    /\ e \in pending \ idle
    /\ idle' = idle \cup {e}
    /\ UNCHANGED <<active, added, fresh, pending, worker, faults>>

-----------------------------------------------------------------------------
Progress(w) ==
    \/ Scan(w) \/ Claim(w) \/ Read(w)
    \/ \E e \in worker[w].hand : Process(w, e)

Failure(w) ==
    \/ ClaimFails(w) \/ ReadFails(w) \/ Restart(w)
    \/ \E e \in worker[w].hand : ProcessFails(w, e)

Next ==
    \/ \E w \in Workers : Progress(w) \/ Failure(w)
    \/ \E a \in Activities : Activate(a) \/ \E bad \in BOOLEAN : Arrive(a, bad)
    \/ \E e \in pending : GetsIdle(e)

\* RunWorker loops until it is cancelled, each call has a deadline, and time
\* passes.  Nothing is assumed of operators, buyers or faults.
FairSpec ==
    /\ Init /\ [][Next]_vars
    /\ \A w \in Workers : WF_vars(Progress(w))
    /\ \A n \in 1 .. MaxEntries :
          WF_vars(\E e \in pending : e.id = n /\ GetsIdle(e))

-----------------------------------------------------------------------------
(* Properties *)

\* "Bad entries ... must not prevent unrelated orders from completing": every
\* entry that can be decoded is processed, although malformed ones stay
\* pending for ever, are claimed again and again and use up the count, and
\* although workers restart and lose answers.
HealthyEntriesComplete ==
    \A n \in 1 .. MaxEntries :
       (\E e \in fresh \cup pending : e.id = n /\ ~e.bad)
          ~> (\A e \in fresh \cup pending : e.id # n)
=============================================================================
