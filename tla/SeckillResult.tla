---------------------------- MODULE SeckillResult ---------------------------
(***************************************************************************)
(* GET /vouchers/:id/seckill-result: a buyer polls for the fate of the     *)
(* ticket while AsyncSeckill runs.  AsyncOrder.Result makes three calls    *)
(* (the MySQL result, the MySQL activity row, the Redis receipt script)    *)
(* with nothing locked in between; workers commit, refund and acknowledge  *)
(* between any two of them.                                                *)
(***************************************************************************)
EXTENDS AsyncSeckill

CONSTANT Askers     \* the users that poll

ASSUME AskersAssumption == Askers \subseteq Users

VARIABLES
    query,      \* [Askers -> the next call of the query, "idle" if none]
    answer      \* [Askers -> the last answer the user received]

askVars == <<query, answer>>
allVars == <<vars, askVars>>

NoAnswer == [status |-> "none", ticket |-> 0]

\* Errors of the calls themselves reach the user as 5xx and are no answer;
\* "dependency" is the script's own verdict that the receipt is broken.
Answer ==
    [status : {"none", "pending", "created", "failed", "not_found",
               "conflict", "dependency"},
     ticket : Nat]

AskTypeOK ==
    /\ query \in [Askers -> {"idle", "activity", "receipt"}]
    /\ answer \in [Askers -> Answer]

AskInit ==
    /\ Init
    /\ query = [u \in Askers |-> "idle"]
    /\ answer = [u \in Askers |-> NoAnswer]

Reply(u, status, ticket) ==
    /\ answer' = [answer EXCEPT ![u] = [status |-> status, ticket |-> ticket]]
    /\ query' = [query EXCEPT ![u] = "idle"]

Proceed(u, step) ==
    /\ query' = [query EXCEPT ![u] = step]
    /\ UNCHANGED answer

\* Mutant: the result is read where a committed row may not have arrived yet.
AskResultLagging(u) ==
    /\ query[u] = "idle"
    /\ \/ \E r \in results : r.event.user = u /\ Reply(u, r.status, r.event.id)
       \/ Proceed(u, "activity")
    /\ UNCHANGED vars

\* The final result, if MySQL has one for this user.
AskResult(u) ==
    /\ query[u] = "idle"
    /\ \/ \E r \in results : r.event.user = u /\ Reply(u, r.status, r.event.id)
       \/ /\ \A r \in results : r.event.user # u
          /\ Proceed(u, "activity")
    /\ UNCHANGED vars

\* The generation this call returns cannot change before the receipt is
\* read: it is fixed once asyncState = 2.
AskActivity(u) ==
    /\ query[u] = "activity"
    /\ IF asyncState = 2 THEN Proceed(u, "receipt") ELSE Reply(u, "conflict", 0)
    /\ UNCHANGED vars

\* Mutant: an admitted ticket is reported as an order.
AskReceiptOptimistic(u) ==
    /\ query[u] = "receipt"
    /\ stateKey /\ eventsKey
    /\ \E e \in buyers : e.user = u /\ Reply(u, "created", e.id)
    /\ UNCHANGED vars

\* The receipt script: the marker of the user must lead to its stream entry,
\* and that entry belong to the generation of the snapshot.
Receipt(u) ==
    {e \in buyers \cap stream : e.user = u /\ e.gen = rGeneration}

\* The reply, and the comparison of its generation with that of the row.
AskReceipt(u) ==
    LET marked == \E e \in buyers : e.user = u
        receipts == {e \in Receipt(u) : stateKey /\ eventsKey
                                        /\ e.gen = generation} IN
    /\ query[u] = "receipt"
    /\ \/ \E e \in receipts : Reply(u, "pending", e.id)
       \/ stateKey /\ eventsKey /\ ~marked /\ Reply(u, "not_found", 0)
       \/ /\ receipts = {}
          /\ ~(stateKey /\ eventsKey) \/ marked
          /\ Reply(u, "dependency", 0)
    /\ UNCHANGED vars

AskNext == \E u \in Askers : AskResult(u) \/ AskActivity(u) \/ AskReceipt(u)

ResultSpec ==
    /\ AskInit
    /\ [][(Next /\ UNCHANGED askVars) \/ AskNext]_allVars

\* The fairness of AsyncSeckill; nothing is assumed of those who poll.
FairResultSpec == ResultSpec /\ Fairness

\* Once a user has seen a ticket every later answer names the same ticket,
\* and once it was told created or failed the answer never changes, although
\* the ticket moves from Redis to MySQL between the calls of a query.
AnswersOnlyAdvance ==
    [][ \A u \in Askers :
          (losses = 0 /\ answer[u].ticket # 0) =>
             /\ answer'[u].ticket = answer[u].ticket
             /\ answer[u].status # "pending" => answer'[u] = answer[u] ]_allVars

\* A polled answer is never ahead of the truth: created means that the order
\* is there for the user, failed that it never will be.
AnswersAreTrue ==
    \A u \in Askers :
       /\ answer[u].status = "created" =>
             [user |-> u, event |-> answer[u].ticket] \in orders
       /\ answer[u].status = "failed" => ~HasOrder(u)
=============================================================================
