----------------------------- MODULE VoucherView -----------------------------
(***************************************************************************)
(* GET /vouchers and GET /vouchers/:id: the status of the activity as      *)
(* visitors see it.  It is judged from a row one SQL statement has read    *)
(* and from the clock of the API process, which is read later and is none  *)
(* of the stores' clocks; orders are taken meanwhile, synchronously under  *)
(* the row lock or by a script that never looks at the SQL stock.  A       *)
(* voucher without activity shows no status, and a view changes nothing.   *)
(***************************************************************************)
EXTENDS AsyncSeckill

CONSTANT Visitors    \* who looks at the page of the voucher

\* Per visitor: no page, the row a request in progress holds, or the status
\* that was answered and may be looked at for any time.
VARIABLE page

viewVars == <<vars, page>>

NoPage == [pc |-> "none"]
RowHeld == [pc : {"row"}, stock : Nat]
StatusShown ==
    [pc : {"shown"}, status : {"upcoming", "ended", "sold_out", "active"}]

PageTypeOK == page \in [Visitors -> {NoPage} \cup RowHeld \cup StatusShown]

PageInit == Init /\ page = [v \in Visitors |-> NoPage]

\* Mutant: the last unit is not offered any more.
VoucherStatusLast(left, clock) ==
    IF clock < BeginTime THEN "upcoming"
    ELSE IF EndTime <= clock THEN "ended"
    ELSE IF left <= 1 THEN "sold_out"
    ELSE "active"

VoucherStatus(left, clock) ==
    IF clock < BeginTime THEN "upcoming"
    ELSE IF EndTime <= clock THEN "ended"
    ELSE IF left = 0 THEN "sold_out"
    ELSE "active"

\* The statement joins the voucher and its activity in one read view.  A
\* visitor may ask again at any time, also before an answer.
ReadRow(v) ==
    /\ page' = [page EXCEPT ![v] = [pc |-> "row", stock |-> stock]]
    /\ UNCHANGED vars

\* The API process asks its own clock, whatever it may say.
ShowPage(v) ==
    /\ page[v].pc = "row"
    /\ \E clock \in 0 .. MaxTime :
          page' = [page EXCEPT ![v] =
             [pc |-> "shown", status |-> VoucherStatus(page[v].stock, clock)]]
    /\ UNCHANGED vars

ViewNext == \E v \in Visitors : ReadRow(v) \/ ShowPage(v)

PageSpec ==
    /\ PageInit
    /\ [][(Next /\ UNCHANGED page) \/ ViewNext]_viewVars

SoldOut == [pc |-> "shown", status |-> "sold_out"]
SoldOutShown == \E v \in Visitors : page[v] = SoldOut

\* Somebody gets in: by a direct order, or by a ticket of a Redis that has
\* lost nothing.
Entered ==
    \/ \E o \in orders' \ orders : o.event = 0
    \/ losses = 0 /\ stream' \ stream # {}

\* Once a visitor was told that the activity is sold out nobody gets in any
\* more, however old the row was and whatever clock it was judged by, and
\* although Redis may still owe and return units of tickets that failed:
\* what Redis offers MySQL has left, and MySQL's stock never rises.
SoldOutIsFinal == [][ Entered => ~SoldOutShown ]_viewVars
=============================================================================
