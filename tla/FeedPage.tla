------------------------------ MODULE FeedPage ------------------------------
(***************************************************************************)
(* Reading the feed while FeedIndex changes it.  The first request copies  *)
(* the reader's index and its cardinality to two keys that expire; every   *)
(* page is cut from that copy at the cursor <<max, offset>> and shows the  *)
(* rows the reader may still see.                                          *)
(*                                                                         *)
(* Each reader follows one chain of cursors at a time and may start over.  *)
(* A request that fails, or whose reply is lost, is sent again with the    *)
(* cursor it had.  IDs stand for the members of the index in the order     *)
(* Redis keeps them, which among equal scores is that of their text.       *)
(***************************************************************************)
EXTENDS FeedIndex

CONSTANTS
    Sizes        \* page sizes that are asked for (1 .. 50 in the code)

ASSUME PageAssumption == Sizes \subseteq Nat \ {0}

VARIABLES
    session      \* [Readers -> the snapshot and where its reader stands]

vars == <<indexVars, session>>

MaxScore == MaxTime + 1     \* above every score
NoSession == [pc |-> "none"]

InitPage == Init /\ session = [r \in Readers |-> NoSession]

-----------------------------------------------------------------------------
(* The snapshot *)

\* The snapshot script: members and cardinality in one step.  The history
\* variables: taken is the copy made, seen the entries whose pages were
\* answered, served how many entries those pages had, shown the ones whose
\* blogs they showed, steady the ones visible ever since.
Open(r) ==
    /\ session' = [session EXCEPT ![r] =
         [pc |-> "paging", members |-> live[r],
          counted |-> TRUE, count |-> Cardinality(live[r]),
          max |-> MaxScore, offset |-> 0,
          page |-> {}, more |-> FALSE,
          taken |-> live[r], seen |-> {}, served |-> 0, shown |-> {},
          steady |-> {EntryOf(b) : b \in {c \in Rows :
                        Visible(r, c) /\ EntryOf(c) \in live[r]}}]]
    /\ UNCHANGED indexVars

\* One of the two keys expires first; the other follows.
LoseMembers(r) ==
    /\ session[r].pc \in {"paging", "rows"}
    /\ session[r].members # {}
    /\ session' = [session EXCEPT ![r].members = {}]
    /\ UNCHANGED indexVars

LoseCount(r) ==
    /\ session[r].pc \in {"paging", "rows"}
    /\ session[r].counted
    /\ session' = [session EXCEPT ![r].counted = FALSE]
    /\ UNCHANGED indexVars

-----------------------------------------------------------------------------
(* One page *)

Before(e, f) == e.score > f.score \/ (e.score = f.score /\ e.id > f.id)
Rank(S, e) == Cardinality({f \in S : Before(f, e)})     \* from 0
Last(S) == CHOOSE e \in S : \A f \in S : f = e \/ Before(f, e)

\* ZREVRANGEBYSCORE max -inf LIMIT offset limit.
Window(S, max, offset, limit) ==
    LET below == {e \in S : e.score <= max} IN
    {e \in below : Rank(below, e) \in offset .. (offset + limit - 1)}

\* Mutant: no entry is asked for beyond the page.
LimitExact(size) == size

Limit(size) == size + 1

\* Mutant: the cardinality is not compared.
SnapshotIntactUncounted(s) == s.counted

\* The key with the cardinality is there and agrees with the members.
SnapshotIntact(s) == s.counted /\ Cardinality(s.members) = s.count

\* The page is read: up to size entries, and whether there are more.
ReadPage(r) ==
    LET s == session[r] IN
    /\ s.pc = "paging"
    /\ SnapshotIntact(s)
    /\ \E size \in Sizes :
       LET entries == Window(s.members, s.max, s.offset, Limit(size))
           page == {e \in entries : Rank(entries, e) < size} IN
       session' = [session EXCEPT
                     ![r].pc = "rows", ![r].page = page,
                     ![r].more = Cardinality(entries) > size]
    /\ UNCHANGED indexVars

\* 409: the reader has to start over.
ReadConflict(r) ==
    /\ session[r].pc = "paging"
    /\ ~SnapshotIntact(session[r])
    /\ session' = [session EXCEPT ![r] = [NoSession EXCEPT !.pc = "conflict"]]
    /\ UNCHANGED indexVars

VisibleTo(r) == {EntryOf(b) : b \in {c \in Rows : Visible(r, c)}}

\* Mutant: the page stops at the first blog that may not be seen.
ShownUntilGap(r, page) ==
    {e \in page : \A f \in page : Before(f, e) => f \in VisibleTo(r)}
        \cap VisibleTo(r)

\* The blogs of a page its reader may see now; the others leave gaps.
ShownOf(r, page) == page \cap VisibleTo(r)

\* Mutant: the offset counts this page's entries only.
NextOffsetOfPage(s) ==
    Cardinality({e \in s.page : e.score = Last(s.page).score})

\* How many entries of the last score have been consumed.
NextOffset(s) ==
    LET score == Last(s.page).score IN
    Cardinality({e \in s.page : e.score = score})
       + IF score = s.max THEN s.offset ELSE 0

\* The rows are read, the page is answered with the next cursor.
AnswerPage(r) ==
    LET s == session[r] IN
    /\ s.pc = "rows"
    /\ session' = [session EXCEPT ![r] =
         [s EXCEPT
            !.pc = IF s.more THEN "paging" ELSE "done",
            !.max = IF s.more THEN Last(s.page).score ELSE @,
            !.offset = IF s.more THEN NextOffset(s) ELSE @,
            !.page = {}, !.more = FALSE,
            !.seen = @ \cup s.page,
            !.served = @ + Cardinality(s.page),
            !.shown = @ \cup ShownOf(r, s.page)]]
    /\ UNCHANGED indexVars

\* Reading the rows fails or the reply is lost: the same cursor again.
AnswerLost(r) ==
    /\ session[r].pc = "rows"
    /\ session' = [session EXCEPT ![r].pc = "paging", ![r].page = {},
                                  ![r].more = FALSE]
    /\ UNCHANGED indexVars

-----------------------------------------------------------------------------
PageStep(r) ==
    \/ Open(r) \/ LoseMembers(r) \/ LoseCount(r)
    \/ ReadPage(r) \/ ReadConflict(r) \/ AnswerPage(r) \/ AnswerLost(r)

Paging(s) == s.pc \in {"paging", "rows", "done"}

\* Publishing, following and rebuilding go on; a blog that gets out of sight
\* is no longer steady.
IndexStep ==
    /\ Next
    /\ session' = [r \in Readers |->
                     IF Paging(session[r])
                     THEN [session[r] EXCEPT !.steady = @ \cap VisibleTo(r)']
                     ELSE session[r]]

NextPage == IndexStep \/ \E r \in Readers : PageStep(r)

SpecPage == InitPage /\ [][NextPage]_vars

-----------------------------------------------------------------------------
(* Properties *)

\* Pages neither repeat nor skip: whatever sizes were asked for and however
\* many blogs share a millisecond, the entries answered so far are the first
\* ones of the snapshot, each answered once.
PagesAreConsecutive ==
    \A r \in Readers : LET s == session[r] IN
       Paging(s) =>
          /\ s.served = Cardinality(s.seen)
          /\ s.seen = {e \in s.taken : Rank(s.taken, e) < s.served}

\* has_more is false only at the end: a reader who came that far got the
\* whole index as it was when the reading began, even if keys of the snapshot
\* vanished on the way (that is a conflict instead).
DoneMeansAll ==
    \A r \in Readers : session[r].pc = "done" =>
                          session[r].seen = session[r].taken

\* A reader who came to the end was shown every blog that was in the index
\* and that they could see all along, however others were deleted or their
\* authors unfollowed between the pages.
SteadyIsShown ==
    \A r \in Readers : session[r].pc = "done" =>
                          session[r].steady \subseteq session[r].shown
=============================================================================
