------------------------------- MODULE Likes --------------------------------
(***************************************************************************)
(* Likes of the blogs of one author, and the notifications the author      *)
(* reads from a Redis stream: a like is a transaction under the lock of    *)
(* the blog's row, its notification an XADD after the commit, and the      *)
(* author polls the stream with the ID of the last message it has seen.    *)
(*                                                                         *)
(* Granularity: one action per statement that waits, reads or writes       *)
(* inside the transaction of a like (its lock is held in between), one per *)
(* Redis command.  A blog is deleted in one transaction that holds the     *)
(* same lock from its first statement on, so it is one action.  Message    *)
(* IDs are numbers, rising with every XADD; the stream is the set of its   *)
(* entries.  Detail, LikeState, Hot and Likers only read.                  *)
(***************************************************************************)
EXTENDS Integers, FiniteSets

CONSTANTS
    Users,
    Author,      \* wrote all the blogs
    Blogs,
    Requests,    \* concurrent PUT and DELETE of /blogs/:id/like
    Window,      \* MAXLEN of the stream (1000 in the code)
    Page,        \* COUNT of XRANGE (50)
    MaxMessages, \* bound: messages ever added to the stream
    MaxFaults    \* bound: lost answers, skipped deliveries, lost cursors

NoRequest == "no request"

ASSUME LikesAssumption ==
    /\ Author \in Users
    /\ IsFiniteSet(Requests) /\ NoRequest \notin Requests
    /\ Window \in Nat \ {0} /\ Page \in Nat \ {0}
    /\ MaxMessages \in Nat /\ MaxFaults \in Nat

VARIABLES
    blogs,       \* rows of blog
    likes,       \* rows of blog_like: pairs <<blog, user>>
    lock,        \* [Blogs -> the request whose transaction has the row locked]
    request,     \* [Requests -> the request in progress]
    clashed,     \* history: a write ran into a key of blog_like, see Clash
    stream,      \* the entries of the author's stream
    added,       \* messages added so far: the last ID
    cursor,      \* Last-Event-ID of the author's next GET /messages/sse
    inbox,       \* the IDs the author has received
    due,         \* history: [<<blog, user>> -> committed likes whose message
                 \*           is neither added nor given up]
    faults

likeVars == <<blogs, likes, lock, request, clashed, stream, added, cursor,
              inbox, due, faults>>
tableVars == <<blogs, likes, lock, clashed>>
readerVars == <<cursor, inbox>>

Pairs == Blogs \X Users
Idle == [pc |-> "idle"]

Message == [id : Nat \ {0}, pair : Pairs]

\* pair is <<blog, user>>; liked is what the request wants it to become.
Request(step, pair, liked) == [pc |-> step, pair |-> pair, liked |-> liked]
Busy == [pc : {"lock", "write", "notify"}, pair : Pairs, liked : BOOLEAN]

TypeOK ==
    /\ blogs \subseteq Blogs
    /\ likes \subseteq Pairs
    /\ lock \in [Blogs -> Requests \cup {NoRequest}]
    /\ request \in [Requests -> {Idle} \cup Busy]
    /\ clashed \in BOOLEAN
    /\ stream \subseteq Message
    /\ added \in Nat
    /\ cursor \in Nat
    /\ inbox \subseteq Nat
    /\ due \in [Pairs -> Int]
    /\ faults \in Nat

Init ==
    /\ blogs = Blogs
    /\ likes = {}
    /\ lock = [b \in Blogs |-> NoRequest]
    /\ request = [r \in Requests |-> Idle]
    /\ clashed = FALSE
    /\ stream = {}
    /\ added = 0
    /\ cursor = 0
    /\ inbox = {}
    /\ due = [p \in Pairs |-> 0]
    /\ faults = 0

Fault == faults < MaxFaults /\ faults' = faults + 1

-----------------------------------------------------------------------------
(* Blog.Like *)

\* Detail: the blog exists.
LikeRead(r, p, liked) ==
    /\ request[r] = Idle
    /\ p[1] \in blogs
    /\ request' = [request EXCEPT ![r] = Request("lock", p, liked)]
    /\ UNCHANGED <<tableVars, stream, added, readerVars, due, faults>>

\* Mutant: the row is read without FOR UPDATE.
NotWaiting(b) == TRUE

\* SELECT ... FOR UPDATE waits for the transaction that holds the row.
Unlocked(b) == lock[b] = NoRequest

\* Mutant: whoever asks for a like gets its notification.
ChangesWhenLiked(p, liked) == liked \/ p \in likes

\* The count against what is asked for: FALSE ends the transaction.
Changes(p, liked) == (p \in likes) # liked

\* The row is locked and the count read; the transaction goes on to write if
\* the like changes, ends if it does not, and fails if the blog is gone.
LikeLock(r) ==
    LET p == request[r].pair
        goesOn == p[1] \in blogs /\ Changes(p, request[r].liked) IN
    /\ request[r].pc = "lock"
    /\ Unlocked(p[1])
    /\ request' = [request EXCEPT ![r] =
                     IF goesOn THEN Request("write", p, request[r].liked)
                     ELSE Idle]
    /\ lock' = IF goesOn THEN [lock EXCEPT ![p[1]] = r] ELSE lock
    /\ UNCHANGED <<blogs, likes, clashed, stream, added, readerVars, due,
                   faults>>

\* PRIMARY KEY (blog_id, user_id) and fk_blog_like_blog.  The foreign key to
\* users has no part in this: no code deletes a user, and the session of the
\* request names one.
Clash(p, liked) == liked /\ (p \in likes \/ p[1] \notin blogs)

\* Mutant: authors are told of their own likes.
AudienceEveryone(p, liked) == liked

\* Who is told: only of a transition to liked, never of one's own.
Audience(p, liked) == liked /\ p[2] # Author

\* INSERT or DELETE, and COMMIT.  A clash rolls back and is an error.
LikeWrite(r) ==
    LET p == request[r].pair
        liked == request[r].liked
        clash == Clash(p, liked) IN
    /\ request[r].pc = "write"
    /\ lock' = [lock EXCEPT ![p[1]] = NoRequest]
    /\ clashed' = (clashed \/ clash)
    /\ likes' = IF clash THEN likes
                ELSE IF liked THEN likes \cup {p} ELSE likes \ {p}
    /\ request' = [request EXCEPT ![r] =
                     IF ~clash /\ Audience(p, liked)
                     THEN Request("notify", p, liked) ELSE Idle]
    /\ due' = [q \in Pairs |-> IF q \in likes' \ likes /\ q[2] # Author
                              THEN due[q] + 1 ELSE due[q]]
    /\ UNCHANGED <<blogs, stream, added, readerVars, faults>>

\* A call of the transaction fails, or its COMMIT is not answered: the
\* request ends without a notification.
LikeFails(r) ==
    LET p == request[r].pair IN
    /\ request[r].pc \in {"lock", "write"}
    /\ Fault
    /\ lock' = IF request[r].pc = "write"
               THEN [lock EXCEPT ![p[1]] = NoRequest] ELSE lock
    /\ request' = [request EXCEPT ![r] = Idle]
    /\ \/ UNCHANGED likes
       \/ /\ request[r].pc = "write" /\ ~Clash(p, request[r].liked)
          /\ likes' = IF request[r].liked THEN likes \cup {p} ELSE likes \ {p}
    /\ UNCHANGED <<blogs, clashed, stream, added, readerVars, due>>

-----------------------------------------------------------------------------
(* notifyLike *)

\* XADD ... MAXLEN evicts the oldest messages.
Trimmed(S) ==
    {m \in S : Cardinality({n \in S : n.id > m.id}) < Window}

AddMessage(p) ==
    /\ added < MaxMessages
    /\ added' = added + 1
    /\ stream' = Trimmed(stream \cup {[id |-> added + 1, pair |-> p]})

Notify(r) ==
    LET p == request[r].pair IN
    /\ request[r].pc = "notify"
    /\ AddMessage(p)
    /\ due' = [due EXCEPT ![p] = @ - 1]
    /\ request' = [request EXCEPT ![r] = Idle]
    /\ UNCHANGED <<tableVars, readerVars, faults>>

\* The message is in the stream but the answer is lost; the Redis client
\* sends it again, under a new ID, or the budget is spent (NotifySkipped).
NotifyUnanswered(r) ==
    /\ request[r].pc = "notify"
    /\ AddMessage(request[r].pair)
    /\ Fault
    /\ UNCHANGED <<tableVars, request, readerVars, due>>

\* Too little time is left, the profile cannot be read or the XADD fails:
\* logged, and the like stays.
NotifySkipped(r) ==
    /\ request[r].pc = "notify"
    /\ due' = [due EXCEPT ![request[r].pair] = @ - 1]
    /\ request' = [request EXCEPT ![r] = Idle]
    /\ UNCHANGED <<tableVars, stream, added, readerVars, faults>>

-----------------------------------------------------------------------------
(* Community.DeleteBlog *)

\* Mutant: the relationships are left behind.
WithoutLikes(b) == likes

\* The likes of the blog go first: the foreign key would refuse otherwise.
LikesElsewhere(b) == {p \in likes : p[1] # b}

DeleteBlog(b) ==
    /\ b \in blogs
    /\ Unlocked(b)
    /\ likes' = LikesElsewhere(b)
    /\ blogs' = blogs \ {b}
    /\ clashed' = (clashed \/ \E p \in likes' : p[1] = b)
    /\ UNCHANGED <<lock, request, stream, added, readerVars, due, faults>>

-----------------------------------------------------------------------------
(* GET /messages/sse *)

\* Mutant: the interval includes the cursor.
FromCursor == {m \in stream : m.id >= cursor}

\* XRANGE (cursor +.
AfterCursor == {m \in stream : m.id > cursor}

\* Mutant: the newest messages come first.
NewestPage(S) ==
    {m \in S : Cardinality({n \in S : n.id >= m.id}) <= Page}

\* COUNT: the oldest of them.
FirstPage(S) ==
    {m \in S : Cardinality({n \in S : n.id <= m.id}) <= Page}

\* The client remembers the last ID it got.  An answer that is empty or lost
\* changes nothing.
Poll ==
    /\ \E last \in FirstPage(AfterCursor) :
          /\ \A m \in FirstPage(AfterCursor) : m.id <= last.id
          /\ cursor' = last.id
    /\ inbox' = inbox \cup {m.id : m \in FirstPage(AfterCursor)}
    /\ UNCHANGED <<tableVars, request, stream, added, due, faults>>

\* The client reconnects without Last-Event-ID: it starts over.
Reconnect ==
    /\ cursor # 0
    /\ Fault
    /\ cursor' = 0
    /\ UNCHANGED <<tableVars, request, stream, added, inbox, due>>

-----------------------------------------------------------------------------
RequestStep(r) ==
    \/ \E p \in Pairs, liked \in BOOLEAN : LikeRead(r, p, liked)
    \/ LikeLock(r)
    \/ LikeWrite(r)
    \/ LikeFails(r)
    \/ Notify(r)
    \/ NotifyUnanswered(r)
    \/ NotifySkipped(r)

Next ==
    \/ \E r \in Requests : RequestStep(r)
    \/ \E b \in Blogs : DeleteBlog(b)
    \/ Poll
    \/ Reconnect

Spec == Init /\ [][Next]_likeVars

\* "Clients reconnect with Last-Event-ID": the author keeps polling.  Nothing
\* is assumed of likers, of the owner or of deliveries.
FairSpec == Spec /\ WF_likeVars(Poll)

-----------------------------------------------------------------------------
(* Properties *)

\* One message per transition to liked, however requests of one user overlap,
\* repeat, toggle or fail: a message is added only while a committed like of
\* somebody else still waits for its own (an answer that was lost apart,
\* which the Redis client turns into a second copy).
MessagesAreEarned == \A p \in Pairs : due[p] >= 0

\* "Serialize with likes": since all of them queue for the row of the blog, no
\* count is stale when it is acted upon, and neither the primary key nor the
\* foreign key to blog ever fires; it would turn a legal request into an error.
ConstraintsNeverFire == ~clashed

Ids(S) == {m.id : m \in S}

\* The cursor never passes a message that is still there unread: what an
\* author misses has left the retained window.
CursorNeverSkips == \A n \in Ids(stream) : n <= cursor => n \in inbox

\* A message reaches the author unless the window evicts it first, although
\* batches are short and clients forget where they were.
MessagesArrive ==
    \A n \in 1 .. MaxMessages :
       n \in Ids(stream) ~> (n \in inbox \/ n \notin Ids(stream))
=============================================================================
