----------------------------- MODULE FeedIndex ------------------------------
(***************************************************************************)
(* The push feed: publishing stores a blog in MySQL, asks who follows its  *)
(* author and adds it to each follower's :live index in Redis, in batches; *)
(* feed-rebuild recomputes one index from MySQL and swaps it in.           *)
(*                                                                         *)
(* Granularity: one action per MySQL statement, Redis pipeline or script.  *)
(* MySQL stores the created_at the program computed before the INSERT, so  *)
(* a row may carry an earlier time than its commit, by at most MaxLag.     *)
(* A rebuild runs as docs/api/feed.md prescribes: publishing and follow    *)
(* changes are paused, and one reader is rebuilt once at a time.           *)
(***************************************************************************)
EXTENDS Naturals, FiniteSets

CONSTANTS
    Readers,     \* users that follow
    Authors,     \* users that publish
    Batch,       \* indexes per pipeline, members per ZADD (500 in the code)
    MaxLag,      \* bound: from computing created_at to the commit of the row
    MaxTime,     \* bound: the clock stops here
    MaxBlogs,    \* bound: blogs that are published
    MaxFollows,  \* bound: follow requests
    MaxFaults    \* bound: failed calls, crashes and lost keys

ASSUME FeedAssumption ==
    /\ IsFiniteSet(Readers) /\ IsFiniteSet(Authors)
    /\ Batch \in Nat \ {0} /\ MaxLag \in Nat /\ MaxTime \in Nat
    /\ MaxBlogs \in Nat /\ MaxFollows \in Nat /\ MaxFaults \in Nat

VARIABLES
    now, faults,
    follow,      \* [Readers -> [Authors -> created_at, 0 if not following]]
    followed,    \* number of follow requests so far
    posted,      \* every blog ever stored
    deleted,     \* the IDs of those whose row is gone
    live,        \* [Readers -> members of the :live index]
    publisher,   \* [Authors -> the publication in progress]
    builder,     \* the rebuild in progress
    due,         \* history: <<r, b>> if r followed when b was stored and since
    missed       \* history: <<r, b>> in due whose entry was not pushed or was lost

indexVars == <<now, faults, follow, followed, posted, deleted, live,
               publisher, builder, due, missed>>

Blog == [id : Nat \ {0}, author : Authors, at : Nat \ {0}]
NoBlog == [id |-> 0]

\* A member of an index: the blog and its created_at in milliseconds.
FeedEntry == [id : Nat \ {0}, score : Nat \ {0}]

EntryOf(b) == [id |-> b.id, score |-> b.at]

NoOne == "no reader"
Quiet == [pc |-> "idle", blog |-> NoBlog, todo |-> {}]
NoBuild == [pc |-> "idle", reader |-> NoOne, todo |-> {}, temporary |-> {},
            size |-> 0]

Init ==
    /\ now = 1
    /\ faults = 0
    /\ follow = [r \in Readers |-> [a \in Authors |-> 0]]
    /\ followed = 0
    /\ posted = {}
    /\ deleted = {}
    /\ live = [r \in Readers |-> {}]
    /\ publisher = [a \in Authors |-> Quiet]
    /\ builder = NoBuild
    /\ due = {}
    /\ missed = {}

Fault == faults < MaxFaults /\ faults' = faults + 1
Paused == builder.pc # "idle"
AllQuiet == \A a \in Authors : publisher[a].pc = "idle"

\* A created_at a row committed now may carry.
Stamps == {t \in 1 .. now : now <= t + MaxLag}

Rows == {b \in posted : b.id \notin deleted}

\* The join of FeedSource and VisibleByIDs.
Visible(r, b) == follow[r][b.author] # 0 /\ follow[r][b.author] <= b.at

-----------------------------------------------------------------------------
(* Follow.Set *)

Follow(r, a) ==
    /\ ~Paused
    /\ follow[r][a] = 0     \* a repeated request changes nothing
    /\ followed < MaxFollows
    /\ followed' = followed + 1
    /\ \E t \in Stamps : follow' = [follow EXCEPT ![r][a] = t]
    /\ UNCHANGED <<now, faults, posted, deleted, live, publisher, builder,
                   due, missed>>

Unfollow(r, a) ==
    /\ ~Paused
    /\ follow[r][a] # 0
    /\ follow' = [follow EXCEPT ![r][a] = 0]
    /\ due' = {d \in due : d[1] # r \/ d[2].author # a}
    /\ UNCHANGED <<now, faults, followed, posted, deleted, live, publisher,
                   builder, missed>>

-----------------------------------------------------------------------------
(* Blog.Publish and Feed.Push *)

\* INSERT; the row is read back before the push, which uses its created_at.
Store(a) ==
    /\ ~Paused
    /\ publisher[a] = Quiet
    /\ Cardinality(posted) < MaxBlogs
    /\ \E t \in Stamps :
       LET b == [id |-> Cardinality(posted) + 1, author |-> a, at |-> t] IN
       /\ posted' = posted \cup {b}
       /\ publisher' = [publisher EXCEPT ![a] =
                          [pc |-> "stored", blog |-> b, todo |-> {}]]
       /\ due' = due \cup {<<r, b>> : r \in {q \in Readers :
                             follow[q][a] # 0 /\ follow[q][a] <= t}}
    /\ UNCHANGED <<now, faults, follow, followed, deleted, live, builder,
                   missed>>

\* Mutant: whoever followed in the very millisecond is not asked.
FollowersStrictly(b) ==
    {r \in Readers : follow[r][b.author] # 0 /\ follow[r][b.author] < b.at}

Followers(b) ==
    {r \in Readers : follow[r][b.author] # 0 /\ follow[r][b.author] <= b.at}

\* The blog b still has to reach the readers in S.
Pushing(b, S) == [pc |-> "push", blog |-> b, todo |-> S]

QueryFollowers(a) ==
    LET b == publisher[a].blog IN
    /\ publisher[a].pc = "stored"
    /\ publisher' = [publisher EXCEPT ![a] = Pushing(b, Followers(b))]
    /\ UNCHANGED <<now, faults, follow, followed, posted, deleted, live,
                   builder, due, missed>>

\* ZADD NX: an entry keeps the position it has.
AddTo(index, e) ==
    IF \E f \in index : f.id = e.id THEN index ELSE index \cup {e}

PushTo(S, b) ==
    live' = [r \in Readers |->
               IF r \in S THEN AddTo(live[r], EntryOf(b)) ELSE live[r]]

\* Mutant: only the first batch is sent.
LaterBatches(todo, S) == {}

\* What remains after a batch.
RemainingAfter(todo, S) == todo \ S

PushBatch(a) ==
    LET b == publisher[a].blog
        todo == publisher[a].todo IN
    /\ publisher[a].pc = "push"
    /\ todo # {}
    /\ \E S \in SUBSET todo :
       /\ Cardinality(S) = Batch \/ (S = todo /\ Cardinality(S) < Batch)
       /\ PushTo(S, b)
       /\ publisher' = [publisher EXCEPT
                          ![a] = Pushing(b, RemainingAfter(todo, S))]
    /\ UNCHANGED <<now, faults, follow, followed, posted, deleted, builder,
                   due, missed>>

PushDone(a) ==
    /\ publisher[a].pc = "push"
    /\ publisher[a].todo = {}
    /\ publisher' = [publisher EXCEPT ![a] = Quiet]
    /\ UNCHANGED <<now, faults, follow, followed, posted, deleted, live,
                   builder, due, missed>>

\* The read-back, the follower query or a pipeline fails, part of which may
\* have been executed, or the process dies; the read-back also fails if the
\* blog was deleted at once.  A stored blog stays, nobody retries.
PublishFails(a) ==
    LET b == publisher[a].blog IN
    /\ publisher[a].pc # "idle"
    /\ \/ Fault
       \/ publisher[a].pc = "stored" /\ b.id \in deleted /\ UNCHANGED faults
    /\ \E S \in SUBSET publisher[a].todo :
       /\ Cardinality(S) <= Batch
       /\ PushTo(S, b)
    /\ missed' = missed \cup {d \in due : /\ d[2] = b
                                          /\ EntryOf(b) \notin live'[d[1]]}
    /\ publisher' = [publisher EXCEPT ![a] = Quiet]
    /\ UNCHANGED <<now, follow, followed, posted, deleted, builder, due>>

\* The author deletes a blog: indexes keep the entry.
DeleteBlog(b) ==
    /\ b \in Rows
    /\ deleted' = deleted \cup {b.id}
    /\ UNCHANGED <<now, faults, follow, followed, posted, live, publisher,
                   builder, due, missed>>

-----------------------------------------------------------------------------
(* Feed.Rebuild, run by feed-rebuild *)

RebuildQuery(r) ==
    LET source == {EntryOf(b) : b \in {c \in Rows : Visible(r, c)}} IN
    /\ builder = NoBuild
    /\ AllQuiet
    /\ builder' = [pc |-> "build", reader |-> r, todo |-> source,
                   temporary |-> {}, size |-> Cardinality(source)]
    /\ UNCHANGED <<now, faults, follow, followed, posted, deleted, live,
                   publisher, due, missed>>

\* The rebuild goes on with what remains and what the temporary key holds.
Building(todo, temporary) ==
    builder' = [pc |-> "build", reader |-> builder.reader, todo |-> todo,
                temporary |-> temporary, size |-> builder.size]

RebuildBatch ==
    /\ builder.pc = "build"
    /\ builder.todo # {}
    /\ \E S \in SUBSET builder.todo :
       /\ Cardinality(S) = Batch
             \/ (S = builder.todo /\ Cardinality(S) < Batch)
       /\ Building(builder.todo \ S, builder.temporary \cup S)
    /\ UNCHANGED <<now, faults, follow, followed, posted, deleted, live,
                   publisher, due, missed>>

\* Mutant: the script does not count what it is about to publish.
BuildCompleteUnchecked == TRUE

BuildComplete == Cardinality(builder.temporary) = builder.size

\* The replace script: the complete temporary index takes the place of the
\* live one, or the command fails and leaves it alone.
RebuildSwap ==
    LET r == builder.reader IN
    /\ builder.pc = "build"
    /\ builder.todo = {}
    /\ \/ /\ BuildComplete
          /\ live' = [live EXCEPT ![r] = builder.temporary]
          /\ missed' = {m \in missed : m[1] # r}
       \/ ~BuildComplete /\ UNCHANGED <<live, missed>>
    /\ builder' = NoBuild
    /\ UNCHANGED <<now, faults, follow, followed, posted, deleted, publisher,
                   due>>

\* A call of the rebuild fails or the command is interrupted.
RebuildFails ==
    /\ Paused
    /\ Fault
    /\ builder' = NoBuild
    /\ UNCHANGED <<now, follow, followed, posted, deleted, live, publisher,
                   due, missed>>

-----------------------------------------------------------------------------
(* Environment *)

\* The temporary key expires or is lost.
LoseTemporary ==
    /\ Paused
    /\ builder.temporary # {}
    /\ Fault
    /\ Building(builder.todo, {})
    /\ UNCHANGED <<now, follow, followed, posted, deleted, live, publisher,
                   due, missed>>

\* Redis loses an index.
LoseLive(r) ==
    /\ live[r] # {}
    /\ Fault
    /\ live' = [live EXCEPT ![r] = {}]
    /\ missed' = missed \cup {d \in due : d[1] = r}
    /\ UNCHANGED <<now, follow, followed, posted, deleted, publisher, builder,
                   due>>

Tick ==
    /\ now < MaxTime
    /\ now' = now + 1
    /\ UNCHANGED <<faults, follow, followed, posted, deleted, live,
                   publisher, builder, due, missed>>

-----------------------------------------------------------------------------
PublishStep(a) ==
    Store(a) \/ QueryFollowers(a) \/ PushBatch(a) \/ PushDone(a)
    \/ PublishFails(a)

RebuildStep ==
    \/ \E r \in Readers : RebuildQuery(r)
    \/ RebuildBatch
    \/ RebuildSwap
    \/ RebuildFails

Next ==
    \/ \E r \in Readers, a \in Authors : Follow(r, a) \/ Unfollow(r, a)
    \/ \E a \in Authors : PublishStep(a)
    \/ \E b \in Rows : DeleteBlog(b)
    \/ RebuildStep
    \/ LoseTemporary
    \/ \E r \in Readers : LoseLive(r)
    \/ Tick

Spec == Init /\ [][Next]_indexVars

-----------------------------------------------------------------------------
(* Properties *)

TypeOK ==
    /\ now \in Nat /\ faults \in Nat /\ followed \in Nat
    /\ follow \in [Readers -> [Authors -> Nat]]
    /\ posted \subseteq Blog
    /\ deleted \subseteq Nat
    /\ live \in [Readers -> SUBSET FeedEntry]
    /\ publisher \in [Authors -> [pc : {"idle", "stored", "push"},
                                  blog : Blog \cup {NoBlog},
                                  todo : SUBSET Readers]]
    /\ builder \in [pc : {"idle", "build"}, reader : Readers \cup {NoOne},
                    todo : SUBSET FeedEntry, temporary : SUBSET FeedEntry,
                    size : Nat]
    /\ due \subseteq Readers \X Blog
    /\ missed \subseteq Readers \X Blog

\* A blog reaches the index of everyone who followed its author when it was
\* stored and ever since, as soon as its publication ended, unless the
\* publication failed and no rebuild came after it.  This holds at every
\* moment, in particular while a rebuild replaces the index.
LiveIsComplete ==
    \A r \in Readers, b \in Rows :
       (/\ <<r, b>> \in due
        /\ <<r, b>> \notin missed
        /\ publisher[b.author].blog # b) => EntryOf(b) \in live[r]

\* What a rebuild repairs: one that ends well leaves every blog MySQL still
\* has for the reader and none that was never meant for them, whatever failed
\* or was lost before and although blogs may be deleted meanwhile.
RebuildRepairs ==
    [][ \A r \in Readers :
          (RebuildSwap /\ builder.reader = r /\ BuildComplete) =>
             /\ {EntryOf(b) : b \in {c \in Rows : Visible(r, c)}}
                   \subseteq live'[r]
             /\ live'[r] \subseteq
                   {EntryOf(b) : b \in {c \in posted : Visible(r, c)}}
      ]_indexVars
=============================================================================
