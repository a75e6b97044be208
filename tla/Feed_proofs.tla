---------------------------- MODULE Feed_proofs ------------------------------
(***************************************************************************)
(* The guarantees of the push feed for any number of readers, authors,     *)
(* blogs, batches and faults: who is missing from an index, what a rebuild *)
(* repairs (FeedIndex), and what the pages of one reader add up to         *)
(* (FeedPage).                                                             *)
(***************************************************************************)
EXTENDS FeedPage, Functions, FiniteSetTheorems, TLAPS

\* What an index may hold for r, and what a rebuild of it reads now.
Meant(r) == {EntryOf(b) : b \in {c \in posted : Visible(r, c)}}
Source(r) == {EntryOf(b) : b \in {c \in Rows : Visible(r, c)}}

\* IDs number the blogs.
BlogInv ==
    /\ IsFiniteSet(posted)
    /\ \A b \in posted : b.id <= Cardinality(posted)
    /\ \A b, c \in posted : b.id = c.id => b = c

\* A publication in progress is that of a stored blog of its author.
PublisherInv ==
    \A a \in Authors :
       \/ publisher[a] = Quiet
       \/ /\ publisher[a].pc \in {"stored", "push"}
          /\ publisher[a].blog \in posted
          /\ publisher[a].blog.author = a

\* Whoever is owed a blog still follows its author, from before it.
DueInv == \A d \in due : d[2] \in posted /\ Visible(d[1], d[2])

\* Indexes hold entries of stored blogs, so that an ID has one position.
EntriesInv ==
    \A r \in Readers : \A e \in live[r] : \E b \in posted : e = EntryOf(b)

\* A publication that asked for the followers still has to push to everybody
\* who is owed the blog and does not have it.
Pushed(a) ==
    \A r \in Readers :
       LET b == publisher[a].blog IN
       (<<r, b>> \in due /\ <<r, b>> \notin missed) =>
          r \in publisher[a].todo \/ EntryOf(b) \in live[r]

PushInv == \A a \in Authors : publisher[a].pc = "push" => Pushed(a)

\* A rebuild still has all it read: what it read then is as much as it
\* counted, holds what it would read now, and was meant for its reader.
BuildOf(Q) ==
    /\ IsFiniteSet(Q) /\ Cardinality(Q) = builder.size
    /\ builder.todo \cup builder.temporary \subseteq Q
    /\ Source(builder.reader) \subseteq Q
    /\ Q \subseteq Meant(builder.reader)

BuildInv ==
    Paused => /\ AllQuiet
              /\ builder.reader \in Readers
              /\ \E Q \in SUBSET FeedEntry : BuildOf(Q)

FeedInv ==
    /\ TypeOK
    /\ BlogInv
    /\ PublisherInv
    /\ DueInv
    /\ EntriesInv
    /\ PushInv
    /\ BuildInv
    /\ LiveIsComplete

-----------------------------------------------------------------------------
LEMMA InitFeed == Init => FeedInv
<1> SUFFICES ASSUME Init PROVE FeedInv
  OBVIOUS
<1>1. publisher \in [Authors -> [pc : {"idle", "stored", "push"},
                                 blog : Blog \cup {NoBlog},
                                 todo : SUBSET Readers]]
  BY DEF Init, Quiet
<1>2. builder \in [pc : {"idle", "build"}, reader : Readers \cup {NoOne},
                   todo : SUBSET FeedEntry, temporary : SUBSET FeedEntry,
                   size : Nat]
  BY DEF Init, NoBuild
<1>3. TypeOK
  BY <1>1, <1>2 DEF Init, TypeOK
<1>4. BlogInv /\ DueInv /\ EntriesInv /\ PublisherInv /\ LiveIsComplete
  BY FS_EmptySet
  DEF Init, BlogInv, DueInv, EntriesInv, PublisherInv, LiveIsComplete
<1>5. PushInv /\ BuildInv
  BY DEF Init, PushInv, BuildInv, Quiet, Paused, NoBuild
<1> QED BY <1>3, <1>4, <1>5 DEF FeedInv

LEMMA EntryType ==
  /\ \A b \in Blog : EntryOf(b) \in FeedEntry
  /\ \A r : TypeOK => Meant(r) \subseteq FeedEntry /\ Source(r) \subseteq Meant(r)
<1>1. \A b \in Blog : EntryOf(b) \in FeedEntry
  BY DEF Blog, EntryOf, FeedEntry
<1> QED BY <1>1 DEF Meant, Source, Rows, TypeOK

\* What a rebuild reads is finite.
LEMMA SourceFinite ==
  ASSUME BlogInv, NEW r
  PROVE  IsFiniteSet(Source(r)) /\ Cardinality(Source(r)) \in Nat
<1> DEFINE V == {c \in Rows : Visible(r, c)}
           f == [b \in V |-> EntryOf(b)]
<1>1. IsFiniteSet(V)
  BY FS_Subset DEF BlogInv, Rows
<1>2. f \in Surjection(V, Source(r))
  BY DEF Source, Surjection
<1> QED BY <1>1, <1>2, FS_Surjection, FS_CardinalityType

\* An author who publishes has nothing else under way.
LEMMA Publishing ==
  ASSUME PublisherInv, NEW a \in Authors, publisher[a].pc # "idle"
  PROVE  /\ publisher[a].blog \in posted /\ publisher[a].blog.author = a
         /\ publisher[a] # Quiet /\ ~AllQuiet
  BY DEF PublisherInv, Quiet, AllQuiet

\* ZADD NX adds this one entry, and leaves it in place if it was there.
LEMMA PushAdds ==
  ASSUME TypeOK, BlogInv, EntriesInv, NEW b \in posted, NEW S, PushTo(S, b)
  PROVE  /\ live' \in [Readers -> SUBSET FeedEntry]
         /\ \A r \in Readers :
               /\ live[r] \subseteq live'[r]
               /\ live'[r] \subseteq live[r] \cup {EntryOf(b)}
               /\ r \in S => EntryOf(b) \in live'[r]
<1>1. ASSUME NEW r \in Readers
      PROVE  /\ live[r] \subseteq AddTo(live[r], EntryOf(b))
             /\ AddTo(live[r], EntryOf(b)) \subseteq live[r] \cup {EntryOf(b)}
             /\ EntryOf(b) \in AddTo(live[r], EntryOf(b))
  <2>1. CASE \E e \in live[r] : e.id = EntryOf(b).id
    <3>1. PICK e \in live[r] : e.id = EntryOf(b).id
      BY <2>1
    <3>2. PICK c \in posted : e = EntryOf(c)
      BY DEF EntriesInv
    <3>3. c = b
      BY <3>1, <3>2 DEF EntryOf, BlogInv
    <3> QED BY <2>1, <3>2, <3>3 DEF AddTo
  <2>2. CASE ~\E e \in live[r] : e.id = EntryOf(b).id
    BY <2>2 DEF AddTo
  <2> QED BY <2>1, <2>2
<1>2. EntryOf(b) \in FeedEntry
  BY EntryType DEF TypeOK
<1>3. \A r \in Readers : AddTo(live[r], EntryOf(b)) \in SUBSET FeedEntry
  BY <1>1, <1>2 DEF TypeOK
<1> QED BY <1>1, <1>3 DEF PushTo, TypeOK

\* The blog an author stores is a new one, owed to those who follow by then.
LEMMA Stored ==
  ASSUME TypeOK, BlogInv, NEW a \in Authors, Store(a)
  PROVE  \E b \in Blog :
            /\ b.author = a /\ b.id = Cardinality(posted) + 1
            /\ b \notin posted /\ \A c \in posted : c.id # b.id
            /\ posted' = posted \cup {b}
            /\ publisher' = [publisher EXCEPT ![a] =
                               [pc |-> "stored", blog |-> b, todo |-> {}]]
            /\ due' = due \cup
                 {<<r, b>> : r \in {q \in Readers : Visible(q, b)}}
<1>1. PICK t \in Stamps :
        LET b == [id |-> Cardinality(posted) + 1, author |-> a, at |-> t] IN
        /\ posted' = posted \cup {b}
        /\ publisher' = [publisher EXCEPT ![a] =
                           [pc |-> "stored", blog |-> b, todo |-> {}]]
        /\ due' = due \cup {<<r, b>> : r \in {q \in Readers :
                              follow[q][a] # 0 /\ follow[q][a] <= t}}
  BY DEF Store
<1> DEFINE b == [id |-> Cardinality(posted) + 1, author |-> a, at |-> t]
<1>2. Cardinality(posted) \in Nat
  BY FS_CardinalityType DEF BlogInv
<1>3. b \in Blog
  BY <1>2 DEF Blog, Stamps
<1>4. \A c \in posted : c.id # b.id
  BY <1>2 DEF BlogInv, TypeOK, Blog
<1>5. \A q : Visible(q, b) <=> follow[q][a] # 0 /\ follow[q][a] <= t
  BY DEF Visible
<1>6. b.author = a /\ b.id = Cardinality(posted) + 1
  OBVIOUS
<1>7. /\ posted' = posted \cup {b}
      /\ publisher' = [publisher EXCEPT ![a] =
                         [pc |-> "stored", blog |-> b, todo |-> {}]]
      /\ due' = due \cup {<<r, b>> : r \in {q \in Readers :
                            follow[q][a] # 0 /\ follow[q][a] <= t}}
  BY <1>1
<1> HIDE DEF b
<1> QED BY <1>3, <1>4, <1>5, <1>6, <1>7

LEMMA PublisherType ==
  ASSUME TypeOK, BlogInv, PublisherInv, EntriesInv,
         NEW a \in Authors, PublishStep(a)
  PROVE  TypeOK' /\ PublisherInv'
<1> USE DEF TypeOK
<1>1. Quiet \in [pc : {"idle", "stored", "push"}, blog : Blog \cup {NoBlog},
                 todo : SUBSET Readers]
  BY DEF Quiet
<1>2. CASE Store(a)
  <2>1. PICK b \in Blog :
          /\ b.author = a
          /\ posted' = posted \cup {b}
          /\ publisher' = [publisher EXCEPT ![a] =
                             [pc |-> "stored", blog |-> b, todo |-> {}]]
          /\ due' = due \cup {<<r, b>> : r \in {q \in Readers : Visible(q, b)}}
    BY <1>2, Stored
  <2>2. TypeOK'
    BY <1>2, <2>1 DEF Store
  <2>3. PublisherInv'
    BY <2>1 DEF PublisherInv
  <2> QED BY <2>2, <2>3
<1>3. CASE QueryFollowers(a)
  <2>1. Followers(publisher[a].blog) \in SUBSET Readers
    BY DEF Followers
  <2>2. publisher[a].blog \in posted /\ publisher[a].blog.author = a
    BY <1>3, Publishing DEF QueryFollowers
  <2>3. TypeOK'
    BY <1>3, <2>1, <2>2 DEF QueryFollowers, Pushing
  <2>4. PublisherInv'
    BY <1>3, <2>2 DEF QueryFollowers, Pushing, PublisherInv
  <2> QED BY <2>3, <2>4
<1>4. CASE PushBatch(a)
  <2>1. publisher[a].blog \in posted /\ publisher[a].blog.author = a
    BY <1>4, Publishing DEF PushBatch
  <2>2. PICK S \in SUBSET publisher[a].todo :
          /\ PushTo(S, publisher[a].blog)
          /\ publisher' = [publisher EXCEPT ![a] =
               Pushing(publisher[a].blog, RemainingAfter(publisher[a].todo, S))]
    BY <1>4 DEF PushBatch
  <2>3. RemainingAfter(publisher[a].todo, S) \in SUBSET Readers
    BY DEF RemainingAfter
  <2>4. TypeOK'
    BY <1>4, <2>1, <2>2, <2>3, PushAdds DEF PushBatch, Pushing
  <2>5. PublisherInv'
    BY <1>4, <2>1, <2>2 DEF PushBatch, Pushing, PublisherInv
  <2> QED BY <2>4, <2>5
<1>5. CASE PushDone(a)
  <2>1. TypeOK'
    BY <1>1, <1>5 DEF PushDone
  <2>2. PublisherInv'
    BY <1>5 DEF PushDone, PublisherInv
  <2> QED BY <2>1, <2>2
<1>6. CASE PublishFails(a)
  <2>1. publisher[a].blog \in posted
    BY <1>6, Publishing DEF PublishFails
  <2>2. PICK S \in SUBSET publisher[a].todo : PushTo(S, publisher[a].blog)
    BY <1>6 DEF PublishFails
  <2>3. faults' \in Nat /\ missed' \in SUBSET (Readers \X Blog)
    BY <1>6 DEF PublishFails, Fault
  <2>4. publisher' = [publisher EXCEPT ![a] = Quiet]
        /\ UNCHANGED <<now, follow, followed, posted, deleted, builder, due>>
    BY <1>6 DEF PublishFails
  <2>5. TypeOK'
    BY <1>1, <2>1, <2>2, <2>3, <2>4, PushAdds
  <2>6. PublisherInv'
    BY <2>4 DEF PublisherInv
  <2> QED BY <2>5, <2>6
<1> QED BY <1>2, <1>3, <1>4, <1>5, <1>6 DEF PublishStep

LEMMA RebuildType ==
  ASSUME TypeOK, BlogInv, RebuildStep \/ LoseTemporary
  PROVE  TypeOK'
<1> USE DEF TypeOK
<1>1. NoBuild \in [pc : {"idle", "build"}, reader : Readers \cup {NoOne},
                   todo : SUBSET FeedEntry, temporary : SUBSET FeedEntry,
                   size : Nat]
  BY DEF NoBuild
<1>2. ASSUME NEW r \in Readers, RebuildQuery(r)
      PROVE  TypeOK'
  <2>1. Source(r) \in SUBSET FeedEntry /\ Cardinality(Source(r)) \in Nat
    BY EntryType, SourceFinite
  <2>2. builder' = [pc |-> "build", reader |-> r, todo |-> Source(r),
                    temporary |-> {}, size |-> Cardinality(Source(r))]
    BY <1>2 DEF RebuildQuery, Source
  <2> QED BY <1>2, <2>1, <2>2 DEF RebuildQuery
<1>3. CASE RebuildBatch
  <2>1. PICK S \in SUBSET builder.todo :
          Building(builder.todo \ S, builder.temporary \cup S)
    BY <1>3 DEF RebuildBatch
  <2> QED BY <1>3, <2>1 DEF RebuildBatch, Building
<1>4. CASE RebuildSwap
  <2>1. live' \in [Readers -> SUBSET FeedEntry] /\ missed' \subseteq missed
    BY <1>4 DEF RebuildSwap
  <2> QED BY <1>1, <1>4, <2>1 DEF RebuildSwap
<1>5. CASE RebuildFails
  BY <1>1, <1>5 DEF RebuildFails, Fault
<1>6. CASE LoseTemporary
  BY <1>6 DEF LoseTemporary, Fault, Building, Paused
<1> QED BY <1>2, <1>3, <1>4, <1>5, <1>6 DEF RebuildStep

LEMMA TypeStep ==
  ASSUME TypeOK, BlogInv, PublisherInv, EntriesInv, [Next]_indexVars
  PROVE  TypeOK' /\ PublisherInv'
<1>1. UNCHANGED <<publisher, posted>> => PublisherInv'
  BY DEF PublisherInv
<1>2. ASSUME NEW r \in Readers, NEW a \in Authors, Follow(r, a) \/ Unfollow(r, a)
      PROVE  TypeOK' /\ PublisherInv'
  <2>1. \A t \in Stamps \cup {0} :
           [follow EXCEPT ![r][a] = t] \in [Readers -> [Authors -> Nat]]
    BY DEF TypeOK, Stamps
  <2>2. follow' \in [Readers -> [Authors -> Nat]]
    BY <1>2, <2>1 DEF Follow, Unfollow
  <2>3. followed' \in Nat /\ due' \subseteq due
    BY <1>2 DEF Follow, Unfollow, TypeOK
  <2>4. TypeOK'
    BY <1>2, <2>2, <2>3 DEF Follow, Unfollow, TypeOK
  <2> QED BY <1>1, <1>2, <2>4 DEF Follow, Unfollow
<1>3. ASSUME NEW b \in Rows, DeleteBlog(b)
      PROVE  TypeOK' /\ PublisherInv'
  <2>1. deleted' \subseteq Nat
    BY <1>3 DEF DeleteBlog, Rows, TypeOK, Blog
  <2>2. TypeOK'
    BY <1>3, <2>1 DEF DeleteBlog, TypeOK
  <2> QED BY <1>1, <1>3, <2>2 DEF DeleteBlog
<1>4. ASSUME NEW r \in Readers, LoseLive(r)
      PROVE  TypeOK' /\ PublisherInv'
  <2>1. TypeOK'
    BY <1>4 DEF LoseLive, Fault, TypeOK
  <2> QED BY <1>1, <1>4, <2>1 DEF LoseLive
<1>5. CASE RebuildStep \/ LoseTemporary
  <2>1. UNCHANGED <<publisher, posted>>
    BY <1>5 DEF RebuildStep, RebuildQuery, RebuildBatch, RebuildSwap,
                RebuildFails, LoseTemporary
  <2> QED BY <1>1, <1>5, <2>1, RebuildType
<1>6. CASE Tick
  <2>1. TypeOK'
    BY <1>6 DEF Tick, TypeOK
  <2> QED BY <1>1, <1>6, <2>1 DEF Tick
<1>7. CASE UNCHANGED indexVars
  <2>1. TypeOK'
    BY <1>7 DEF indexVars, TypeOK
  <2> QED BY <1>1, <1>7, <2>1 DEF indexVars
<1> QED BY <1>2, <1>3, <1>4, <1>5, <1>6, <1>7, PublisherType DEF Next

\* Only Store changes the table of blogs.
LEMMA PostedGrows ==
  ASSUME [Next]_indexVars
  PROVE  posted' = posted \/ \E a \in Authors : Store(a)
  BY DEF Next, PublishStep, QueryFollowers, PushBatch, PushDone, PublishFails,
         Follow, Unfollow, DeleteBlog, RebuildStep, RebuildQuery, RebuildBatch,
         RebuildSwap, RebuildFails, LoseTemporary, LoseLive, Tick, indexVars

LEMMA BlogStep ==
  ASSUME TypeOK, BlogInv, [Next]_indexVars
  PROVE  BlogInv' /\ posted \subseteq posted'
<1>1. CASE posted' = posted
  BY <1>1 DEF BlogInv
<1>2. ASSUME NEW a \in Authors, Store(a)
      PROVE  BlogInv' /\ posted \subseteq posted'
  <2>1. PICK b \in Blog :
          /\ b \notin posted /\ posted' = posted \cup {b}
          /\ b.id = Cardinality(posted) + 1
          /\ \A c \in posted : c.id # b.id
    BY <1>2, Stored
  <2>2. /\ IsFiniteSet(posted') /\ Cardinality(posted') = Cardinality(posted) + 1
        /\ Cardinality(posted) \in Nat
    BY <2>1, FS_AddElement, FS_CardinalityType DEF BlogInv
  <2>3. \A c \in posted' : c.id <= Cardinality(posted')
    BY <2>1, <2>2 DEF BlogInv, TypeOK, Blog
  <2>4. \A c, d \in posted' : c.id = d.id => c = d
    BY <2>1 DEF BlogInv
  <2> QED BY <2>1, <2>2, <2>3, <2>4 DEF BlogInv
<1> QED BY <1>1, <1>2, PostedGrows

\* What is owed is owed to followers: who stops following is owed nothing,
\* and who follows already keeps the time of it.
LEMMA DueStep ==
  ASSUME TypeOK, BlogInv, DueInv, [Next]_indexVars
  PROVE  DueInv'
<1>1. CASE UNCHANGED follow /\ due' \subseteq due
  BY <1>1, BlogStep DEF DueInv, Visible
<1>2. ASSUME NEW a \in Authors, Store(a)
      PROVE  DueInv'
  <2>1. PICK b \in Blog :
          /\ posted' = posted \cup {b}
          /\ due' = due \cup {<<r, b>> : r \in {q \in Readers : Visible(q, b)}}
    BY <1>2, Stored
  <2>2. follow' = follow
    BY <1>2 DEF Store
  <2> QED BY <2>1, <2>2 DEF DueInv, Visible
<1>3. ASSUME NEW r \in Readers, NEW a \in Authors, Follow(r, a)
      PROVE  DueInv'
  <2>1. /\ follow[r][a] = 0 /\ UNCHANGED <<due, posted>>
        /\ \A q \in Readers, c \in Authors :
              q # r \/ c # a => follow'[q][c] = follow[q][c]
    BY <1>3 DEF Follow, TypeOK
  <2> QED BY <2>1 DEF DueInv, Visible, TypeOK, Blog
<1>4. ASSUME NEW r \in Readers, NEW a \in Authors, Unfollow(r, a)
      PROVE  DueInv'
  <2>1. /\ UNCHANGED posted
        /\ due' = {d \in due : d[1] # r \/ d[2].author # a}
        /\ \A q \in Readers, c \in Authors :
              q # r \/ c # a => follow'[q][c] = follow[q][c]
    BY <1>4 DEF Unfollow, TypeOK
  <2> QED BY <2>1 DEF DueInv, Visible, TypeOK, Blog
<1>5. ASSUME NEW a \in Authors, PublishStep(a), ~Store(a)
      PROVE  UNCHANGED <<follow, due>>
  BY <1>5 DEF PublishStep, QueryFollowers, PushBatch, PushDone, PublishFails
<1>6. ASSUME RebuildStep \/ LoseTemporary \/ Tick
             \/ (\E r \in Readers : LoseLive(r)) \/ (\E b \in Rows : DeleteBlog(b))
      PROVE  UNCHANGED <<follow, due>>
  BY <1>6 DEF RebuildStep, RebuildQuery, RebuildBatch, RebuildSwap,
              RebuildFails, LoseTemporary, Tick, LoseLive, DeleteBlog
<1> QED BY <1>1, <1>2, <1>3, <1>4, <1>5, <1>6 DEF Next, indexVars

\* What an action may do to the indexes.
LEMMA LiveMoves ==
  ASSUME TypeOK, BlogInv, PublisherInv, EntriesInv, [Next]_indexVars
  PROVE  \/ UNCHANGED live
         \/ \E a \in Authors : (PushBatch(a) \/ PublishFails(a))
               /\ \E S \in SUBSET publisher[a].todo :
                     PushTo(S, publisher[a].blog)
         \/ RebuildSwap /\ BuildComplete
         \/ \E r \in Readers : LoseLive(r)
  BY DEF Next, PublishStep, Store, QueryFollowers, PushBatch, PushDone,
         PublishFails, Follow, Unfollow, DeleteBlog, RebuildStep, RebuildQuery,
         RebuildBatch, RebuildSwap, RebuildFails, LoseTemporary, Tick, indexVars

LEMMA EntriesStep ==
  ASSUME FeedInv, [Next]_indexVars
  PROVE  EntriesInv'
<1> USE DEF FeedInv
<1>1. posted \subseteq posted'
  BY BlogStep
<1>2. CASE UNCHANGED live
  BY <1>1, <1>2 DEF EntriesInv
<1>3. ASSUME NEW a \in Authors, PushBatch(a) \/ PublishFails(a),
             NEW S \in SUBSET publisher[a].todo, PushTo(S, publisher[a].blog)
      PROVE  EntriesInv'
  <2>1. publisher[a].blog \in posted
    BY <1>3, Publishing DEF PushBatch, PublishFails
  <2>2. \A r \in Readers :
           live'[r] \subseteq live[r] \cup {EntryOf(publisher[a].blog)}
    BY <1>3, <2>1, PushAdds
  <2> QED BY <1>1, <2>1, <2>2 DEF EntriesInv
<1>4. CASE RebuildSwap /\ BuildComplete
  <2>1. Paused
    BY <1>4 DEF RebuildSwap, Paused
  <2>2. \A e \in builder.temporary : \E b \in posted : e = EntryOf(b)
    BY <2>1 DEF BuildInv, BuildOf, Meant
  <2>3. \A r \in Readers : live'[r] = live[r] \/ live'[r] = builder.temporary
    BY <1>4 DEF RebuildSwap, TypeOK
  <2> QED BY <1>1, <2>2, <2>3 DEF EntriesInv
<1>5. ASSUME NEW r \in Readers, LoseLive(r)
      PROVE  EntriesInv'
  <2>1. \A q \in Readers : live'[q] = live[q] \/ live'[q] = {}
    BY <1>5 DEF LoseLive, TypeOK
  <2> QED BY <1>1, <2>1 DEF EntriesInv
<1> QED BY <1>2, <1>3, <1>4, <1>5, LiveMoves

-----------------------------------------------------------------------------
(* The rebuild *)

\* While a rebuild runs nobody publishes, follows or unfollows; blogs may be
\* deleted, so that less is visible than was read.
LEMMA PausedFrame ==
  ASSUME TypeOK, [Next]_indexVars, Paused, AllQuiet
  PROVE  /\ UNCHANGED <<follow, posted, publisher, due>>
         /\ deleted \subseteq deleted'
<1>1. ASSUME NEW a \in Authors, PublishStep(a)
      PROVE  FALSE
  BY <1>1 DEF AllQuiet, PublishStep, Store, QueryFollowers, PushBatch, PushDone,
              PublishFails
<1>2. ASSUME NEW r \in Readers, NEW a \in Authors, Follow(r, a) \/ Unfollow(r, a)
      PROVE  FALSE
  BY <1>2 DEF Follow, Unfollow
<1>3. CASE RebuildStep \/ LoseTemporary
  BY <1>3 DEF RebuildStep, RebuildQuery, RebuildBatch, RebuildSwap,
              RebuildFails, LoseTemporary
<1>4. ASSUME NEW b \in Rows, DeleteBlog(b)
      PROVE  UNCHANGED <<follow, posted, publisher, due>>
             /\ deleted \subseteq deleted'
  BY <1>4 DEF DeleteBlog
<1>5. CASE Tick \/ (\E r \in Readers : LoseLive(r)) \/ UNCHANGED indexVars
  BY <1>5 DEF Tick, LoseLive, indexVars
<1> QED BY <1>1, <1>2, <1>3, <1>4, <1>5 DEF Next

LEMMA SourceShrinks ==
  ASSUME UNCHANGED <<follow, posted>>, deleted \subseteq deleted', NEW r
  PROVE  Source(r)' \subseteq Source(r) /\ Meant(r)' = Meant(r)
<1>1. \A b : Visible(r, b)' <=> Visible(r, b)
  BY DEF Visible
<1>2. Rows' \subseteq Rows
  BY DEF Rows
<1> QED BY <1>1, <1>2 DEF Source, Meant

LEMMA BuilderMoves ==
  ASSUME [Next]_indexVars
  PROVE  \/ UNCHANGED builder
         \/ builder' = NoBuild
         \/ \E r \in Readers : RebuildQuery(r)
         \/ Paused /\ \E S \in SUBSET builder.todo :
               Building(builder.todo \ S, builder.temporary \cup S)
         \/ Paused /\ Building(builder.todo, {})
  BY DEF Next, PublishStep, Store, QueryFollowers, PushBatch, PushDone,
         PublishFails, Follow, Unfollow, DeleteBlog, RebuildStep,
         RebuildBatch, RebuildSwap, RebuildFails, LoseTemporary, LoseLive,
         Tick, Paused, indexVars

LEMMA BuildStep ==
  ASSUME FeedInv, [Next]_indexVars
  PROVE  BuildInv'
<1> USE DEF FeedInv
<1>1. CASE builder' = NoBuild
  BY <1>1 DEF BuildInv, Paused, NoBuild
<1>2. ASSUME NEW r \in Readers, RebuildQuery(r)
      PROVE  BuildInv'
  <2>1. /\ builder' = [pc |-> "build", reader |-> r, todo |-> Source(r),
                       temporary |-> {}, size |-> Cardinality(Source(r))]
        /\ AllQuiet /\ UNCHANGED <<follow, posted, deleted, publisher>>
    BY <1>2 DEF RebuildQuery, Source
  <2>2. Source(r)' = Source(r) /\ Meant(r)' = Meant(r)
    BY <2>1 DEF Source, Meant, Rows, Visible
  <2>3. /\ builder'.reader = r /\ builder'.size = Cardinality(Source(r))
        /\ builder'.todo = Source(r) /\ builder'.temporary = {}
    BY <2>1
  <2>4. Source(r) \in SUBSET FeedEntry /\ Source(r) \subseteq Meant(r)
        /\ IsFiniteSet(Source(r))
    BY EntryType, SourceFinite
  <2>5. BuildOf(Source(r))'
    BY <2>2, <2>3, <2>4 DEF BuildOf
  <2> QED BY <2>1, <2>2, <2>3, <2>4, <2>5 DEF BuildInv, AllQuiet
<1>3. ASSUME Paused,
             \/ UNCHANGED builder
             \/ \E S \in SUBSET builder.todo :
                   Building(builder.todo \ S, builder.temporary \cup S)
             \/ Building(builder.todo, {})
      PROVE  BuildInv'
  <2>1. PICK Q \in SUBSET FeedEntry : BuildOf(Q)
    BY <1>3 DEF BuildInv
  <2>2. builder.reader \in Readers /\ AllQuiet
    BY <1>3 DEF BuildInv
  <2>3. /\ builder'.reader = builder.reader /\ builder'.size = builder.size
        /\ builder'.todo \cup builder'.temporary
              \subseteq builder.todo \cup builder.temporary
    BY <1>3 DEF Building
  <2>4. AllQuiet'
    BY <1>3, <2>2, PausedFrame DEF AllQuiet
  <2>5. /\ Source(builder.reader)' \subseteq Source(builder.reader)
        /\ Meant(builder.reader)' = Meant(builder.reader)
    BY <1>3, <2>2, <2>3, PausedFrame, SourceShrinks DEF Source, Meant
  <2>6. BuildOf(Q)'
    BY <2>1, <2>3, <2>5 DEF BuildOf
  <2> QED BY <2>2, <2>3, <2>4, <2>6 DEF BuildInv
<1>4. CASE UNCHANGED builder /\ ~Paused
  BY <1>4 DEF BuildInv, Paused
<1> QED BY <1>1, <1>2, <1>3, <1>4, BuilderMoves

\* A complete index is all that was read, hence all that is there to read.
LEMMA CompleteIsAll ==
  ASSUME FeedInv, Paused, BuildComplete
  PROVE  /\ builder.reader \in Readers
         /\ Source(builder.reader) \subseteq builder.temporary
         /\ builder.temporary \subseteq Meant(builder.reader)
<1>1. PICK Q \in SUBSET FeedEntry : BuildOf(Q)
  BY DEF FeedInv, BuildInv
<1>2. builder.temporary = Q
  BY <1>1, FS_Subset DEF BuildOf, BuildComplete
<1> QED BY <1>1, <1>2 DEF BuildOf, FeedInv, BuildInv

-----------------------------------------------------------------------------
(* Who is owed a blog and does not have it *)

\* r is still owed b, and keeps what it has.
Keeps(r, b) ==
    (<<r, b>> \in due' /\ <<r, b>> \notin missed') =>
       /\ <<r, b>> \in due /\ <<r, b>> \notin missed
       /\ live[r] \subseteq live'[r]

\* No action but the rebuild takes an entry from a reader it is owed to.
LEMMA OwedKeep ==
  ASSUME FeedInv, [Next]_indexVars, ~(RebuildSwap /\ BuildComplete),
         NEW r \in Readers, NEW b \in posted
  PROVE  Keeps(r, b)
<1> USE DEF FeedInv
<1>1. CASE /\ <<r, b>> \in due' => <<r, b>> \in due
           /\ missed \subseteq missed' /\ live[r] \subseteq live'[r]
  BY <1>1 DEF Keeps
<1>2. ASSUME NEW a \in Authors, Store(a)
      PROVE  Keeps(r, b)
  <2>1. PICK n \in Blog :
          /\ n \notin posted
          /\ due' = due \cup {<<q, n>> : q \in {x \in Readers : Visible(x, n)}}
    BY <1>2, Stored
  <2> QED BY <1>1, <1>2, <2>1 DEF Store
<1>3. ASSUME NEW a \in Authors, PushBatch(a) \/ PublishFails(a)
      PROVE  Keeps(r, b)
  <2>1. publisher[a].blog \in posted
    BY <1>3, Publishing DEF PushBatch, PublishFails
  <2>2. PICK S : PushTo(S, publisher[a].blog)
    BY <1>3 DEF PushBatch, PublishFails
  <2>3. live[r] \subseteq live'[r]
    BY <2>1, <2>2, PushAdds
  <2>4. missed \subseteq missed' /\ due' = due
    BY <1>3 DEF PushBatch, PublishFails
  <2> QED BY <1>1, <2>3, <2>4
<1>4. ASSUME NEW q \in Readers, LoseLive(q)
      PROVE  Keeps(r, b)
  <2>1. missed' = missed \cup {d \in due : d[1] = q} /\ due' = due
    BY <1>4 DEF LoseLive
  <2>2. q # r => live'[r] = live[r]
    BY <1>4 DEF LoseLive, TypeOK
  <2> QED BY <2>1, <2>2 DEF Keeps
<1>5. ASSUME NEW a \in Authors, QueryFollowers(a) \/ PushDone(a)
      PROVE  Keeps(r, b)
  BY <1>1, <1>5 DEF QueryFollowers, PushDone
<1>6. ASSUME NEW q \in Readers, NEW a \in Authors, Follow(q, a) \/ Unfollow(q, a)
      PROVE  Keeps(r, b)
  BY <1>1, <1>6 DEF Follow, Unfollow
<1>7. CASE RebuildStep \/ LoseTemporary
  BY <1>1, <1>7 DEF RebuildStep, RebuildQuery, RebuildBatch, RebuildSwap,
                    RebuildFails, LoseTemporary
<1>8. CASE Tick \/ (\E c \in Rows : DeleteBlog(c)) \/ UNCHANGED indexVars
  BY <1>1, <1>8 DEF Tick, DeleteBlog, indexVars
<1> QED BY <1>2, <1>3, <1>4, <1>5, <1>6, <1>7, <1>8 DEF Next, PublishStep

\* A push that goes on gets on with its own batches only.
LEMMA PushStep ==
  ASSUME FeedInv, [Next]_indexVars
  PROVE  PushInv'
<1> USE DEF FeedInv
<1> SUFFICES ASSUME NEW a \in Authors, publisher'[a].pc = "push"
             PROVE  Pushed(a)'
  BY DEF PushInv
<1>1. CASE QueryFollowers(a)
  <2>1. /\ publisher'[a].blog = publisher[a].blog
        /\ publisher'[a].todo = Followers(publisher[a].blog)
        /\ due' = due
    BY <1>1 DEF QueryFollowers, Pushing, TypeOK
  <2>2. \A r \in Readers : <<r, publisher[a].blog>> \in due =>
           r \in Followers(publisher[a].blog)
    BY DEF DueInv, Visible, Followers
  <2> QED BY <2>1, <2>2 DEF Pushed
<1>2. CASE PushBatch(a)
  <2>1. PICK S \in SUBSET publisher[a].todo :
          /\ PushTo(S, publisher[a].blog)
          /\ publisher' = [publisher EXCEPT ![a] =
               Pushing(publisher[a].blog, RemainingAfter(publisher[a].todo, S))]
    BY <1>2 DEF PushBatch
  <2>2. publisher[a].pc = "push" /\ publisher[a].blog \in posted
        /\ UNCHANGED <<due, missed>>
    BY <1>2, Publishing DEF PushBatch
  <2>3. /\ publisher'[a].blog = publisher[a].blog
        /\ publisher'[a].todo = publisher[a].todo \ S
    BY <2>1 DEF Pushing, RemainingAfter, TypeOK
  <2>4. \A r \in Readers :
           /\ live[r] \subseteq live'[r]
           /\ r \in S => EntryOf(publisher[a].blog) \in live'[r]
    BY <2>1, <2>2, PushAdds
  <2> QED BY <2>2, <2>3, <2>4 DEF Pushed, PushInv
<1>3. CASE publisher'[a] = publisher[a]
  <2>1. publisher[a].blog \in posted /\ ~AllQuiet
    BY <1>3, Publishing
  <2>2. ~RebuildSwap
    BY <2>1 DEF RebuildSwap, BuildInv, Paused
  <2>3. \A r \in Readers : Keeps(r, publisher[a].blog)
    BY <2>1, <2>2, OwedKeep
  <2> QED BY <1>3, <2>3 DEF Pushed, PushInv, Keeps
<1>4. ASSUME NEW c \in Authors, PublishStep(c), c # a
      PROVE  publisher'[a] = publisher[a]
  BY <1>4 DEF PublishStep, Store, QueryFollowers, PushBatch, PushDone,
              PublishFails, TypeOK
<1>5. CASE Store(a) \/ PushDone(a) \/ PublishFails(a)
  <2>1. publisher'[a].pc \in {"idle", "stored"}
    BY <1>5 DEF Store, PushDone, PublishFails, Quiet, TypeOK
  <2> QED BY <2>1
<1>6. ASSUME RebuildStep \/ LoseTemporary \/ Tick
             \/ (\E r \in Readers : LoseLive(r)) \/ (\E b \in Rows : DeleteBlog(b))
             \/ (\E r \in Readers, c \in Authors : Follow(r, c) \/ Unfollow(r, c))
             \/ UNCHANGED indexVars
      PROVE  publisher' = publisher
  BY <1>6 DEF RebuildStep, RebuildQuery, RebuildBatch, RebuildSwap,
              RebuildFails, LoseTemporary, Tick, LoseLive, DeleteBlog, Follow,
              Unfollow, indexVars
<1> QED BY <1>1, <1>2, <1>3, <1>4, <1>5, <1>6 DEF Next, PublishStep

\* A publication that ends has reached everybody, or is put on record.
LEMMA PublicationEnds ==
  ASSUME FeedInv, NEW a \in Authors, PushDone(a) \/ PublishFails(a),
         NEW r \in Readers,
         LET b == publisher[a].blog IN
         b \in Rows /\ <<r, b>> \in due' /\ <<r, b>> \notin missed'
  PROVE  EntryOf(publisher[a].blog) \in live'[r]
<1> USE DEF FeedInv
<1>1. CASE PushDone(a)
  BY <1>1 DEF PushDone, PushInv, Pushed
<1>2. CASE PublishFails(a)
  BY <1>2 DEF PublishFails
<1> QED BY <1>1, <1>2

LEMMA LiveStep ==
  ASSUME FeedInv, [Next]_indexVars
  PROVE  LiveIsComplete'
<1> USE DEF FeedInv
<1> SUFFICES ASSUME NEW r \in Readers, NEW b \in Rows',
                    <<r, b>> \in due', <<r, b>> \notin missed',
                    publisher'[b.author].blog # b
             PROVE  EntryOf(b) \in live'[r]
  BY DEF LiveIsComplete
<1>1. b \in posted
  <2>1. CASE posted' = posted
    BY <2>1 DEF Rows
  <2>2. ASSUME NEW a \in Authors, Store(a)
        PROVE  b \in posted
    <3>1. PICK n \in Blog :
            /\ n.author = a /\ posted' = posted \cup {n}
            /\ publisher' = [publisher EXCEPT ![a] =
                               [pc |-> "stored", blog |-> n, todo |-> {}]]
      BY <2>2, Stored
    <3>2. publisher'[n.author].blog = n
      BY <3>1 DEF TypeOK
    <3> QED BY <3>1, <3>2 DEF Rows
  <2> QED BY <2>1, <2>2, PostedGrows
<1>2. b \in Rows /\ b.author \in Authors
  <2>1. deleted \subseteq deleted'
    BY DEF Next, PublishStep, Store, QueryFollowers, PushBatch, PushDone,
           PublishFails, Follow, Unfollow, DeleteBlog, RebuildStep,
           RebuildQuery, RebuildBatch, RebuildSwap, RebuildFails,
           LoseTemporary, LoseLive, Tick, indexVars
  <2> QED BY <1>1, <2>1 DEF Rows, TypeOK, Blog
<1>3. CASE publisher[b.author].blog # b /\ ~(RebuildSwap /\ BuildComplete)
  <2>1. Keeps(r, b)
    BY <1>1, <1>3, OwedKeep
  <2> QED BY <1>2, <1>3, <2>1 DEF Keeps, LiveIsComplete
<1>4. CASE RebuildSwap /\ BuildComplete
  <2>1. Paused
    BY <1>4 DEF RebuildSwap, Paused
  <2>2. UNCHANGED <<publisher, due>>
    BY <1>4 DEF RebuildSwap
  <2>3. CASE r = builder.reader
    <3>1. live'[r] = builder.temporary
      BY <1>4, <2>3 DEF RebuildSwap, TypeOK
    <3>2. Visible(r, b)
      BY <2>2 DEF DueInv
    <3>3. EntryOf(b) \in Source(r)
      BY <1>2, <3>2 DEF Source
    <3> QED BY <1>4, <2>1, <2>3, <3>1, <3>3, CompleteIsAll
  <2>4. CASE r # builder.reader
    <3>1. live'[r] = live[r] /\ <<r, b>> \notin missed
      BY <1>4, <2>4 DEF RebuildSwap, TypeOK
    <3> QED BY <1>2, <2>2, <3>1 DEF LiveIsComplete
  <2> QED BY <2>3, <2>4
<1>5. CASE publisher[b.author].blog = b
  <2> DEFINE a == b.author
  <2>1. b # NoBlog
    BY <1>1 DEF NoBlog, TypeOK, Blog
  <2>2. publisher[a].pc # "idle"
    BY <1>2, <1>5, <2>1 DEF PublisherInv, Quiet
  <2>3. publisher'[a] # publisher[a]
    BY <1>5
  <2>4. \/ Store(a) \/ QueryFollowers(a) \/ PushBatch(a) \/ PushDone(a)
        \/ PublishFails(a)
    <3>1. ASSUME NEW c \in Authors, PublishStep(c), c # a
          PROVE  publisher'[a] = publisher[a]
      BY <3>1, <1>2 DEF PublishStep, Store, QueryFollowers, PushBatch, PushDone,
                  PublishFails, TypeOK
    <3>2. ASSUME RebuildStep \/ LoseTemporary \/ Tick
                 \/ (\E q \in Readers : LoseLive(q))
                 \/ (\E c \in Rows : DeleteBlog(c))
                 \/ (\E q \in Readers, c \in Authors :
                        Follow(q, c) \/ Unfollow(q, c))
                 \/ UNCHANGED indexVars
          PROVE  publisher' = publisher
      BY <3>2 DEF RebuildStep, RebuildQuery, RebuildBatch, RebuildSwap,
                  RebuildFails, LoseTemporary, Tick, LoseLive, DeleteBlog,
                  Follow, Unfollow, indexVars
    <3> QED BY <2>3, <3>1, <3>2 DEF Next, PublishStep
  <2>5. ~Store(a)
    BY <2>2 DEF Store, Quiet
  <2>6. ~QueryFollowers(a) /\ ~PushBatch(a)
    <3>1. \A S : /\ a \in Authors /\ publisher[a].blog = b
                 /\ publisher' = [publisher EXCEPT ![a] = Pushing(b, S)]
                 => publisher'[a].blog = b
      BY DEF Pushing, TypeOK
    <3>2. QueryFollowers(a) \/ PushBatch(a) =>
             \E S : publisher' = [publisher EXCEPT ![a] =
                                     Pushing(publisher[a].blog, S)]
      BY DEF QueryFollowers, PushBatch
    <3> QED BY <1>2, <1>5, <3>1, <3>2
  <2> QED BY <1>2, <1>5, <2>4, <2>5, <2>6, PublicationEnds
<1> QED BY <1>3, <1>4, <1>5

-----------------------------------------------------------------------------
\* The inductive invariant of publishing, following, deleting and rebuilding.
THEOREM FeedInvariant == Spec => []FeedInv
<1>1. ASSUME FeedInv, [Next]_indexVars
      PROVE  FeedInv'
  BY <1>1, TypeStep, BlogStep, DueStep, EntriesStep, PushStep, BuildStep,
     LiveStep
  DEF FeedInv
<1> QED BY <1>1, InitFeed, PTL DEF Spec

\* A follower lacks a blog only while it is being pushed, or if its push
\* failed or Redis lost the index and no rebuild came after it: for any
\* number of readers, authors, batches and interleaved publications.
THEOREM LiveAlwaysComplete == Spec => []LiveIsComplete
<1>1. FeedInv => LiveIsComplete
  BY DEF FeedInv
<1> QED BY <1>1, FeedInvariant, PTL

\* A rebuild that ends well repairs whatever was missing: its reader gets
\* every blog there still is for them and none that was not meant for them,
\* although blogs are deleted and temporary keys lost while it runs.
THEOREM RebuildAlwaysRepairs == Spec => RebuildRepairs
<1> DEFINE Repairs(r) ==
             (RebuildSwap /\ builder.reader = r /\ BuildComplete) =>
                /\ {EntryOf(b) : b \in {c \in Rows : Visible(r, c)}}
                      \subseteq live'[r]
                /\ live'[r] \subseteq
                      {EntryOf(b) : b \in {c \in posted : Visible(r, c)}}
<1>1. ASSUME FeedInv, NEW r \in Readers
      PROVE  Repairs(r)
  <2> SUFFICES ASSUME RebuildSwap, builder.reader = r, BuildComplete
               PROVE  Source(r) \subseteq live'[r] /\ live'[r] \subseteq Meant(r)
    BY DEF Source, Meant
  <2>1. Paused
    BY DEF RebuildSwap, Paused
  <2>2. live'[r] = builder.temporary
    BY <1>1 DEF RebuildSwap, FeedInv, TypeOK
  <2> QED BY <1>1, <2>1, <2>2, CompleteIsAll
<1>2. ASSUME FeedInv, [Next]_indexVars
      PROVE  \A r \in Readers : Repairs(r)
  BY <1>1, <1>2
<1> QED BY <1>2, FeedInvariant, PTL DEF Spec, RebuildRepairs

-----------------------------------------------------------------------------
(* The order of an index and its ranks *)

\* The first n entries of S, and those from rank m up to rank n - 1.
First(S, n) == {e \in S : Rank(S, e) < n}
Slice(S, m, n) == {e \in S : m <= Rank(S, e) /\ Rank(S, e) < n}
Above(S, max) == {e \in S : e.score > max}

LEMMA BeforeOrder ==
  /\ \A e \in FeedEntry : ~Before(e, e)
  /\ \A e, f \in FeedEntry : e = f \/ Before(e, f) \/ Before(f, e)
  /\ \A e, f, g \in FeedEntry : Before(e, f) /\ Before(f, g) => Before(e, g)
<1>1. \A e \in FeedEntry : ~Before(e, e)
  BY DEF FeedEntry, Before
<1>2. ASSUME NEW e \in FeedEntry, NEW f \in FeedEntry
      PROVE  e = f \/ Before(e, f) \/ Before(f, e)
  BY DEF FeedEntry, Before
<1>3. ASSUME NEW e \in FeedEntry, NEW f \in FeedEntry, NEW g \in FeedEntry,
             Before(e, f), Before(f, g)
      PROVE  Before(e, g)
  BY <1>3 DEF FeedEntry, Before
<1> QED BY <1>1, <1>2, <1>3

\* Ranks count from 0 and follow the order.
LEMMA RankType ==
  ASSUME NEW S \in SUBSET FeedEntry, IsFiniteSet(S), NEW e \in FeedEntry
  PROVE  /\ Rank(S, e) \in Nat /\ Cardinality(S) \in Nat
         /\ e \in S => Rank(S, e) < Cardinality(S)
<1> DEFINE T == {f \in S : Before(f, e)}
<1>1. IsFiniteSet(T) /\ Cardinality(T) <= Cardinality(S)
      /\ (Cardinality(S) = Cardinality(T) => S = T)
  BY FS_Subset
<1>2. Cardinality(T) \in Nat /\ Cardinality(S) \in Nat
  BY <1>1, FS_CardinalityType
<1>3. e \notin T
  BY BeforeOrder
<1> QED BY <1>1, <1>2, <1>3 DEF Rank

LEMMA RankOrder ==
  ASSUME NEW S \in SUBSET FeedEntry, IsFiniteSet(S), NEW e \in S, NEW f \in S
  PROVE  /\ Before(e, f) <=> Rank(S, e) < Rank(S, f)
         /\ e = f <=> Rank(S, e) = Rank(S, f)
<1>1. ASSUME NEW g \in S, NEW h \in S, Before(g, h)
      PROVE  Rank(S, g) < Rank(S, h)
  <2> DEFINE T == {x \in S : Before(x, g)}
             U == {x \in S : Before(x, h)}
  <2>1. T \subseteq U /\ g \in U /\ g \notin T
    BY <1>1, BeforeOrder
  <2>2. IsFiniteSet(U)
    BY FS_Subset
  <2>3. /\ Cardinality(T) <= Cardinality(U)
        /\ Cardinality(U) = Cardinality(T) => U = T
    BY <2>1, <2>2, FS_Subset
  <2>4. Cardinality(T) \in Nat /\ Cardinality(U) \in Nat
    BY <2>1, <2>2, FS_Subset, FS_CardinalityType
  <2>5. Cardinality(T) < Cardinality(U)
    BY <2>1, <2>3, <2>4
  <2> QED BY <2>5 DEF Rank
<1>2. Rank(S, e) \in Nat /\ Rank(S, f) \in Nat
  BY RankType
<1>3. e = f \/ Before(e, f) \/ Before(f, e)
  BY BeforeOrder
<1> QED BY <1>1, <1>2, <1>3

\* Every rank below the size is that of an entry: ranks are a bijection.
LEMMA RankOnto ==
  ASSUME NEW S \in SUBSET FeedEntry, IsFiniteSet(S)
  PROVE  \A n \in 0 .. (Cardinality(S) - 1) : \E e \in S : Rank(S, e) = n
<1> DEFINE N == Cardinality(S)
           I == 0 .. (N - 1)
           g == [e \in S |-> Rank(S, e)]
<1>1. N \in Nat
  BY FS_CardinalityType
<1>2. IsFiniteSet(I) /\ Cardinality(I) = N
  <2>1. IsFiniteSet(I) /\ Cardinality(I) = IF 0 > N - 1 THEN 0 ELSE (N - 1) - 0 + 1
    <3>1. N - 1 \in Int /\ 0 \in Int
      BY <1>1
    <3> QED BY <3>1, FS_Interval
  <2> QED BY <1>1, <2>1
<1>3. \A e \in S : Rank(S, e) \in I
  <2> TAKE e \in S
  <2>1. Rank(S, e) \in Nat /\ Rank(S, e) < N
    BY RankType
  <2> QED BY <1>1, <2>1
<1>4. g \in Injection(S, I)
  BY <1>3, RankOrder DEF Injection, IsInjective
<1>5. g \in Surjection(S, I)
  BY <1>2, <1>4, FS_Injection
<1> QED BY <1>5 DEF Surjection

\* The first n entries are n, if there are as many.
LEMMA FirstSize ==
  ASSUME NEW S \in SUBSET FeedEntry, IsFiniteSet(S), NEW n \in Nat
  PROVE  /\ IsFiniteSet(First(S, n))
         /\ n <= Cardinality(S) => Cardinality(First(S, n)) = n
         /\ n >= Cardinality(S) => First(S, n) = S
<1> DEFINE I == 0 .. (n - 1)
           g == [e \in First(S, n) |-> Rank(S, e)]
<1>1. IsFiniteSet(First(S, n))
  BY FS_Subset DEF First
<1>2. ASSUME n <= Cardinality(S)
      PROVE  Cardinality(First(S, n)) = n
  <2>1. IsFiniteSet(I) /\ Cardinality(I) = n
    <3>1. IsFiniteSet(I) /\ Cardinality(I) = IF 0 > n - 1 THEN 0 ELSE (n - 1) - 0 + 1
      <4>1. n - 1 \in Int /\ 0 \in Int
        OBVIOUS
      <4> QED BY <4>1, FS_Interval
    <3> QED BY <3>1
  <2>2. \A e \in First(S, n) : e \in S /\ Rank(S, e) \in I
    BY RankType DEF First
  <2>3. \A i \in I : \E e \in First(S, n) : Rank(S, e) = i
    <3> TAKE i \in I
    <3>1. i \in 0 .. (Cardinality(S) - 1)
      BY <1>2, RankType, FS_CardinalityType
    <3>2. PICK e \in S : Rank(S, e) = i
      BY <3>1, RankOnto
    <3> QED BY <3>2 DEF First
  <2>4. g \in Injection(First(S, n), I)
    BY <2>2, RankOrder DEF Injection, IsInjective
  <2>5. g \in Surjection(First(S, n), I)
    BY <2>2, <2>3 DEF Surjection
  <2>6. Cardinality(First(S, n)) = Cardinality(I)
    BY <2>1, <2>4, <2>5, FS_Injection
  <2> QED BY <2>1, <2>6
<1>3. ASSUME n >= Cardinality(S)
      PROVE  First(S, n) = S
  <2>1. \A e \in S : Rank(S, e) < n
    <3> TAKE e \in S
    <3>1. Rank(S, e) \in Nat /\ Cardinality(S) \in Nat /\ Rank(S, e) < Cardinality(S)
      BY RankType
    <3> QED BY <1>3, <3>1
  <2> QED BY <2>1 DEF First
<1> QED BY <1>1, <1>2, <1>3

LEMMA SliceSize ==
  ASSUME NEW S \in SUBSET FeedEntry, IsFiniteSet(S),
         NEW m \in Nat, NEW n \in Nat, m <= n, n <= Cardinality(S)
  PROVE  IsFiniteSet(Slice(S, m, n)) /\ Cardinality(Slice(S, m, n)) = n - m
<1>1. \A e \in S : Rank(S, e) \in Nat
  BY RankType
<1>2. Slice(S, m, n) = First(S, n) \ First(S, m)
  BY <1>1 DEF Slice, First
<1>3. First(S, n) \cap First(S, m) = First(S, m)
  BY <1>1 DEF First
<1>4. Cardinality(S) \in Nat
  BY FS_CardinalityType
<1>5. Cardinality(First(S, n)) = n /\ Cardinality(First(S, m)) = m
      /\ IsFiniteSet(First(S, n))
  BY <1>4, FirstSize
<1>6. /\ IsFiniteSet(First(S, n) \ First(S, m))
      /\ Cardinality(First(S, n) \ First(S, m)) =
            Cardinality(First(S, n)) - Cardinality(First(S, n) \cap First(S, m))
  BY <1>5, FS_Difference
<1> QED BY <1>2, <1>3, <1>5, <1>6

\* From rank m on, n or all that are left.
LEMMA SliceRest ==
  ASSUME NEW S \in SUBSET FeedEntry, IsFiniteSet(S),
         NEW m \in Nat, NEW n \in Nat, m <= Cardinality(S), n >= Cardinality(S)
  PROVE  /\ Slice(S, m, n) = Slice(S, m, Cardinality(S))
         /\ Slice(S, m, n) = S \ First(S, m)
         /\ Cardinality(Slice(S, m, n)) = Cardinality(S) - m
<1>1. Cardinality(S) \in Nat
  BY FS_CardinalityType
<1>2. \A e \in S : Rank(S, e) \in Nat /\ Rank(S, e) < Cardinality(S)
  BY RankType
<1>3. Slice(S, m, n) = Slice(S, m, Cardinality(S))
      /\ Slice(S, m, n) = S \ First(S, m)
  BY <1>1, <1>2 DEF Slice, First
<1>4. Cardinality(Slice(S, m, Cardinality(S))) = Cardinality(S) - m
  BY <1>1, SliceSize
<1> QED BY <1>3, <1>4

\* In a slice an entry's rank counts from the beginning of the slice.
LEMMA RankInSlice ==
  ASSUME NEW S \in SUBSET FeedEntry, IsFiniteSet(S),
         NEW m \in Nat, NEW n \in Nat, NEW e \in Slice(S, m, n)
  PROVE  Rank(Slice(S, m, n), e) = Rank(S, e) - m
<1> DEFINE k == Rank(S, e)
<1>1. k \in Nat /\ m <= k /\ k < n /\ k < Cardinality(S) /\ Cardinality(S) \in Nat
  BY RankType DEF Slice
<1>2. \A f \in S : Before(f, e) <=> Rank(S, f) < k
  BY RankOrder DEF Slice
<1>3. \A f \in S : Rank(S, f) \in Nat
  BY RankType
<1>4. {f \in Slice(S, m, n) : Before(f, e)} = Slice(S, m, k)
  BY <1>1, <1>2, <1>3 DEF Slice
<1>5. Cardinality(Slice(S, m, k)) = k - m
  BY <1>1, SliceSize
<1> QED BY <1>4, <1>5 DEF Rank

\* Entries above a score come first; below it ranks count from there.
LEMMA RankBelow ==
  ASSUME NEW S \in SUBSET FeedEntry, IsFiniteSet(S), NEW max \in Nat, NEW e \in S
  PROVE  LET below == {f \in S : f.score <= max}
             A == Cardinality(Above(S, max)) IN
         /\ IsFiniteSet(Above(S, max)) /\ A \in Nat /\ A <= Cardinality(S)
         /\ e \in below => Rank(S, e) = A + Rank(below, e)
                           /\ Rank(below, e) \in Nat
         /\ e \notin below => Rank(S, e) < A
<1> DEFINE below == {f \in S : f.score <= max}
           A == Cardinality(Above(S, max))
<1>1. \A f \in S : f.score \in Nat
  BY DEF FeedEntry
<1>2. IsFiniteSet(Above(S, max)) /\ A <= Cardinality(S) /\ IsFiniteSet(below)
  BY FS_Subset DEF Above
<1>3. A \in Nat
  BY <1>2, FS_CardinalityType
<1>4. ASSUME e \in below
      PROVE  Rank(S, e) = A + Rank(below, e) /\ Rank(below, e) \in Nat
  <2> DEFINE T == {f \in below : Before(f, e)}
  <2>1. {f \in S : Before(f, e)} = Above(S, max) \cup T
    BY <1>1, <1>4 DEF Above, Before
  <2>2. Above(S, max) \cap T = {}
    BY <1>1 DEF Above
  <2>3. IsFiniteSet(T) /\ Cardinality(T) \in Nat
    BY <1>2, FS_Subset, FS_CardinalityType
  <2>4. Cardinality(Above(S, max) \cup T) =
           A + Cardinality(T) - Cardinality(Above(S, max) \cap T)
    BY <1>2, <2>3, FS_Union
  <2>5. Cardinality(Above(S, max) \cup T) = A + Cardinality(T)
    <3>1. Cardinality(Above(S, max) \cap T) = 0
      BY <2>2, FS_EmptySet
    <3> HIDE DEF A, T
    <3> QED BY <1>3, <2>3, <2>4, <3>1
  <2>6. Rank(S, e) = A + Cardinality(T)
    BY <2>1, <2>5 DEF Rank
  <2> QED BY <2>3, <2>6 DEF Rank
<1>5. ASSUME e \notin below
      PROVE  Rank(S, e) < A
  <2> DEFINE T == {f \in S : Before(f, e)}
  <2>1. T \subseteq Above(S, max) /\ e \in Above(S, max) /\ e \notin T
    BY <1>1, <1>5, BeforeOrder DEF Above, Before
  <2>2. /\ Cardinality(T) <= A /\ Cardinality(T) \in Nat
        /\ A = Cardinality(T) => Above(S, max) = T
    BY <1>2, <2>1, FS_Subset, FS_CardinalityType
  <2> QED BY <1>3, <2>1, <2>2 DEF Rank
<1> QED BY <1>2, <1>3, <1>4, <1>5

LEMMA RankAbove ==
  ASSUME NEW S \in SUBSET FeedEntry, IsFiniteSet(S), NEW max \in Nat, NEW e \in S,
         e.score > max
  PROVE  Cardinality(Above(S, max)) \in Nat /\ Rank(S, e) < Cardinality(Above(S, max))
<1>1. e \notin {f \in S : f.score <= max}
  BY DEF FeedEntry
<1> QED BY <1>1, RankBelow

-----------------------------------------------------------------------------
(* The cursor *)

\* What is read at the cursor are the entries from rank `served' on.
LEMMA WindowIsSlice ==
  ASSUME NEW S \in SUBSET FeedEntry, IsFiniteSet(S), NEW max \in Nat,
         NEW offset \in Nat, NEW limit \in Nat \ {0}
  PROVE  LET m == Cardinality(Above(S, max)) + offset IN
         /\ m \in Nat
         /\ Window(S, max, offset, limit) = Slice(S, m, m + limit)
<1> DEFINE below == {f \in S : f.score <= max}
           A == Cardinality(Above(S, max))
           m == A + offset
<1>1. A \in Nat
  BY FS_Subset, FS_CardinalityType DEF Above
<1>2. ASSUME NEW e \in S
      PROVE  e \in Window(S, max, offset, limit) <=> e \in Slice(S, m, m + limit)
  <2>1. e \in Slice(S, m, m + limit) <=> m <= Rank(S, e) /\ Rank(S, e) < m + limit
    BY DEF Slice
  <2>2. CASE e \in below
    <3>1. Rank(S, e) = A + Rank(below, e) /\ Rank(below, e) \in Nat
      BY <2>2, RankBelow
    <3>2. e \in Window(S, max, offset, limit) <=>
             offset <= Rank(below, e) /\ Rank(below, e) <= offset + limit - 1
      BY <2>2, <3>1 DEF Window
    <3> HIDE DEF A, below
    <3> QED BY <1>1, <2>1, <3>1, <3>2
  <2>3. CASE e \notin below
    <3>1. Rank(S, e) < A /\ Rank(S, e) \in Nat
      BY <2>3, RankBelow, RankType
    <3>2. e \notin Window(S, max, offset, limit)
      BY <2>3 DEF Window
    <3> HIDE DEF A, below
    <3> QED BY <1>1, <2>1, <3>1, <3>2
  <2> QED BY <2>2, <2>3
<1>3. Window(S, max, offset, limit) \subseteq S /\ Slice(S, m, m + limit) \subseteq S
  BY DEF Window, Slice
<1> QED BY <1>1, <1>2, <1>3

\* One entry more than the page tells whether there are more.
LEMMA PageIsSlice ==
  ASSUME NEW S \in SUBSET FeedEntry, IsFiniteSet(S),
         NEW m \in Nat, m <= Cardinality(S), NEW size \in Nat \ {0}
  PROVE  LET entries == Slice(S, m, m + (size + 1)) IN
         /\ {e \in entries : Rank(entries, e) < size} = Slice(S, m, m + size)
         /\ Cardinality(entries) > size <=> m + size < Cardinality(S)
<1> DEFINE entries == Slice(S, m, m + (size + 1))
<1>1. Cardinality(S) \in Nat
  BY FS_CardinalityType
<1>2. \A e \in entries : /\ Rank(entries, e) = Rank(S, e) - m
                         /\ Rank(S, e) \in Nat /\ m <= Rank(S, e)
  BY RankInSlice, RankType DEF Slice
<1>3. {e \in entries : Rank(entries, e) < size} = Slice(S, m, m + size)
  <2>1. {e \in entries : Rank(entries, e) < size}
           = {e \in entries : Rank(S, e) < m + size}
    BY <1>2
  <2>2. {e \in entries : Rank(S, e) < m + size} = Slice(S, m, m + size)
    BY RankType DEF Slice
  <2> QED BY <2>1, <2>2
<1>4. CASE m + size < Cardinality(S)
  <2>1. Cardinality(entries) = (m + (size + 1)) - m
    BY <1>1, <1>4, SliceSize
  <2> QED BY <1>3, <1>4, <2>1
<1>5. CASE ~(m + size < Cardinality(S))
  <2>1. Cardinality(entries) = Cardinality(S) - m
    BY <1>1, <1>5, SliceRest
  <2> QED BY <1>1, <1>3, <1>5, <2>1
<1> QED BY <1>4, <1>5

\* The last entry of a page that has successors.
LEMMA LastOfSlice ==
  ASSUME NEW S \in SUBSET FeedEntry, IsFiniteSet(S),
         NEW m \in Nat, NEW k \in Nat \ {0}, m + k < Cardinality(S)
  PROVE  LET l == Last(Slice(S, m, m + k)) IN
         l \in Slice(S, m, m + k) /\ Rank(S, l) = m + k - 1
<1> DEFINE P == Slice(S, m, m + k)
<1>1. PICK x \in S : Rank(S, x) = m + k - 1
  <2>1. Cardinality(S) \in Nat
    BY FS_CardinalityType
  <2>2. m + k - 1 \in 0 .. (Cardinality(S) - 1)
    BY <2>1
  <2> QED BY <2>2, RankOnto
<1>2. x \in P
  BY <1>1 DEF Slice
<1>3. \A f \in P : f = x \/ Before(f, x)
  <2> TAKE f \in P
  <2>1. f \in S /\ Rank(S, f) \in Nat /\ Rank(S, f) < m + k
    BY RankType DEF Slice
  <2> QED BY <1>1, <2>1, RankOrder
<1>4. Last(P) \in P /\ \A f \in P : f = Last(P) \/ Before(f, Last(P))
  BY <1>2, <1>3 DEF Last
<1>5. Last(P) = x
  BY <1>2, <1>3, <1>4, BeforeOrder DEF Slice
<1> QED BY <1>1, <1>4, <1>5

\* Disjoint sets add up.
LEMMA UnionDisjoint ==
  ASSUME NEW A, IsFiniteSet(A), NEW B, IsFiniteSet(B), A \cap B = {}
  PROVE  IsFiniteSet(A \cup B)
         /\ Cardinality(A \cup B) = Cardinality(A) + Cardinality(B)
<1>1. /\ IsFiniteSet(A \cup B)
      /\ Cardinality(A \cup B) =
            Cardinality(A) + Cardinality(B) - Cardinality(A \cap B)
  BY FS_Union
<1>2. Cardinality(A) \in Nat /\ Cardinality(B) \in Nat
  BY FS_CardinalityType
<1>3. Cardinality(A \cap B) = 0
  BY FS_EmptySet
<1> QED BY <1>1, <1>2, <1>3

\* The next cursor stands behind the page.
LEMMA CursorMoves ==
  ASSUME NEW S \in SUBSET FeedEntry, IsFiniteSet(S),
         NEW m \in Nat, NEW k \in Nat \ {0}, m + k < Cardinality(S),
         NEW max \in Nat, NEW offset \in Nat,
         m = Cardinality(Above(S, max)) + offset,
         \A e \in S : Rank(S, e) < m => e.score >= max
  PROVE  LET P == Slice(S, m, m + k)
             score == Last(P).score
             next == Cardinality({e \in P : e.score = score})
                        + IF score = max THEN offset ELSE 0 IN
         /\ score \in Nat /\ next \in Nat
         /\ m + k = Cardinality(Above(S, score)) + next
         /\ \A e \in S : Rank(S, e) < m + k => e.score >= score
<1> DEFINE P == Slice(S, m, m + k)
           l == Last(P)
           score == l.score
           fresh == {e \in P : e.score = score}
           old == {e \in First(S, m) : e.score = score}
<1>1. l \in P /\ l \in S /\ Rank(S, l) = m + k - 1
  BY LastOfSlice DEF Slice
<1>2. score \in Nat /\ \A e \in S : e.score \in Nat /\ Rank(S, e) \in Nat
  BY <1>1, RankType DEF FeedEntry
<1>3. \A e \in S : Rank(S, e) < m + k => e = l \/ Before(e, l)
  BY <1>1, <1>2, RankOrder
<1>4. \A e \in S : Rank(S, e) < m + k => e.score >= score
  BY <1>2, <1>3 DEF Before
<1>5. \A e \in S : e.score > score => Rank(S, e) < m + k
  <2> SUFFICES ASSUME NEW e \in S, e.score > score PROVE Rank(S, e) < m + k
    OBVIOUS
  <2>1. Before(e, l)
    BY DEF Before
  <2>2. Rank(S, e) < Rank(S, l)
    BY <1>1, <2>1, RankOrder
  <2> QED BY <1>1, <1>2, <2>2
<1>6. First(S, m + k) = Above(S, score) \cup (fresh \cup old)
      /\ Above(S, score) \cap (fresh \cup old) = {} /\ fresh \cap old = {}
  <2>1. \A e \in S : e.score \in Nat /\ Rank(S, e) \in Nat
                     /\ (e.score > score => Rank(S, e) < m + k)
                     /\ (Rank(S, e) < m + k => e.score >= score)
    BY <1>2, <1>4, <1>5
  <2>2. score \in Nat /\ m \in Nat /\ k \in Nat
    BY <1>2, FS_CardinalityType
  <2>3. ASSUME NEW e \in S
        PROVE  /\ e \in First(S, m + k) <=> e \in Above(S, score) \cup (fresh \cup old)
               /\ ~(e \in Above(S, score) /\ e \in fresh \cup old)
               /\ ~(e \in fresh /\ e \in old)
    <3> DEFINE sc == score
    <3>1. /\ e \in fresh <=> m <= Rank(S, e) /\ Rank(S, e) < m + k /\ e.score = sc
          /\ e \in old <=> Rank(S, e) < m /\ e.score = sc
          /\ e \in Above(S, score) <=> e.score > sc
          /\ e \in First(S, m + k) <=> Rank(S, e) < m + k
      BY DEF First, Slice, Above
    <3> HIDE DEF sc, l, fresh, old
    <3>2. sc = score
      BY DEF sc
    <3> QED BY <2>1, <2>2, <3>1, <3>2
  <2>4. /\ First(S, m + k) \subseteq S /\ Above(S, score) \subseteq S
        /\ fresh \subseteq S /\ old \subseteq S
    BY DEF First, Slice, Above
  <2> HIDE DEF l, fresh, old, P
  <2> QED BY <2>3, <2>4
<1>7. m \in Nat /\ offset \in Nat /\ Cardinality(S) \in Nat
  BY FS_CardinalityType
<1>8. /\ IsFiniteSet(Above(S, score)) /\ IsFiniteSet(fresh) /\ IsFiniteSet(old)
      /\ Cardinality(Above(S, score)) \in Nat /\ Cardinality(fresh) \in Nat
      /\ Cardinality(old) \in Nat
  <2>1. /\ Above(S, score) \subseteq S /\ fresh \subseteq S /\ old \subseteq S
    BY DEF Above, Slice, First
  <2> HIDE DEF fresh, old
  <2> QED BY <2>1, FS_Subset, FS_CardinalityType
<1>9. Cardinality(fresh \cup old) = Cardinality(fresh) + Cardinality(old)
      /\ IsFiniteSet(fresh \cup old)
  BY <1>6, <1>8, UnionDisjoint
<1>10. m + k = Cardinality(Above(S, score)) + (Cardinality(fresh) + Cardinality(old))
  <2>1. Cardinality(First(S, m + k)) = m + k
    BY <1>7, FirstSize
  <2>2. Cardinality(Above(S, score) \cup (fresh \cup old)) =
           Cardinality(Above(S, score)) + Cardinality(fresh \cup old)
    BY <1>6, <1>8, <1>9, UnionDisjoint
  <2> QED BY <1>6, <1>9, <2>1, <2>2
<1>11. Cardinality(old) = IF score = max THEN offset ELSE 0
  <2>1. CASE score = max
    <3>1. First(S, m) = Above(S, max) \cup old /\ Above(S, max) \cap old = {}
      <4>1. \A e \in S : e.score > max => Rank(S, e) < m
        <5> SUFFICES ASSUME NEW e \in S, e.score > max PROVE Rank(S, e) < m
          OBVIOUS
        <5>1. Cardinality(Above(S, max)) \in Nat
              /\ Rank(S, e) < Cardinality(Above(S, max))
          BY <1>2, RankAbove
        <5> QED BY <1>2, <1>7, <5>1
      <4> HIDE DEF l
      <4> QED BY <1>2, <2>1, <4>1 DEF First, Above
    <3>2. Cardinality(First(S, m)) = m
      BY <1>7, FirstSize
    <3>3. Cardinality(Above(S, max) \cup old) =
             Cardinality(Above(S, max)) + Cardinality(old)
      BY <1>8, <2>1, <3>1, UnionDisjoint
    <3>4. Cardinality(Above(S, max)) + Cardinality(old) = m
      BY <3>1, <3>2, <3>3
    <3>5. Cardinality(Above(S, max)) \in Nat /\ Cardinality(old) \in Nat
      BY <1>8, <2>1
    <3> HIDE DEF old, l
    <3>6. Cardinality(old) = offset
      BY <1>7, <3>4, <3>5
    <3> QED BY <2>1, <3>6
  <2>2. CASE score # max
    <3>1. l.score <= max
      <4> SUFFICES ASSUME l.score > max PROVE FALSE
        BY <1>2
      <4>1. Cardinality(Above(S, max)) \in Nat
            /\ Rank(S, l) < Cardinality(Above(S, max))
        BY <1>1, <1>2, RankAbove
      <4> QED BY <1>1, <1>2, <1>7, <4>1
    <3>2. old = {}
      <4> HIDE DEF l
      <4> QED BY <1>2, <2>2, <3>1 DEF First
    <3>3. Cardinality(old) = 0
      BY <3>2, FS_EmptySet
    <3> HIDE DEF old, l
    <3> QED BY <2>2, <3>3
  <2> QED BY <2>1, <2>2
<1> DEFINE next == Cardinality(fresh) + IF score = max THEN offset ELSE 0
<1>12. next = Cardinality(fresh) + Cardinality(old)
  BY <1>11
<1>13. next \in Nat /\ m + k = Cardinality(Above(S, score)) + next
  BY <1>8, <1>10, <1>12
<1> QED BY <1>2, <1>4, <1>13

-----------------------------------------------------------------------------
(* Where a reader stands *)

SessionRec ==
    [pc : {"paging", "rows", "done"}, members : SUBSET FeedEntry,
     counted : BOOLEAN, count : Nat, max : Nat, offset : Nat,
     page : SUBSET FeedEntry, more : BOOLEAN,
     taken : SUBSET FeedEntry, seen : SUBSET FeedEntry, served : Nat,
     shown : SUBSET FeedEntry, steady : SUBSET FeedEntry]

Conflict == [pc |-> "conflict"]

\* The copy is whole or gone.
Copied(s) ==
    /\ IsFiniteSet(s.taken) /\ s.count = Cardinality(s.taken)
    /\ s.members = s.taken \/ s.members = {}

\* What was answered are the first entries, `served' of them.
Answered(s) ==
    /\ s.served <= Cardinality(s.taken)
    /\ s.seen = First(s.taken, s.served)
    /\ s.pc = "done" => s.served = Cardinality(s.taken)

\* The cursor <<max, offset>> stands behind them: an entry of the score max
\* has `offset' others of that score before it.
AtCursor(s) ==
    s.pc # "done" =>
       /\ s.served = Cardinality(Above(s.taken, s.max)) + s.offset
       /\ \A e \in s.taken : Rank(s.taken, e) < s.served => e.score >= s.max

\* The page that was read comes next.
NextPageRead(s) ==
    s.pc = "rows" =>
       \E k \in Nat \ {0} :
          /\ s.page = Slice(s.taken, s.served, s.served + k)
          /\ s.more <=> s.served + k < Cardinality(s.taken)

\* An entry that stayed visible was shown when its page was.
SteadyShown(s, visible) ==
    /\ s.steady \subseteq s.taken \cap visible
    /\ s.steady \cap s.seen \subseteq s.shown

Good(s, visible) ==
    /\ s \in SessionRec
    /\ Copied(s) /\ Answered(s) /\ AtCursor(s) /\ NextPageRead(s)
    /\ SteadyShown(s, visible)

\* Blogs are not dated after the clock, which stops below MaxScore.
TimeInv ==
    /\ now \in Nat /\ now <= MaxScore
    /\ \A b \in posted : b.at <= now

PageInv ==
    /\ DOMAIN session = Readers
    /\ \A r \in Readers : \/ session[r] \in {NoSession, Conflict}
                          \/ Good(session[r], VisibleTo(r))

-----------------------------------------------------------------------------
LEMMA OpenGood ==
  ASSUME NEW L \in SUBSET FeedEntry, IsFiniteSet(L), NEW V, NEW W \in SUBSET L,
         W \subseteq V, NEW max \in Nat, \A e \in L : e.score <= max
  PROVE  Good([pc |-> "paging", members |-> L,
               counted |-> TRUE, count |-> Cardinality(L),
               max |-> max, offset |-> 0,
               page |-> {}, more |-> FALSE,
               taken |-> L, seen |-> {}, served |-> 0, shown |-> {},
               steady |-> W], V)
<1> DEFINE s == [pc |-> "paging", members |-> L,
                 counted |-> TRUE, count |-> Cardinality(L),
                 max |-> max, offset |-> 0,
                 page |-> {}, more |-> FALSE,
                 taken |-> L, seen |-> {}, served |-> 0, shown |-> {},
                 steady |-> W]
<1>1. Cardinality(L) \in Nat
  BY FS_CardinalityType
<1>2. s \in SessionRec
  BY <1>1 DEF SessionRec
<1>3. \A e \in L : Rank(L, e) \in Nat
  BY RankType
<1>4. First(L, 0) = {}
  BY <1>3 DEF First
<1>5. Above(L, max) = {} /\ Cardinality({}) = 0
  BY FS_EmptySet DEF Above, FeedEntry
<1>6. Copied(s) /\ Answered(s) /\ NextPageRead(s) /\ SteadyShown(s, V)
  BY <1>1, <1>4 DEF Copied, Answered, NextPageRead, SteadyShown
<1>7. AtCursor(s)
  BY <1>3, <1>5 DEF AtCursor
<1> QED BY <1>2, <1>6, <1>7 DEF Good

\* A key is lost, a reply is lost: the reader stays where it is.
StaysPut(s, t) ==
    /\ \/ t.pc = s.pc /\ t.page = s.page /\ t.more = s.more
       \/ s.pc = "rows" /\ t.pc = "paging"
    /\ t.members = s.members \/ t.members = {}
    /\ t.count = s.count /\ t.max = s.max /\ t.offset = s.offset
    /\ t.taken = s.taken /\ t.seen = s.seen /\ t.served = s.served
    /\ t.shown = s.shown /\ t.steady = s.steady

LEMMA StaysGood ==
  ASSUME NEW V, NEW s, NEW t \in SessionRec, Good(s, V), StaysPut(s, t)
  PROVE  Good(t, V)
<1> USE DEF Good
<1>1. Copied(t) /\ Answered(t) /\ AtCursor(t) /\ SteadyShown(t, V)
  BY DEF StaysPut, Copied, Answered, AtCursor, SteadyShown
<1>2. NextPageRead(t)
  BY DEF StaysPut, NextPageRead
<1> QED BY <1>1, <1>2

LEMMA LossGood ==
  ASSUME NEW V, NEW s, Good(s, V)
  PROVE  /\ Good([s EXCEPT !.members = {}], V)
         /\ Good([s EXCEPT !.counted = FALSE], V)
         /\ s.pc = "rows" => Good([s EXCEPT !.pc = "paging", !.page = {},
                                            !.more = FALSE], V)
<1>1. s \in SessionRec
  BY DEF Good
<1>2. Good([s EXCEPT !.members = {}], V)
  <2> DEFINE t == [s EXCEPT !.members = {}]
  <2>1. t \in SessionRec
    BY <1>1 DEF SessionRec
  <2>2. StaysPut(s, t)
    BY <1>1 DEF SessionRec, StaysPut
  <2> HIDE DEF t
  <2>3. Good(t, V)
    BY <2>1, <2>2, StaysGood
  <2> QED BY <2>3 DEF t
<1>3. Good([s EXCEPT !.counted = FALSE], V)
  <2> DEFINE t == [s EXCEPT !.counted = FALSE]
  <2>1. t \in SessionRec
    BY <1>1 DEF SessionRec
  <2>2. StaysPut(s, t)
    BY <1>1 DEF SessionRec, StaysPut
  <2> HIDE DEF t
  <2>3. Good(t, V)
    BY <2>1, <2>2, StaysGood
  <2> QED BY <2>3 DEF t
<1>4. ASSUME s.pc = "rows"
      PROVE  Good([s EXCEPT !.pc = "paging", !.page = {}, !.more = FALSE], V)
  <2> DEFINE t == [s EXCEPT !.pc = "paging", !.page = {}, !.more = FALSE]
  <2>1. t \in SessionRec
    BY <1>1 DEF SessionRec
  <2>2. StaysPut(s, t)
    BY <1>4, <1>1 DEF SessionRec, StaysPut
  <2> HIDE DEF t
  <2>3. Good(t, V)
    BY <2>1, <2>2, StaysGood
  <2> QED BY <2>3 DEF t
<1> QED BY <1>2, <1>3, <1>4

\* The world moves on between the pages.
LEMMA SteadyGood ==
  ASSUME NEW V, NEW W, NEW s, Good(s, V)
  PROVE  Good([s EXCEPT !.steady = @ \cap W], W)
<1> USE DEF Good
<1> DEFINE t == [s EXCEPT !.steady = @ \cap W]
<1>1. t \in SessionRec
  BY DEF SessionRec
<1>2. /\ t.pc = s.pc /\ t.count = s.count /\ t.max = s.max
      /\ t.offset = s.offset /\ t.page = s.page /\ t.more = s.more
      /\ t.taken = s.taken /\ t.seen = s.seen /\ t.served = s.served
      /\ t.shown = s.shown /\ t.members = s.members
      /\ t.steady = s.steady \cap W
  BY DEF SessionRec
<1> HIDE DEF t
<1>3. Copied(t) /\ Answered(t) /\ AtCursor(t) /\ NextPageRead(t)
  BY <1>1, <1>2 DEF Copied, Answered, AtCursor, NextPageRead
<1>4. SteadyShown(t, W)
  BY <1>2 DEF SteadyShown
<1>5. Good(t, W)
  BY <1>1, <1>3, <1>4
<1> QED BY <1>5 DEF t

\* A snapshot that agrees with its cardinality is the copy that was made.
LEMMA IntactIsWhole ==
  ASSUME NEW V, NEW s, Good(s, V), SnapshotIntact(s)
  PROVE  s.members = s.taken
<1>1. CASE s.members = {}
  <2>1. Cardinality(s.taken) = 0 /\ IsFiniteSet(s.taken)
    BY <1>1, FS_EmptySet DEF Good, Copied, SnapshotIntact
  <2> QED BY <1>1, <2>1, FS_EmptySet
<1> QED BY <1>1 DEF Good, Copied

LEMMA ReadGood ==
  ASSUME NEW V, NEW s, Good(s, V), s.pc = "paging", SnapshotIntact(s),
         NEW size \in Sizes
  PROVE  LET entries == Window(s.members, s.max, s.offset, Limit(size))
             page == {e \in entries : Rank(entries, e) < size} IN
         Good([s EXCEPT !.pc = "rows", !.page = page,
                        !.more = Cardinality(entries) > size], V)
<1> USE DEF Good
<1> DEFINE S == s.taken
           entries == Window(s.members, s.max, s.offset, Limit(size))
           page == {e \in entries : Rank(entries, e) < size}
           more == Cardinality(entries) > size
           t == [s EXCEPT !.pc = "rows", !.page = page, !.more = more]
<1>1. /\ S \in SUBSET FeedEntry /\ IsFiniteSet(S) /\ s.max \in Nat
      /\ s.offset \in Nat /\ s.served \in Nat /\ s.served <= Cardinality(S)
      /\ size \in Nat \ {0} /\ size + 1 \in Nat \ {0}
  BY PageAssumption DEF SessionRec, Copied, Answered
<1>2. s.served = Cardinality(Above(S, s.max)) + s.offset
  BY DEF AtCursor
<1>3. entries = Slice(S, s.served, s.served + (size + 1))
  <2>1. entries = Window(S, s.max, s.offset, size + 1)
    BY IntactIsWhole DEF Limit
  <2>2. Window(S, s.max, s.offset, size + 1) =
           Slice(S, Cardinality(Above(S, s.max)) + s.offset,
                 Cardinality(Above(S, s.max)) + s.offset + (size + 1))
    BY <1>1, WindowIsSlice
  <2> QED BY <1>2, <2>1, <2>2
<1>4. /\ page = Slice(S, s.served, s.served + size)
      /\ more <=> s.served + size < Cardinality(S)
  BY <1>1, <1>3, PageIsSlice
<1>5. page \in SUBSET FeedEntry /\ more \in BOOLEAN
  BY <1>1, <1>4 DEF Slice
<1> HIDE DEF page, more, entries
<1>6. t \in SessionRec
  BY <1>5 DEF SessionRec
<1>7. /\ t.pc = "rows" /\ t.page = page /\ t.more = more
      /\ t.members = s.members /\ t.count = s.count /\ t.max = s.max
      /\ t.offset = s.offset /\ t.taken = s.taken /\ t.seen = s.seen
      /\ t.served = s.served /\ t.shown = s.shown /\ t.steady = s.steady
  BY <1>5 DEF SessionRec
<1> HIDE DEF t
<1>8. Copied(t) /\ Answered(t) /\ AtCursor(t) /\ SteadyShown(t, V)
  BY <1>7 DEF Copied, Answered, AtCursor, SteadyShown
<1>9. NextPageRead(t)
  BY <1>1, <1>4, <1>7 DEF NextPageRead
<1>10. Good(t, V)
  BY <1>6, <1>8, <1>9
<1> QED BY <1>10 DEF t, page, more, entries

\* A page from m on moves the cursor and what is behind it.
LEMMA PageAnswered ==
  ASSUME NEW S \in SUBSET FeedEntry, IsFiniteSet(S),
         NEW m \in Nat, m <= Cardinality(S), NEW k \in Nat \ {0}
  PROVE  LET page == Slice(S, m, m + k) IN
         /\ page \subseteq S /\ Cardinality(page) \in Nat
         /\ m + Cardinality(page) <= Cardinality(S)
         /\ First(S, m) \cup page = First(S, m + Cardinality(page))
         /\ m + k < Cardinality(S) => Cardinality(page) = k
         /\ ~(m + k < Cardinality(S)) => m + Cardinality(page) = Cardinality(S)
<1> DEFINE N == Cardinality(S)
           page == Slice(S, m, m + k)
           size == Cardinality(page)
<1>1. N \in Nat /\ \A e \in S : Rank(S, e) \in Nat
  BY RankType, FS_CardinalityType
<1>2. page \subseteq S
  BY DEF Slice
<1>3. CASE m + k < N
  <2>1. Cardinality(Slice(S, m, m + k)) = (m + k) - m
    BY <1>1, <1>3, SliceSize
  <2>2. size = k
    BY <2>1
  <2>3. First(S, m) \cup page = First(S, m + k)
    BY <1>1 DEF First, Slice
  <2> HIDE DEF size, N
  <2> QED BY <1>1, <1>2, <1>3, <2>2, <2>3 DEF size, N
<1>4. CASE ~(m + k < N)
  <2>1. page = S \ First(S, m) /\ size = N - m
    BY <1>1, <1>4, SliceRest
  <2>2. First(S, N) = S
    BY <1>1, FirstSize
  <2>3. First(S, m) \cup page = S
    BY <2>1 DEF First
  <2> HIDE DEF size, N
  <2>4. m + size = N /\ size \in Nat
    BY <1>1, <2>1 DEF N
  <2> QED BY <1>1, <1>2, <1>4, <2>2, <2>3, <2>4 DEF size, N
<1> QED BY <1>3, <1>4

LEMMA AnswerGood ==
  ASSUME NEW V, NEW s, Good(s, V), s.pc = "rows"
  PROVE  Good([s EXCEPT
                 !.pc = IF s.more THEN "paging" ELSE "done",
                 !.max = IF s.more THEN Last(s.page).score ELSE @,
                 !.offset = IF s.more THEN NextOffset(s) ELSE @,
                 !.page = {}, !.more = FALSE,
                 !.seen = @ \cup s.page,
                 !.served = @ + Cardinality(s.page),
                 !.shown = @ \cup (s.page \cap V)], V)
<1> USE DEF Good
<1> DEFINE S == s.taken
           m == s.served
           max == s.max
           offset == s.offset
           page == s.page
           more == s.more
           size == Cardinality(page)
           score == Last(page).score
           next == NextOffset(s)
           t == [s EXCEPT
                   !.pc = IF more THEN "paging" ELSE "done",
                   !.max = IF more THEN score ELSE @,
                   !.offset = IF more THEN next ELSE @,
                   !.page = {}, !.more = FALSE,
                   !.seen = @ \cup page,
                   !.served = @ + size,
                   !.shown = @ \cup (page \cap V)]
<1>1. /\ S \in SUBSET FeedEntry /\ IsFiniteSet(S) /\ max \in Nat
      /\ offset \in Nat /\ m \in Nat /\ m <= Cardinality(S)
      /\ more \in BOOLEAN /\ page \in SUBSET FeedEntry
  BY DEF SessionRec, Copied, Answered
<1>2. /\ m = Cardinality(Above(S, max)) + offset
      /\ \A e \in S : Rank(S, e) < m => e.score >= max
  BY DEF AtCursor
<1>3. PICK k \in Nat \ {0} : /\ page = Slice(S, m, m + k)
                             /\ more <=> m + k < Cardinality(S)
  BY DEF NextPageRead
<1>4. s.seen = First(S, m)
  BY DEF Answered
<1>5. next = Cardinality({e \in page : e.score = score})
                + IF score = max THEN offset ELSE 0
  BY DEF NextOffset
<1> HIDE DEF S, m, max, offset, page, more, next
<1>6. /\ size \in Nat /\ m + size <= Cardinality(S) /\ page \subseteq S
      /\ First(S, m) \cup page = First(S, m + size)
      /\ more => size = k
      /\ ~more => m + size = Cardinality(S)
  <2>1. /\ page \subseteq S /\ Cardinality(page) \in Nat
        /\ m + Cardinality(page) <= Cardinality(S)
        /\ First(S, m) \cup page = First(S, m + Cardinality(page))
        /\ m + k < Cardinality(S) => Cardinality(page) = k
        /\ ~(m + k < Cardinality(S)) => m + Cardinality(page) = Cardinality(S)
    <3>1. LET P == Slice(S, m, m + k) IN
          /\ P \subseteq S /\ Cardinality(P) \in Nat
          /\ m + Cardinality(P) <= Cardinality(S)
          /\ First(S, m) \cup P = First(S, m + Cardinality(P))
          /\ m + k < Cardinality(S) => Cardinality(P) = k
          /\ ~(m + k < Cardinality(S)) => m + Cardinality(P) = Cardinality(S)
      BY <1>1, PageAnswered
    <3> QED BY <1>3, <3>1
  <2> QED BY <1>3, <2>1
<1>7. ASSUME more
      PROVE  /\ score \in Nat /\ next \in Nat
             /\ m + size = Cardinality(Above(S, score)) + next
             /\ \A e \in S : Rank(S, e) < m + size => e.score >= score
  <2>1. page = Slice(S, m, m + k) /\ m + k < Cardinality(S) /\ size = k
    BY <1>3, <1>6, <1>7
  <2>2. LET P == Slice(S, m, m + k)
            sc == Last(P).score
            nx == Cardinality({e \in P : e.score = sc})
                     + IF sc = max THEN offset ELSE 0 IN
        /\ sc \in Nat /\ nx \in Nat
        /\ m + k = Cardinality(Above(S, sc)) + nx
        /\ \A e \in S : Rank(S, e) < m + k => e.score >= sc
    <3>1. S \in SUBSET FeedEntry /\ IsFiniteSet(S) /\ m \in Nat /\ k \in Nat \ {0}
          /\ max \in Nat /\ offset \in Nat
      BY <1>1
    <3>2. m + k < Cardinality(S) /\ m = Cardinality(Above(S, max)) + offset
      BY <1>2, <2>1
    <3>3. \A e \in S : Rank(S, e) < m => e.score >= max
      BY <1>2
    <3> HIDE <1>1, <1>2, <1>3, <1>6, <1>7, <2>1
    <3> QED BY <3>1, <3>2, <3>3, CursorMoves
  <2> QED BY <1>5, <2>1, <2>2
<1> HIDE DEF score, size
<1>8. t \in SessionRec
  <2>1. /\ m + size \in Nat /\ s.seen \cup page \in SUBSET FeedEntry
        /\ s.shown \cup (page \cap V) \in SUBSET FeedEntry
    BY <1>1, <1>6 DEF SessionRec
  <2>2. IF more THEN score \in Nat /\ next \in Nat ELSE TRUE
    BY <1>7
  <2> QED BY <2>1, <2>2 DEF SessionRec, m
<1>9. /\ t.pc = IF more THEN "paging" ELSE "done"
      /\ more => t.max = score /\ t.offset = next
      /\ t.members = s.members /\ t.count = s.count
      /\ t.taken = S /\ t.seen = s.seen \cup page
      /\ t.served = m + size /\ t.shown = s.shown \cup (page \cap V)
      /\ t.steady = s.steady
  BY DEF SessionRec, S, m
<1> HIDE DEF t
<1>10. Copied(t)
  BY <1>9 DEF Copied, S
<1>11. Answered(t)
  BY <1>1, <1>4, <1>6, <1>9 DEF Answered
<1>12. AtCursor(t)
  BY <1>7, <1>9 DEF AtCursor
<1>13. NextPageRead(t) /\ SteadyShown(t, V)
  BY <1>9 DEF NextPageRead, SteadyShown, S
<1>14. Good(t, V)
  BY <1>8, <1>10, <1>11, <1>12, <1>13
<1> QED BY <1>14 DEF t, page, more, score, next, size

-----------------------------------------------------------------------------
(* The reader's session *)

LEMMA TimeStep ==
  ASSUME TypeOK, BlogInv, TimeInv, [Next]_indexVars
  PROVE  TimeInv'
<1> USE DEF TimeInv
<1>1. CASE \E a \in Authors : Store(a)
  <2>1. PICK a \in Authors : Store(a)
    BY <1>1
  <2>2. now' = now /\ \A b \in posted' : b \in posted \/ b.at \in Stamps
    BY <2>1 DEF Store
  <2> QED BY <2>2 DEF Stamps, MaxScore
<1>2. CASE posted' = posted
  <2>1. now' = now \/ (now < MaxTime /\ now' = now + 1)
    BY DEF Next, indexVars, PublishStep, Store, QueryFollowers, PushBatch, PushDone,
           PublishFails, Follow, Unfollow, DeleteBlog, RebuildStep, RebuildQuery,
           RebuildBatch, RebuildSwap, RebuildFails, LoseTemporary, LoseLive, Tick
  <2>2. \A b \in posted : b.at \in Nat
    BY DEF TypeOK, Blog
  <2> QED BY <1>2, <2>1, <2>2, FeedAssumption DEF MaxScore
<1> QED BY <1>1, <1>2, PostedGrows

\* What an index holds can be copied: finitely many, below MaxScore.
LEMMA LiveFinite ==
  ASSUME TypeOK, BlogInv, EntriesInv, TimeInv, NEW r \in Readers
  PROVE  /\ live[r] \in SUBSET FeedEntry /\ IsFiniteSet(live[r])
         /\ \A e \in live[r] : e.score <= MaxScore
<1> DEFINE P == {EntryOf(b) : b \in posted}
           f == [b \in posted |-> EntryOf(b)]
<1>1. f \in Surjection(posted, P)
  BY DEF Surjection
<1>2. IsFiniteSet(P)
  BY <1>1, FS_Surjection DEF BlogInv
<1>3. live[r] \subseteq P
  BY DEF EntriesInv
<1>4. IsFiniteSet(live[r])
  BY <1>2, <1>3, FS_Subset
<1>5. ASSUME NEW e \in live[r]
      PROVE  e.score <= MaxScore
  <2>1. PICK b \in posted : e = EntryOf(b)
    BY DEF EntriesInv
  <2>2. e.score = b.at /\ b.at \in Nat
    BY <2>1 DEF EntryOf, TypeOK, Blog
  <2> QED BY <2>2, FeedAssumption DEF TimeInv, MaxScore
<1> QED BY <1>4, <1>5 DEF TypeOK

LEMMA SessionMoves ==
  ASSUME FeedInv, TimeInv, PageInv, NEW r \in Readers, PageStep(r)
  PROVE  \/ session'[r] \in {NoSession, Conflict}
         \/ Good(session'[r], VisibleTo(r))
<1> USE DEF FeedInv, PageInv
<1> DEFINE V == VisibleTo(r)
<1>1. CASE Open(r)
  <2> DEFINE W == {EntryOf(b) : b \in {c \in Rows :
                      Visible(r, c) /\ EntryOf(c) \in live[r]}}
  <2>1. W \in SUBSET live[r] /\ W \subseteq V
    BY DEF VisibleTo
  <2>2. /\ live[r] \in SUBSET FeedEntry /\ IsFiniteSet(live[r])
        /\ \A e \in live[r] : e.score <= MaxScore
    BY LiveFinite
  <2>3. MaxScore \in Nat
    BY FeedAssumption DEF MaxScore
  <2>4. session'[r] =
           [pc |-> "paging", members |-> live[r],
            counted |-> TRUE, count |-> Cardinality(live[r]),
            max |-> MaxScore, offset |-> 0,
            page |-> {}, more |-> FALSE,
            taken |-> live[r], seen |-> {}, served |-> 0, shown |-> {},
            steady |-> W]
    BY <1>1 DEF Open
  <2> HIDE DEF W, V
  <2>5. Good(session'[r], V)
    BY <2>1, <2>2, <2>3, <2>4, OpenGood
  <2> QED BY <2>5 DEF V
<1>2. ASSUME session[r].pc \in {"paging", "rows"}
      PROVE  Good(session[r], V)
  BY <1>2 DEF NoSession, Conflict
<1>3. CASE LoseMembers(r)
  <2>1. session'[r] = [session[r] EXCEPT !.members = {}]
    BY <1>3 DEF LoseMembers
  <2> QED BY <1>2, <1>3, <2>1, LossGood DEF LoseMembers
<1>4. CASE LoseCount(r)
  <2>1. session'[r] = [session[r] EXCEPT !.counted = FALSE]
    BY <1>4 DEF LoseCount
  <2> QED BY <1>2, <1>4, <2>1, LossGood DEF LoseCount
<1>5. CASE ReadPage(r)
  <2> DEFINE s == session[r]
             entries(size) == Window(s.members, s.max, s.offset, Limit(size))
             page(size) == {e \in entries(size) : Rank(entries(size), e) < size}
  <2>1. PICK size \in Sizes :
           session' = [session EXCEPT
                         ![r].pc = "rows", ![r].page = page(size),
                         ![r].more = Cardinality(entries(size)) > size]
    BY <1>5 DEF ReadPage
  <2>2. session'[r] = [session[r] EXCEPT
                         !.pc = "rows", !.page = page(size),
                         !.more = Cardinality(entries(size)) > size]
    BY <2>1
  <2>3. Good(s, V) /\ s.pc = "paging" /\ SnapshotIntact(s)
    BY <1>2, <1>5 DEF ReadPage
  <2>4. Good([s EXCEPT !.pc = "rows", !.page = page(size),
                       !.more = Cardinality(entries(size)) > size], V)
    BY <2>3, ReadGood
  <2> QED BY <2>2, <2>4
<1>6. CASE ReadConflict(r)
  <2>1. session'[r] = [NoSession EXCEPT !.pc = "conflict"]
    BY <1>6 DEF ReadConflict
  <2> QED BY <2>1 DEF NoSession, Conflict
<1>7. CASE AnswerPage(r)
  <2> DEFINE s == session[r]
             t == [s EXCEPT
                     !.pc = IF s.more THEN "paging" ELSE "done",
                     !.max = IF s.more THEN Last(s.page).score ELSE @,
                     !.offset = IF s.more THEN NextOffset(s) ELSE @,
                     !.page = {}, !.more = FALSE,
                     !.seen = @ \cup s.page,
                     !.served = @ + Cardinality(s.page),
                     !.shown = @ \cup (s.page \cap V)]
  <2>1. session' = [session EXCEPT ![r] = t]
    BY <1>7 DEF AnswerPage, ShownOf
  <2>2. Good(s, V) /\ s.pc = "rows"
    BY <1>2, <1>7 DEF AnswerPage
  <2>3. Good(t, V)
    BY <2>2, AnswerGood
  <2> HIDE DEF t
  <2> QED BY <2>1, <2>3
<1>8. CASE AnswerLost(r)
  <2>1. session'[r] = [session[r] EXCEPT !.pc = "paging", !.page = {}, !.more = FALSE]
    BY <1>8 DEF AnswerLost
  <2> QED BY <1>2, <1>8, <2>1, LossGood DEF AnswerLost
<1> QED BY <1>1, <1>3, <1>4, <1>5, <1>6, <1>7, <1>8 DEF PageStep

LEMMA PageInvStep ==
  ASSUME FeedInv, TimeInv, PageInv, [NextPage]_vars
  PROVE  PageInv'
<1> USE DEF PageInv
<1>1. CASE IndexStep
  <2>1. DOMAIN session' = Readers
    BY <1>1 DEF IndexStep
  <2>2. ASSUME NEW r \in Readers
        PROVE  \/ session'[r] \in {NoSession, Conflict}
               \/ Good(session'[r], VisibleTo(r)')
    <3>1. CASE session[r] \in {NoSession, Conflict}
      <4>1. ~Paging(session[r])
        BY <3>1 DEF Paging, NoSession, Conflict
      <4> QED BY <1>1, <3>1, <4>1 DEF IndexStep
    <3>2. CASE Good(session[r], VisibleTo(r))
      <4>1. Paging(session[r])
        BY <3>2 DEF Paging, Good, SessionRec
      <4>2. session'[r] = [session[r] EXCEPT !.steady = @ \cap VisibleTo(r)']
        BY <1>1, <4>1 DEF IndexStep
      <4> QED BY <3>2, <4>2, SteadyGood
    <3> QED BY <3>1, <3>2
  <2> QED BY <2>1, <2>2
<1>2. ASSUME UNCHANGED indexVars, NEW r \in Readers
      PROVE  VisibleTo(r)' = VisibleTo(r)
  BY <1>2 DEF VisibleTo, Visible, Rows, indexVars
<1>3. CASE \E q \in Readers : PageStep(q)
  <2>1. PICK q \in Readers : PageStep(q)
    BY <1>3
  <2>2. /\ UNCHANGED indexVars /\ DOMAIN session' = Readers
        /\ \A r \in Readers \ {q} : session'[r] = session[r]
    BY <2>1 DEF PageStep, Open, LoseMembers, LoseCount, ReadPage, ReadConflict,
                AnswerPage, AnswerLost
  <2> QED BY <1>2, <2>1, <2>2, SessionMoves
<1>4. CASE UNCHANGED vars
  <2>1. UNCHANGED indexVars /\ UNCHANGED session
    BY <1>4 DEF vars
  <2> QED BY <1>2, <2>1
<1> QED BY <1>1, <1>3, <1>4 DEF NextPage

\* Sessions are good, whatever the index does meanwhile.
THEOREM PageInvariant == SpecPage => [](FeedInv /\ TimeInv /\ PageInv)
<1>1. SpecPage => Spec
  <2>1. InitPage => Init
    BY DEF InitPage
  <2>2. [NextPage]_vars => [Next]_indexVars
    BY DEF NextPage, IndexStep, PageStep, Open, LoseMembers, LoseCount, ReadPage,
           ReadConflict, AnswerPage, AnswerLost, vars
  <2> QED BY <2>1, <2>2, PTL DEF SpecPage, Spec
<1>2. InitPage => TimeInv /\ PageInv
  BY FeedAssumption DEF InitPage, Init, TimeInv, PageInv, MaxScore
<1>3. ASSUME FeedInv, TimeInv, PageInv, [NextPage]_vars
      PROVE  TimeInv' /\ PageInv'
  <2>1. [Next]_indexVars
    BY <1>3 DEF NextPage, IndexStep, PageStep, Open, LoseMembers, LoseCount, ReadPage,
           ReadConflict, AnswerPage, AnswerLost, vars
  <2>2. TimeInv'
    BY <1>3, <2>1, TimeStep DEF FeedInv
  <2>3. PageInv'
    BY <1>3, PageInvStep
  <2> QED BY <2>2, <2>3
<1> QED BY <1>1, <1>2, <1>3, FeedInvariant, PTL DEF SpecPage

\* Pages neither repeat nor skip entries, for any page sizes (ReadFeed and the
\* page script).
THEOREM PagesAlwaysConsecutive == SpecPage => []PagesAreConsecutive
<1>1. PageInv => PagesAreConsecutive
  <2> SUFFICES ASSUME PageInv, NEW r \in Readers, Paging(session[r])
               PROVE  LET s == session[r] IN
                      /\ s.served = Cardinality(s.seen)
                      /\ s.seen = {e \in s.taken : Rank(s.taken, e) < s.served}
    BY DEF PagesAreConsecutive
  <2> DEFINE s == session[r]
  <2>1. Good(s, VisibleTo(r))
    BY DEF PageInv, Paging, NoSession, Conflict
  <2>2. /\ s.taken \in SUBSET FeedEntry /\ IsFiniteSet(s.taken) /\ s.served \in Nat
        /\ s.served <= Cardinality(s.taken) /\ s.seen = First(s.taken, s.served)
    BY <2>1 DEF Good, SessionRec, Copied, Answered
  <2>3. Cardinality(First(s.taken, s.served)) = s.served
    BY <2>2, FirstSize
  <2> QED BY <2>2, <2>3 DEF First
<1> QED BY <1>1, PageInvariant, PTL

\* The last page is answered when the whole copy was, and never before.
THEOREM DoneAlwaysMeansAll == SpecPage => []DoneMeansAll
<1>1. PageInv => DoneMeansAll
  <2> SUFFICES ASSUME PageInv, NEW r \in Readers, session[r].pc = "done"
               PROVE  session[r].seen = session[r].taken
    BY DEF DoneMeansAll
  <2> DEFINE s == session[r]
  <2>1. Good(s, VisibleTo(r))
    BY DEF PageInv, NoSession, Conflict
  <2>2. /\ s.taken \in SUBSET FeedEntry /\ IsFiniteSet(s.taken) /\ s.served \in Nat
        /\ s.served = Cardinality(s.taken) /\ s.seen = First(s.taken, s.served)
    BY <2>1 DEF Good, SessionRec, Copied, Answered
  <2>3. First(s.taken, s.served) = s.taken
    BY <2>2, FirstSize
  <2> QED BY <2>2, <2>3
<1> QED BY <1>1, PageInvariant, PTL

\* A blog that stayed in sight from the first request to the last was shown.
THEOREM SteadyAlwaysShown == SpecPage => []SteadyIsShown
<1>1. PageInv => SteadyIsShown
  <2> SUFFICES ASSUME PageInv, NEW r \in Readers, session[r].pc = "done"
               PROVE  session[r].steady \subseteq session[r].shown
    BY DEF SteadyIsShown
  <2> DEFINE s == session[r]
  <2>1. Good(s, VisibleTo(r))
    BY DEF PageInv, NoSession, Conflict
  <2>2. /\ s.taken \in SUBSET FeedEntry /\ IsFiniteSet(s.taken) /\ s.served \in Nat
        /\ s.served = Cardinality(s.taken) /\ s.seen = First(s.taken, s.served)
    BY <2>1 DEF Good, SessionRec, Copied, Answered
  <2>3. First(s.taken, s.served) = s.taken
    BY <2>2, FirstSize
  <2> QED BY <2>1, <2>2, <2>3 DEF Good, SteadyShown
<1> QED BY <1>1, PageInvariant, PTL
=============================================================================
