---------------------------- MODULE Likes_proofs -----------------------------
(***************************************************************************)
(* The safety properties of Likes for any number of users, blogs and       *)
(* requests and any window and page.  Two facts make them inductive: a     *)
(* request that is going to write holds the lock of its blog, so that what *)
(* it has read is still true; and the likes waiting for a message are      *)
(* exactly the requests in notifyLike.                                     *)
(***************************************************************************)
EXTENDS Likes, FiniteSetTheorems, TLAPS

\* Between its count and its COMMIT nobody else touches the blog or its likes.
LockInv ==
    \A r \in Requests :
       request[r].pc = "write" =>
          /\ lock[request[r].pair[1]] = r
          /\ request[r].pair[1] \in blogs
          /\ Changes(request[r].pair, request[r].liked)

Waiting(p) == {r \in Requests : request[r].pc = "notify"
                                /\ request[r].pair = p}

DueInv == \A p \in Pairs : due[p] = Cardinality(Waiting(p))

StreamInv ==
    /\ IsFiniteSet(stream)
    /\ cursor <= added
    /\ \A m \in stream : m.id <= added

LikesInv ==
    /\ TypeOK /\ LockInv /\ DueInv /\ StreamInv
    /\ ConstraintsNeverFire /\ CursorNeverSkips

-----------------------------------------------------------------------------
(* Requests and books *)

LEMMA WaitingFinite ==
  ASSUME NEW p \in Pairs
  PROVE  IsFiniteSet(Waiting(p)) /\ Cardinality(Waiting(p)) \in Nat
BY LikesAssumption, FS_Subset, FS_CardinalityType DEF Waiting, LikesAssumption

LEMMA RequestFields ==
  ASSUME NEW step \in {"lock", "write", "notify"}, NEW p \in Pairs,
         NEW liked \in BOOLEAN
  PROVE  /\ Request(step, p, liked) \in Busy
         /\ Request(step, p, liked).pc = step
         /\ Request(step, p, liked).pair = p
         /\ Request(step, p, liked).liked = liked
BY DEF Request, Busy

LEMMA IdleFields == Idle.pc = "idle"
BY DEF Idle

LEMMA BlogOfPair ==
  ASSUME NEW p \in Pairs
  PROVE  p[1] \in Blogs
BY DEF Pairs

LEMMA BusyRequest ==
  ASSUME TypeOK, NEW r \in Requests,
         request[r].pc \in {"lock", "write", "notify"}
  PROVE  /\ request[r] \in Busy
         /\ request[r].pair \in Pairs
         /\ request[r].pair[1] \in Blogs
         /\ request[r].liked \in BOOLEAN
<1>1. request[r] \in {Idle} \cup Busy
  BY DEF TypeOK
<1>2. request[r] \in Busy
  BY <1>1, IdleFields
<1>3. request[r].pair \in Pairs /\ request[r].liked \in BOOLEAN
  BY <1>2 DEF Busy
<1> QED BY <1>2, <1>3, BlogOfPair

LEMMA RequestSet ==
  ASSUME TypeOK, NEW r \in Requests, NEW v \in {Idle} \cup Busy,
         request' = [request EXCEPT ![r] = v]
  PROVE  /\ request' \in [Requests -> {Idle} \cup Busy]
         /\ request'[r] = v
         /\ \A q \in Requests \ {r} : request'[q] = request[q]
BY DEF TypeOK

\* A request that neither joins nor leaves notifyLike leaves the books alone.
LEMMA DueUnmoved ==
  ASSUME DueInv, due' = due, NEW r \in Requests,
         \A q \in Requests \ {r} : request'[q] = request[q],
         request[r].pc # "notify", request'[r].pc # "notify"
  PROVE  DueInv'
<1>1. ASSUME NEW p \in Pairs PROVE Waiting(p)' = Waiting(p)
  BY DEF Waiting
<1> QED BY <1>1 DEF DueInv

LEMMA StreamUnmoved ==
  ASSUME StreamInv, CursorNeverSkips, ConstraintsNeverFire,
         UNCHANGED <<stream, added, cursor, inbox, clashed>>
  PROVE  StreamInv' /\ CursorNeverSkips' /\ ConstraintsNeverFire'
BY DEF StreamInv, ConstraintsNeverFire, CursorNeverSkips, Ids

LEMMA InitLikes == Init => LikesInv
<1> SUFFICES ASSUME Init PROVE LikesInv
  OBVIOUS
<1>1. TypeOK
  <2>1. /\ lock \in [Blogs -> Requests \cup {NoRequest}]
        /\ request \in [Requests -> {Idle} \cup Busy]
        /\ due \in [Pairs -> Int]
    BY DEF Init
  <2>2. blogs \subseteq Blogs /\ likes \subseteq Pairs /\ stream \subseteq Message
    BY DEF Init
  <2>3. /\ clashed \in BOOLEAN /\ added \in Nat /\ cursor \in Nat
        /\ inbox \subseteq Nat /\ faults \in Nat
    BY DEF Init
  <2> QED BY <2>1, <2>2, <2>3 DEF TypeOK
<1>2. LockInv
  BY IdleFields DEF Init, LockInv
<1>3. ConstraintsNeverFire /\ CursorNeverSkips
  BY DEF Init, ConstraintsNeverFire, CursorNeverSkips, Ids
<1>4. \A p \in Pairs : Waiting(p) = {}
  BY IdleFields DEF Init, Waiting
<1>5. DueInv
  BY <1>4, FS_EmptySet DEF Init, DueInv
<1>6. StreamInv
  BY FS_EmptySet DEF Init, StreamInv
<1> QED BY <1>1, <1>2, <1>3, <1>5, <1>6 DEF LikesInv
-----------------------------------------------------------------------------
(* Blog.Like *)

LEMMA ReadKeeps ==
  ASSUME LikesInv, NEW r \in Requests, NEW p \in Pairs, NEW liked \in BOOLEAN,
         LikeRead(r, p, liked)
  PROVE  LikesInv'
<1> DEFINE v == Request("lock", p, liked)
<1>0. /\ request' = [request EXCEPT ![r] = v]
      /\ request[r] = Idle
      /\ UNCHANGED <<blogs, likes, lock, clashed, stream, added, cursor,
                     inbox, due, faults>>
  BY DEF LikeRead, tableVars, readerVars
<1>1. v \in Busy /\ v.pc = "lock"
  BY RequestFields
<1> HIDE DEF v
<1>2. /\ request' \in [Requests -> {Idle} \cup Busy]
      /\ request'[r] = v
      /\ \A q \in Requests \ {r} : request'[q] = request[q]
  BY <1>0, <1>1, RequestSet DEF LikesInv
<1>3. TypeOK'
  BY <1>0, <1>2 DEF LikesInv, TypeOK
<1>4. LockInv'
  BY <1>0, <1>1, <1>2 DEF LikesInv, LockInv, Changes
<1>5. DueInv'
  BY <1>0, <1>1, <1>2, IdleFields, DueUnmoved DEF LikesInv
<1>6. StreamInv' /\ CursorNeverSkips' /\ ConstraintsNeverFire'
  BY <1>0, StreamUnmoved DEF LikesInv
<1> QED BY <1>3, <1>4, <1>5, <1>6 DEF LikesInv

LEMMA LockKeeps ==
  ASSUME LikesInv, NEW r \in Requests, LikeLock(r)
  PROVE  LikesInv'
<1> DEFINE p == request[r].pair
           liked == request[r].liked
           goesOn == p[1] \in blogs /\ Changes(p, liked)
           v == IF goesOn THEN Request("write", p, liked) ELSE Idle
<1>0. /\ request[r].pc = "lock"
      /\ lock[p[1]] = NoRequest
      /\ request' = [request EXCEPT ![r] = v]
      /\ lock' = IF goesOn THEN [lock EXCEPT ![p[1]] = r] ELSE lock
      /\ UNCHANGED <<blogs, likes, clashed, stream, added, cursor, inbox, due,
                     faults>>
  BY DEF LikeLock, readerVars, Unlocked
<1>1. p \in Pairs /\ p[1] \in Blogs /\ liked \in BOOLEAN
  BY <1>0, BusyRequest DEF LikesInv
<1>2. /\ v \in {Idle} \cup Busy
      /\ v.pc # "notify"
      /\ v.pc = "write" => goesOn /\ v.pair = p /\ v.liked = liked
  BY <1>1, RequestFields, IdleFields
<1> HIDE DEF v
<1>3. /\ request' \in [Requests -> {Idle} \cup Busy]
      /\ request'[r] = v
      /\ \A q \in Requests \ {r} : request'[q] = request[q]
  BY <1>0, <1>2, RequestSet DEF LikesInv
<1>4. TypeOK'
  <2>1. lock' \in [Blogs -> Requests \cup {NoRequest}]
    BY <1>0 DEF LikesInv, TypeOK
  <2> QED BY <1>0, <1>3, <2>1 DEF LikesInv, TypeOK
<1>5. LockInv'
  <2> SUFFICES ASSUME NEW q \in Requests, request'[q].pc = "write"
               PROVE  /\ lock'[request'[q].pair[1]] = q
                      /\ request'[q].pair[1] \in blogs'
                      /\ Changes(request[q].pair, request[q].liked)'
    BY DEF LockInv
  <2>1. CASE q = r
    <3>1. goesOn /\ request'[q].pair = p /\ request'[q].liked = liked
      BY <1>2, <1>3, <2>1
    <3>2. lock'[p[1]] = r
      BY <1>0, <1>1, <3>1 DEF LikesInv, TypeOK
    <3> QED BY <1>0, <2>1, <3>1, <3>2 DEF Changes
  <2>2. CASE q # r
    <3>1. request'[q] = request[q]
      BY <1>3, <2>2
    <3>2. /\ lock[request[q].pair[1]] = q
          /\ request[q].pair[1] \in blogs
          /\ Changes(request[q].pair, request[q].liked)
      BY <3>1 DEF LikesInv, LockInv
    <3>3. request[q].pair[1] # p[1]
      BY <1>0, <3>2, LikesAssumption DEF LikesAssumption
    <3>4. lock'[request[q].pair[1]] = q
      BY <1>0, <3>2, <3>3 DEF LikesInv, TypeOK
    <3> QED BY <1>0, <3>1, <3>2, <3>4 DEF Changes
  <2> QED BY <2>1, <2>2
<1>6. DueInv'
  BY <1>0, <1>2, <1>3, DueUnmoved DEF LikesInv
<1>7. StreamInv' /\ CursorNeverSkips' /\ ConstraintsNeverFire'
  BY <1>0, StreamUnmoved DEF LikesInv
<1> QED BY <1>4, <1>5, <1>6, <1>7 DEF LikesInv

\* What the COMMIT of r does to its like.
Committed(r) ==
    IF request[r].liked THEN likes \cup {request[r].pair}
    ELSE likes \ {request[r].pair}

\* Another transaction that is going to write has another blog: what it has
\* read is still true.
LEMMA CommitKeepsLocks ==
  ASSUME TypeOK, LockInv, NEW r \in Requests, request[r].pc = "write",
         lock' = [lock EXCEPT ![request[r].pair[1]] = NoRequest],
         likes' = likes \/ likes' = Committed(r), blogs' = blogs,
         \A q \in Requests \ {r} : request'[q] = request[q],
         request'[r].pc # "write"
  PROVE  LockInv'
<1> SUFFICES ASSUME NEW q \in Requests, request'[q].pc = "write"
             PROVE  /\ lock'[request'[q].pair[1]] = q
                    /\ request'[q].pair[1] \in blogs'
                    /\ Changes(request[q].pair, request[q].liked)'
  BY DEF LockInv
<1>1. q # r /\ request'[q] = request[q]
  OBVIOUS
<1>2. request[q].pair[1] \in Blogs
  BY <1>1, BusyRequest
<1>3. /\ lock[request[q].pair[1]] = q /\ lock[request[r].pair[1]] = r
      /\ request[q].pair[1] \in blogs
      /\ Changes(request[q].pair, request[q].liked)
  BY <1>1 DEF LockInv
<1>4. request[q].pair[1] # request[r].pair[1]
  BY <1>1, <1>3
<1>5. request[q].pair \in likes' <=> request[q].pair \in likes
  BY <1>4 DEF Committed
<1>6. lock'[request[q].pair[1]] = q
  BY <1>2, <1>3, <1>4 DEF TypeOK
<1> QED BY <1>1, <1>3, <1>5, <1>6 DEF Changes

LEMMA WriteKeeps ==
  ASSUME LikesInv, NEW r \in Requests, LikeWrite(r)
  PROVE  LikesInv'
<1> DEFINE p == request[r].pair
           liked == request[r].liked
           v == IF Audience(p, liked) THEN Request("notify", p, liked)
                ELSE Idle
<1>0. request[r].pc = "write" /\ Changes(p, liked) /\ ~Clash(p, liked)
  BY DEF LikeWrite, LikesInv, LockInv, Changes, Clash
<1>1. /\ lock' = [lock EXCEPT ![p[1]] = NoRequest]
      /\ clashed' = clashed
      /\ likes' = Committed(r)
      /\ request' = [request EXCEPT ![r] = v]
      /\ due' = [q \in Pairs |-> IF q \in likes' \ likes /\ q[2] # Author
                                 THEN due[q] + 1 ELSE due[q]]
      /\ UNCHANGED <<blogs, stream, added, cursor, inbox, faults>>
  BY <1>0 DEF LikeWrite, Committed, readerVars, LikesInv, TypeOK
<1>2. p \in Pairs /\ p[1] \in Blogs /\ liked \in BOOLEAN
  BY <1>0, BusyRequest DEF LikesInv
<1>3. /\ v \in {Idle} \cup Busy
      /\ v.pc # "write"
      /\ v.pc = "notify" <=> Audience(p, liked)
      /\ v.pc = "notify" => v.pair = p
  BY <1>2, RequestFields, IdleFields
<1> HIDE DEF v
<1>4. /\ request' \in [Requests -> {Idle} \cup Busy]
      /\ request'[r] = v
      /\ \A q \in Requests \ {r} : request'[q] = request[q]
  BY <1>1, <1>3, RequestSet DEF LikesInv
<1>5. TypeOK'
  <2>1. lock' \in [Blogs -> Requests \cup {NoRequest}]
    BY <1>1 DEF LikesInv, TypeOK
  <2>2. likes' \subseteq Pairs
    BY <1>1, <1>2 DEF LikesInv, TypeOK, Committed
  <2>3. due' \in [Pairs -> Int]
    BY <1>1 DEF LikesInv, TypeOK
  <2> QED BY <1>1, <1>4, <2>1, <2>2, <2>3 DEF LikesInv, TypeOK
<1>6. LockInv'
  BY <1>0, <1>1, <1>3, <1>4, CommitKeepsLocks DEF LikesInv
<1>7. DueInv'
  <2> SUFFICES ASSUME NEW q \in Pairs
               PROVE  due'[q] = Cardinality(Waiting(q)')
    BY DEF DueInv
  <2>0. due[q] = Cardinality(Waiting(q)) /\ r \notin Waiting(q)
    BY <1>0 DEF LikesInv, DueInv, Waiting
  <2>1. CASE q = p /\ Audience(p, liked)
    <3>1. Waiting(q)' = Waiting(q) \cup {r}
      BY <1>3, <1>4, <2>1 DEF Waiting
    <3>2. q \in likes' \ likes /\ q[2] # Author
      <4>1. liked = TRUE /\ q[2] # Author
        BY <1>2, <2>1 DEF Audience
      <4>2. p \notin likes
        BY <1>0, <4>1 DEF Changes
      <4>3. p \in likes'
        BY <1>1, <4>1 DEF Committed
      <4> QED BY <2>1, <4>1, <4>2, <4>3
    <3>3. due'[q] = due[q] + 1
      BY <1>1, <3>2
    <3> QED BY <2>0, <3>1, <3>3, WaitingFinite, FS_AddElement
  <2>2. CASE ~(q = p /\ Audience(p, liked))
    <3>1. Waiting(q)' = Waiting(q)
      BY <1>0, <1>3, <1>4, <2>2 DEF Waiting
    <3>2. due'[q] = due[q]
      BY <1>0, <1>1, <2>2 DEF Audience, Changes, Committed
    <3> QED BY <2>0, <3>1, <3>2
  <2> QED BY <2>1, <2>2
<1>8. StreamInv' /\ CursorNeverSkips' /\ ConstraintsNeverFire'
  BY <1>1, StreamUnmoved DEF LikesInv
<1> QED BY <1>5, <1>6, <1>7, <1>8 DEF LikesInv

LEMMA FailKeeps ==
  ASSUME LikesInv, NEW r \in Requests, LikeFails(r)
  PROVE  LikesInv'
<1> DEFINE p == request[r].pair
<1>1. /\ request[r].pc \in {"lock", "write"}
      /\ likes' = likes \/ likes' = Committed(r)
      /\ request[r].pc = "lock" => likes' = likes /\ lock' = lock
      /\ request[r].pc = "write" => lock' = [lock EXCEPT ![p[1]] = NoRequest]
      /\ request' = [request EXCEPT ![r] = Idle]
      /\ faults' \in Nat
      /\ UNCHANGED <<blogs, clashed, stream, added, cursor, inbox, due>>
  BY DEF LikeFails, Committed, Fault, readerVars, LikesInv, TypeOK
<1>2. p \in Pairs /\ p[1] \in Blogs
  BY <1>1, BusyRequest DEF LikesInv
<1>3. /\ request' \in [Requests -> {Idle} \cup Busy]
      /\ request'[r] = Idle
      /\ \A q \in Requests \ {r} : request'[q] = request[q]
  BY <1>1, RequestSet DEF LikesInv
<1>4. TypeOK'
  <2>1. lock' \in [Blogs -> Requests \cup {NoRequest}]
    BY <1>1 DEF LikesInv, TypeOK
  <2>2. likes' \subseteq Pairs
    BY <1>1, <1>2 DEF LikesInv, TypeOK, Committed
  <2> QED BY <1>1, <1>3, <2>1, <2>2 DEF LikesInv, TypeOK
<1>5. LockInv'
  <2>1. CASE request[r].pc = "write"
    BY <1>1, <1>3, <2>1, IdleFields, CommitKeepsLocks DEF LikesInv
  <2>2. CASE request[r].pc = "lock"
    BY <1>1, <1>3, <2>2, IdleFields DEF LikesInv, LockInv, Changes
  <2> QED BY <1>1, <2>1, <2>2
<1>6. DueInv'
  BY <1>1, <1>3, IdleFields, DueUnmoved DEF LikesInv
<1>7. StreamInv' /\ CursorNeverSkips' /\ ConstraintsNeverFire'
  BY <1>1, StreamUnmoved DEF LikesInv
<1> QED BY <1>4, <1>5, <1>6, <1>7 DEF LikesInv
-----------------------------------------------------------------------------
(* notifyLike *)

\* The window only drops messages.
LEMMA TrimmedIsPart ==
  ASSUME NEW S, IsFiniteSet(S)
  PROVE  Trimmed(S) \subseteq S /\ IsFiniteSet(Trimmed(S))
BY FS_Subset DEF Trimmed

\* A new message has an ID of its own, beyond every cursor.
LEMMA AddKeeps ==
  ASSUME TypeOK, StreamInv, CursorNeverSkips, NEW p \in Pairs, AddMessage(p),
         UNCHANGED <<cursor, inbox>>
  PROVE  /\ stream' \subseteq Message
         /\ added' \in Nat
         /\ StreamInv'
         /\ CursorNeverSkips'
<1> DEFINE new == [id |-> added + 1, pair |-> p]
<1>1. added' = added + 1 /\ stream' = Trimmed(stream \cup {new})
  BY DEF AddMessage
<1>2. new \in Message /\ new.id = added + 1 /\ added + 1 \in Nat
  BY DEF TypeOK, Message
<1> HIDE DEF new
<1>3. IsFiniteSet(stream \cup {new})
  BY FS_AddElement DEF StreamInv
<1>4. stream' \subseteq stream \cup {new} /\ IsFiniteSet(stream')
  BY <1>1, <1>3, TrimmedIsPart
<1>5. \A m \in stream : m.id \in Nat /\ m.id <= added
  BY DEF TypeOK, StreamInv, Message
<1>6. StreamInv'
  <2>1. \A m \in stream' : m.id <= added + 1
    BY <1>2, <1>4, <1>5 DEF TypeOK
  <2>2. cursor <= added + 1
    BY DEF TypeOK, StreamInv
  <2> QED BY <1>1, <1>4, <2>1, <2>2 DEF StreamInv
<1>7. CursorNeverSkips'
  <2> SUFFICES ASSUME NEW m \in stream', m.id <= cursor
               PROVE  m.id \in inbox
    BY DEF CursorNeverSkips, Ids
  <2>1. m # new
    BY <1>2 DEF StreamInv, TypeOK
  <2>2. m \in stream
    BY <1>4, <2>1
  <2> QED BY <2>2 DEF CursorNeverSkips, Ids
<1>8. stream' \subseteq Message
  BY <1>2, <1>4 DEF TypeOK
<1> QED BY <1>1, <1>2, <1>6, <1>7, <1>8

\* The request that leaves notifyLike takes its like off the books.
LEMMA LeaveNotify ==
  ASSUME TypeOK, LockInv, DueInv, NEW r \in Requests,
         request[r].pc = "notify",
         request' = [request EXCEPT ![r] = Idle],
         due' = [due EXCEPT ![request[r].pair] = @ - 1],
         UNCHANGED <<blogs, likes, lock>>
  PROVE  /\ request' \in [Requests -> {Idle} \cup Busy]
         /\ due' \in [Pairs -> Int]
         /\ LockInv'
         /\ DueInv'
<1> DEFINE p == request[r].pair
<1>1. p \in Pairs
  BY BusyRequest
<1>2. /\ request' \in [Requests -> {Idle} \cup Busy]
      /\ request'[r] = Idle
      /\ \A q \in Requests \ {r} : request'[q] = request[q]
  BY RequestSet
<1>3. due' \in [Pairs -> Int]
  <2>1. due \in [Pairs -> Int] /\ due[p] - 1 \in Int
    BY <1>1 DEF TypeOK
  <2> QED BY <2>1
<1>4. LockInv'
  BY <1>2, IdleFields DEF LockInv, Changes
<1>5. DueInv'
  <2> SUFFICES ASSUME NEW q \in Pairs
               PROVE  due'[q] = Cardinality(Waiting(q)')
    BY DEF DueInv
  <2>0. due[q] = Cardinality(Waiting(q))
    BY DEF DueInv
  <2>1. CASE q = p
    <3>1. r \in Waiting(q) /\ Waiting(q)' = Waiting(q) \ {r}
      BY <1>2, <2>1, IdleFields DEF Waiting
    <3>2. due'[q] = due[q] - 1
      BY <2>1 DEF TypeOK
    <3> QED BY <2>0, <3>1, <3>2, WaitingFinite, FS_RemoveElement
  <2>2. CASE q # p
    <3>1. Waiting(q)' = Waiting(q)
      BY <1>2, <2>2, IdleFields DEF Waiting
    <3>2. due'[q] = due[q]
      BY <2>2 DEF TypeOK
    <3> QED BY <2>0, <3>1, <3>2
  <2> QED BY <2>1, <2>2
<1> QED BY <1>2, <1>3, <1>4, <1>5

LEMMA NotifyKeeps ==
  ASSUME LikesInv, NEW r \in Requests, Notify(r)
  PROVE  LikesInv'
<1>0. /\ request[r].pc = "notify"
      /\ AddMessage(request[r].pair)
      /\ due' = [due EXCEPT ![request[r].pair] = @ - 1]
      /\ request' = [request EXCEPT ![r] = Idle]
      /\ UNCHANGED <<blogs, likes, lock, clashed, cursor, inbox, faults>>
  BY DEF Notify, tableVars, readerVars
<1>1. request[r].pair \in Pairs
  BY <1>0, BusyRequest DEF LikesInv
<1>2. /\ request' \in [Requests -> {Idle} \cup Busy]
      /\ due' \in [Pairs -> Int]
      /\ LockInv' /\ DueInv'
  BY <1>0, LeaveNotify DEF LikesInv
<1>3. /\ stream' \subseteq Message /\ added' \in Nat
      /\ StreamInv' /\ CursorNeverSkips'
  BY <1>0, <1>1, AddKeeps DEF LikesInv
<1>4. TypeOK'
  BY <1>0, <1>2, <1>3 DEF LikesInv, TypeOK
<1> QED BY <1>0, <1>2, <1>3, <1>4 DEF LikesInv, ConstraintsNeverFire

LEMMA UnansweredKeeps ==
  ASSUME LikesInv, NEW r \in Requests, NotifyUnanswered(r)
  PROVE  LikesInv'
<1>0. /\ request[r].pc = "notify"
      /\ AddMessage(request[r].pair)
      /\ faults' \in Nat
      /\ UNCHANGED <<blogs, likes, lock, clashed, request, cursor, inbox, due>>
  BY DEF NotifyUnanswered, tableVars, readerVars, Fault, LikesInv, TypeOK
<1>1. request[r].pair \in Pairs
  BY <1>0, BusyRequest DEF LikesInv
<1>2. /\ stream' \subseteq Message /\ added' \in Nat
      /\ StreamInv' /\ CursorNeverSkips'
  BY <1>0, <1>1, AddKeeps DEF LikesInv
<1>3. TypeOK'
  BY <1>0, <1>2 DEF LikesInv, TypeOK
<1>4. LockInv' /\ DueInv'
  BY <1>0 DEF LikesInv, LockInv, DueInv, Waiting, Changes
<1> QED BY <1>0, <1>2, <1>3, <1>4 DEF LikesInv, ConstraintsNeverFire

LEMMA SkippedKeeps ==
  ASSUME LikesInv, NEW r \in Requests, NotifySkipped(r)
  PROVE  LikesInv'
<1>0. /\ request[r].pc = "notify"
      /\ due' = [due EXCEPT ![request[r].pair] = @ - 1]
      /\ request' = [request EXCEPT ![r] = Idle]
      /\ UNCHANGED <<blogs, likes, lock, clashed, stream, added, cursor,
                     inbox, faults>>
  BY DEF NotifySkipped, tableVars, readerVars
<1>1. /\ request' \in [Requests -> {Idle} \cup Busy]
      /\ due' \in [Pairs -> Int]
      /\ LockInv' /\ DueInv'
  BY <1>0, LeaveNotify DEF LikesInv
<1>2. StreamInv' /\ CursorNeverSkips' /\ ConstraintsNeverFire'
  BY <1>0, StreamUnmoved DEF LikesInv
<1>3. TypeOK'
  BY <1>0, <1>1 DEF LikesInv, TypeOK
<1> QED BY <1>1, <1>2, <1>3 DEF LikesInv
-----------------------------------------------------------------------------
(* Community.DeleteBlog *)

\* The row is not locked, so nobody is about to write to the blog; its likes
\* go before it, so the foreign key to blog does not fire.
LEMMA DeleteKeeps ==
  ASSUME LikesInv, NEW b \in Blogs, DeleteBlog(b)
  PROVE  LikesInv'
<1>0. /\ lock[b] = NoRequest
      /\ likes' = LikesElsewhere(b)
      /\ blogs' = blogs \ {b}
      /\ clashed' = (clashed \/ \E p \in likes' : p[1] = b)
      /\ UNCHANGED <<lock, request, stream, added, cursor, inbox, due, faults>>
  BY DEF DeleteBlog, Unlocked, readerVars
<1>1. clashed' = clashed
  BY <1>0 DEF LikesElsewhere, LikesInv, TypeOK
<1>2. TypeOK'
  BY <1>0, <1>1 DEF LikesInv, TypeOK, LikesElsewhere
<1>3. LockInv'
  <2> SUFFICES ASSUME NEW q \in Requests, request[q].pc = "write"
               PROVE  /\ lock[request[q].pair[1]] = q
                      /\ request[q].pair[1] \in blogs'
                      /\ Changes(request[q].pair, request[q].liked)'
    BY <1>0 DEF LockInv, Changes
  <2>1. /\ lock[request[q].pair[1]] = q
        /\ request[q].pair[1] \in blogs
        /\ Changes(request[q].pair, request[q].liked)
    BY DEF LikesInv, LockInv
  <2>2. request[q].pair[1] # b
    BY <1>0, <2>1, LikesAssumption DEF LikesAssumption
  <2> QED BY <1>0, <2>1, <2>2 DEF Changes, LikesElsewhere
<1>4. DueInv'
  BY <1>0 DEF LikesInv, DueInv, Waiting
<1>5. StreamInv' /\ CursorNeverSkips' /\ ConstraintsNeverFire'
  BY <1>0, <1>1, StreamUnmoved DEF LikesInv
<1> QED BY <1>2, <1>3, <1>4, <1>5 DEF LikesInv
-----------------------------------------------------------------------------
(* GET /messages/sse *)

\* A page is a prefix: whatever is older than one of its messages is on it.
LEMMA PageIsPrefix ==
  ASSUME NEW S, IsFiniteSet(S), \A m \in S : m.id \in Nat,
         NEW last \in FirstPage(S), NEW m \in S, m.id <= last.id
  PROVE  m \in FirstPage(S)
<1> DEFINE Upto(x) == {n \in S : n.id <= x.id}
<1>1. last \in S /\ Cardinality(Upto(last)) <= Page
  BY DEF FirstPage
<1>2. Upto(m) \subseteq Upto(last)
  BY <1>1
<1>3. IsFiniteSet(Upto(last))
  BY FS_Subset
<1>4. /\ Cardinality(Upto(m)) <= Cardinality(Upto(last))
      /\ Cardinality(Upto(m)) \in Nat /\ Cardinality(Upto(last)) \in Nat
  BY <1>2, <1>3, FS_Subset, FS_CardinalityType
<1>5. Cardinality(Upto(m)) <= Page
  BY <1>1, <1>4, LikesAssumption DEF LikesAssumption
<1> QED BY <1>5 DEF FirstPage

LEMMA PollKeeps ==
  ASSUME LikesInv, Poll
  PROVE  LikesInv'
<1> DEFINE A == AfterCursor
<1>0. /\ inbox' = inbox \cup {m.id : m \in FirstPage(A)}
      /\ UNCHANGED <<blogs, likes, lock, clashed, request, stream, added, due,
                     faults>>
  BY DEF Poll, tableVars
<1>1. PICK last \in FirstPage(A) : cursor' = last.id
  BY DEF Poll
<1>2. FirstPage(A) \subseteq A /\ A \subseteq stream
  BY DEF FirstPage, AfterCursor
<1>3. \A m \in stream : m.id \in Nat /\ m.id <= added
  BY DEF LikesInv, TypeOK, StreamInv, Message
<1>4. IsFiniteSet(A) /\ \A m \in A : m.id \in Nat
  BY <1>2, <1>3, FS_Subset DEF LikesInv, StreamInv
<1>5. cursor' \in Nat /\ cursor' <= added
  BY <1>1, <1>2, <1>3
<1>6. inbox' \subseteq Nat
  BY <1>0, <1>2, <1>3 DEF LikesInv, TypeOK
<1>7. TypeOK'
  BY <1>0, <1>5, <1>6 DEF LikesInv, TypeOK
<1>8. LockInv' /\ DueInv' /\ ConstraintsNeverFire'
  BY <1>0
     DEF LikesInv, LockInv, DueInv, Waiting, Changes, ConstraintsNeverFire
<1>9. StreamInv'
  BY <1>0, <1>5 DEF LikesInv, StreamInv
<1>10. CursorNeverSkips'
  <2> SUFFICES ASSUME NEW m \in stream, m.id <= last.id
               PROVE  m.id \in inbox'
    BY <1>0, <1>1 DEF CursorNeverSkips, Ids
  <2>1. CASE m.id <= cursor
    BY <1>0, <2>1 DEF LikesInv, CursorNeverSkips, Ids
  <2>2. CASE ~(m.id <= cursor)
    <3>1. m \in A
      BY <1>3, <2>2 DEF AfterCursor, LikesInv, TypeOK
    <3>2. m \in FirstPage(A)
      BY <1>4, <3>1, PageIsPrefix
    <3> QED BY <1>0, <3>2
  <2> QED BY <2>1, <2>2
<1> QED BY <1>7, <1>8, <1>9, <1>10 DEF LikesInv

LEMMA ReconnectKeeps ==
  ASSUME LikesInv, Reconnect
  PROVE  LikesInv'
<1>0. /\ cursor' = 0 /\ faults' \in Nat
      /\ UNCHANGED <<blogs, likes, lock, clashed, request, stream, added,
                     inbox, due>>
  BY DEF Reconnect, tableVars, Fault, LikesInv, TypeOK
<1>1. TypeOK'
  BY <1>0 DEF LikesInv, TypeOK
<1>2. LockInv' /\ DueInv' /\ ConstraintsNeverFire'
  BY <1>0
     DEF LikesInv, LockInv, DueInv, Waiting, Changes, ConstraintsNeverFire
<1>3. StreamInv'
  BY <1>0 DEF LikesInv, StreamInv, TypeOK
<1>4. CursorNeverSkips'
  <2>1. \A m \in stream : m.id \in Nat \ {0}
    BY DEF LikesInv, TypeOK, Message
  <2> QED BY <1>0, <2>1 DEF CursorNeverSkips, Ids
<1> QED BY <1>1, <1>2, <1>3, <1>4 DEF LikesInv

LEMMA StutterKeeps ==
  ASSUME LikesInv, UNCHANGED likeVars
  PROVE  LikesInv'
<1>0. UNCHANGED <<blogs, likes, lock, request, clashed, stream, added, cursor,
                  inbox, due, faults>>
  BY DEF likeVars
<1>1. TypeOK'
  BY <1>0 DEF LikesInv, TypeOK
<1>2. LockInv' /\ DueInv'
  BY <1>0 DEF LikesInv, LockInv, DueInv, Waiting, Changes
<1>3. StreamInv' /\ CursorNeverSkips' /\ ConstraintsNeverFire'
  BY <1>0, StreamUnmoved DEF LikesInv
<1> QED BY <1>1, <1>2, <1>3 DEF LikesInv

LEMMA StepKeeps == LikesInv /\ [Next]_likeVars => LikesInv'
<1> SUFFICES ASSUME LikesInv, [Next]_likeVars PROVE LikesInv'
  OBVIOUS
<1>1. ASSUME NEW r \in Requests, RequestStep(r) PROVE LikesInv'
  BY <1>1, ReadKeeps, LockKeeps, WriteKeeps, FailKeeps, NotifyKeeps,
     UnansweredKeeps, SkippedKeeps DEF RequestStep
<1>2. ASSUME NEW b \in Blogs, DeleteBlog(b) PROVE LikesInv'
  BY <1>2, DeleteKeeps
<1> QED BY <1>1, <1>2, PollKeeps, ReconnectKeeps, StutterKeeps DEF Next
-----------------------------------------------------------------------------
THEOREM LikesInvariant == Spec => []LikesInv
BY InitLikes, StepKeeps, PTL DEF Spec

\* However many users like, repeat, toggle and fail at once, and however often
\* deliveries are given up, no message is added without a committed like of
\* its own that waits for it.
THEOREM MessagesAlwaysEarned == Spec => []MessagesAreEarned
<1>1. LikesInv => MessagesAreEarned
  BY WaitingFinite DEF LikesInv, DueInv, MessagesAreEarned
<1> QED BY <1>1, LikesInvariant, PTL

\* The lock of the row makes check-then-write safe: neither the primary key of
\* blog_like nor its foreign key to blog ever fires.
THEOREM ConstraintsNeverEverFire == Spec => []ConstraintsNeverFire
<1>1. LikesInv => ConstraintsNeverFire
  BY DEF LikesInv
<1> QED BY <1>1, LikesInvariant, PTL

\* For any window and page: a message the cursor has passed and the stream
\* still holds was received.
THEOREM CursorNeverEverSkips == Spec => []CursorNeverSkips
<1>1. LikesInv => CursorNeverSkips
  BY DEF LikesInv
<1> QED BY <1>1, LikesInvariant, PTL
=============================================================================
