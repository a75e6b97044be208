----------------------------- MODULE ShopCache ------------------------------
(***************************************************************************)
(* The shop detail cache: server processes that answer from Redis, merge   *)
(* rebuilds per shop in a bounded singleflight, and publish by compare and *)
(* set; the maintenance command that commits to MySQL and then deletes the *)
(* key.  The shutdown that cancels and drains the rebuilds is taken by     *)
(* module Server.                                                          *)
(*                                                                         *)
(* Granularity: one action per Redis command, MySQL statement or critical  *)
(* section of Shop.mu.  Answers taken straight from a fresh or negative    *)
(* entry change nothing and are left out, as are Types and List, which do  *)
(* not use the cache.  A cached record is identified by its stamp: a new   *)
(* record never has the bytes of one that somebody still holds as token,   *)
(* as its times are in nanoseconds with a random part.                     *)
(***************************************************************************)
EXTENDS Naturals, Sequences, FiniteSets

CONSTANTS
    Procs,       \* server processes sharing one Redis
    Shops,       \* shop IDs
    Readers,     \* concurrent GET /shops/:id requests
    Editors,     \* concurrent runs of shop-update
    MaxRefresh,  \* rebuilds a process runs at once (64 in the code)
    FreshTTL,    \* time to the logical expiry of a row (30 to 35 minutes)
    StaleTTL,    \* time from logical to hard expiry (5 minutes)
    AbsentTTL,   \* lifetime of a negative entry (30 to 45 s, always shorter)
    Backoff,     \* delay after a failed rebuild (5 s)
    MaxTime,     \* bound: the clock stops here
    MaxCommits,  \* bound: committed states of one row
    MaxFaults    \* bound: failed calls

ASSUME CacheAssumption ==
    /\ IsFiniteSet(Procs)
    /\ MaxRefresh \in Nat \ {0}
    /\ FreshTTL \in Nat \ {0} /\ StaleTTL \in Nat \ {0}
    /\ AbsentTTL \in 1 .. FreshTTL + StaleTTL /\ Backoff \in Nat \ {0}
    /\ MaxTime \in Nat /\ MaxCommits \in Nat \ {0} /\ MaxFaults \in Nat

VARIABLES
    rows,        \* [Shops -> the committed states of the row, in order:
                 \*           TRUE if it existed]
    cache,       \* [Shops -> the record under the shop's key, or NoEntry]
    job,         \* [Procs -> [Shops -> the rebuild in flight, or NoJob]]
    closer,      \* [Procs -> how far the shutdown of the process is]
    drains,      \* [Procs -> how often its drained channel was closed]
    reader,      \* [Readers -> where the request is]
    editor,      \* [Editors -> the committed update it has to invalidate]
    invalidated, \* [Shops -> the last commit whose DEL succeeded]
    now, faults

vars == <<rows, cache, job, closer, drains, reader, editor,
          invalidated, now, faults>>

\* A record: the commit it shows, whether the row existed, the logical and
\* the hard expiry.  Two fields are history for the properties: the clock
\* reading after the row was read, from which its lifetimes count, and whether the record went to a key seen empty.
Entry == [stamp : Nat, commit : Nat, exists : BOOLEAN, refreshAfter : Nat,
          expiresAt : Nat, read : Nat, blind : BOOLEAN]
NoEntry == [stamp |-> 0, commit |-> 0, exists |-> FALSE, refreshAfter |-> 0,
            expiresAt |-> 0, read |-> 0, blind |-> FALSE]

\* snapshot is what Load returned, next the record to publish.
Job == [pc : {"none", "load", "query", "publish"}, snapshot : Entry,
        next : Entry]
NoJob == [pc |-> "none", snapshot |-> NoEntry, next |-> NoEntry]
NewJob == [pc |-> "load", snapshot |-> NoEntry, next |-> NoEntry]
Querying(snapshot) ==
    [pc |-> "query", snapshot |-> snapshot, next |-> NoEntry]
Publishing(snapshot, next) ==
    [pc |-> "publish", snapshot |-> snapshot, next |-> next]

NoShop == "no shop"
NoProc == "no process"
Idle == [pc |-> "idle", proc |-> NoProc, shop |-> NoShop]
NoEdit == [shop |-> NoShop, commit |-> 0]

ASSUME ProcAssumption == NoProc \notin Procs

TypeOK ==
    /\ rows \in [Shops -> Seq(BOOLEAN)]
    /\ cache \in [Shops -> Entry]
    /\ job \in [Procs -> [Shops -> Job]]
    /\ closer \in [Procs -> {"serving", "waiting", "done", "timed out"}]
    /\ drains \in [Procs -> 0..1]   \* closing a channel twice would panic
    /\ reader \in [Readers -> [pc : {"idle", "stale", "cold", "waiting"},
                               proc : Procs \cup {NoProc},
                               shop : Shops \cup {NoShop}]]
    /\ editor \in [Editors -> [shop : Shops \cup {NoShop}, commit : Nat]]
    /\ invalidated \in [Shops -> Nat]
    /\ now \in Nat
    /\ faults \in Nat

Init ==
    /\ rows = [s \in Shops |-> <<TRUE>>]
    /\ cache = [s \in Shops |-> NoEntry]
    /\ job = [p \in Procs |-> [s \in Shops |-> NoJob]]
    /\ closer = [p \in Procs |-> "serving"]
    /\ drains = [p \in Procs |-> 0]
    /\ reader = [r \in Readers |-> Idle]
    /\ editor = [e \in Editors |-> NoEdit]
    /\ invalidated = [s \in Shops |-> 0]
    /\ now = 0
    /\ faults = 0

Commit(s) == Len(rows[s])
Exists(s) == rows[s][Commit(s)]
Closed(p) == closer[p] # "serving"
Inflight(p) == {s \in Shops : job[p][s].pc # "none"}

Present(e) == e.stamp # 0
Servable(e) == Present(e) /\ now < e.expiresAt
Fresh(e) == Servable(e) /\ now < e.refreshAfter

Fault == faults < MaxFaults /\ faults' = faults + 1

-----------------------------------------------------------------------------
(* Shop.Detail *)

\* A servable row past its logical expiry is going to be answered after the
\* refresh was triggered; no servable record (or no answer from Redis) makes
\* the request wait for a rebuild.
ReaderLoad(r, p, s) ==
    /\ reader[r] = Idle
    /\ \E pc \in {"stale", "cold"} :
       /\ reader' = [reader EXCEPT ![r] =
                       [pc |-> pc, proc |-> p, shop |-> s]]
       /\ \/ /\ pc = "stale"
             /\ Servable(cache[s]) /\ ~Fresh(cache[s]) /\ cache[s].exists
             /\ UNCHANGED faults
          \/ pc = "cold" /\ ~Servable(cache[s]) /\ UNCHANGED faults
          \/ pc = "cold" /\ Fault
    /\ UNCHANGED <<rows, cache, job, closer, drains, editor,
                   invalidated, now>>

\* Mutant: the service may be closed already.
MayStartAlways(p) == Cardinality(Inflight(p)) < MaxRefresh

MayStart(p) == ~Closed(p) /\ Cardinality(Inflight(p)) < MaxRefresh

SetJob(p, s, j) == job' = [job EXCEPT ![p][s] = j]

Start(p, s) == SetJob(p, s, NewJob)

\* A stale answer only triggers a refresh: joining, a full or a closed
\* service make no difference to it.
ReaderStale(r) ==
    LET p == reader[r].proc
        s == reader[r].shop IN
    /\ reader[r].pc = "stale"
    /\ reader' = [reader EXCEPT ![r] = Idle]
    /\ \/ s \notin Inflight(p) /\ MayStart(p) /\ Start(p, s)
       \/ /\ s \in Inflight(p) \/ ~MayStart(p)
          /\ UNCHANGED job
    /\ UNCHANGED <<rows, cache, closer, drains, editor,
                   invalidated, now, faults>>

\* closed -> 503, join, full -> 429, or a rebuild of its own.
ReaderCold(r) ==
    LET p == reader[r].proc
        s == reader[r].shop IN
    /\ reader[r].pc = "cold"
    /\ \/ /\ Closed(p) \/ (s \notin Inflight(p) /\ ~MayStart(p))
          /\ reader' = [reader EXCEPT ![r] = Idle]
          /\ UNCHANGED job
       \/ /\ ~Closed(p) /\ s \in Inflight(p)
          /\ reader' = [reader EXCEPT ![r].pc = "waiting"]
          /\ UNCHANGED job
       \/ /\ s \notin Inflight(p) /\ MayStart(p)
          /\ reader' = [reader EXCEPT ![r].pc = "waiting"]
          /\ Start(p, s)
    /\ UNCHANGED <<rows, cache, closer, drains, editor,
                   invalidated, now, faults>>

\* The request is cancelled or times out; the shared rebuild goes on.
ReaderLeaves(r) ==
    /\ reader[r].pc = "waiting"
    /\ reader' = [reader EXCEPT ![r] = Idle]
    /\ UNCHANGED <<rows, cache, job, closer, drains, editor,
                   invalidated, now, faults>>

-----------------------------------------------------------------------------
(* rebuild: the goroutine that owns one entry of inflight *)

Waiters(p, s) ==
    {r \in Readers : reader[r] = [pc |-> "waiting", proc |-> p, shop |-> s]}

\* Mutant: the done channel is only closed if there was something to publish.
AnswerIfPublished(p, s) ==
    reader' = [r \in Readers |->
                 IF r \in Waiters(p, s) /\ job[p][s].pc = "publish"
                 THEN Idle ELSE reader[r]]

\* Closing done answers every request that waits for this rebuild.
AnswerWaiters(p, s) ==
    reader' = [r \in Readers |->
                 IF r \in Waiters(p, s) THEN Idle ELSE reader[r]]

\* Mutant: any rebuild that ends during shutdown signals drained.
SignalAny(p, s) ==
    drains' = IF Closed(p) THEN [drains EXCEPT ![p] = 1] ELSE drains

\* Mutant: nobody signals drained after Close was called.
SignalNever(p, s) == UNCHANGED drains

\* The last rebuild of a closed service closes drained.
SignalDrained(p, s) ==
    drains' = IF Closed(p) /\ Inflight(p) = {s}
              THEN [drains EXCEPT ![p] = @ + 1] ELSE drains

\* The deferred block of a rebuild.
Finish(p, s) ==
    /\ SetJob(p, s, NoJob)
    /\ AnswerWaiters(p, s)
    /\ SignalDrained(p, s)

\* Load again: another rebuild may have published meanwhile.  A failed load
\* leaves no token, exactly like an empty key.  Bytes that do not decode leave
\* a token and no entry, which is what a record past its hard expiry means to
\* every reader and rebuild, so they have no state of their own.
JobLoad(p, s) ==
    /\ job[p][s].pc = "load"
    /\ \/ Fresh(cache[s]) /\ Finish(p, s) /\ UNCHANGED faults
       \/ /\ \/ /\ ~Fresh(cache[s])
                /\ SetJob(p, s, Querying(cache[s]))
                /\ UNCHANGED faults
             \/ /\ (Closed(p) /\ UNCHANGED faults) \/ Fault
                /\ SetJob(p, s, Querying(NoEntry))
          /\ UNCHANGED <<reader, drains>>
    /\ UNCHANGED <<rows, cache, closer, editor, invalidated, now>>

\* What a successful query makes of the row.
Record(s, snapshot) ==
    LET lives == IF Exists(s) THEN FreshTTL ELSE AbsentTTL
        stale == IF Exists(s) THEN StaleTTL ELSE 0 IN
    [stamp |-> 0, commit |-> Commit(s), exists |-> Exists(s),
     refreshAfter |-> now + lives, expiresAt |-> now + lives + stale,
     read |-> now, blind |-> ~Present(snapshot)]

\* Mutant: a failed rebuild also extends the life of the old row.
PostponedLonger(e) ==
    [e EXCEPT !.refreshAfter = now + Backoff,
              !.expiresAt = now + Backoff + StaleTTL]

\* A failed rebuild postpones the next one but not the hard expiry.
Postponed(e) ==
    [e EXCEPT !.refreshAfter =
        IF now + Backoff > e.expiresAt THEN e.expiresAt ELSE now + Backoff]

\* Mutant: a failed query is taken for a missing row.
FailedAsAbsent(s, snapshot) ==
    [stamp |-> 0, commit |-> Commit(s), exists |-> FALSE,
     refreshAfter |-> now + AbsentTTL, expiresAt |-> now + AbsentTTL,
     read |-> now, blind |-> ~Present(snapshot)]

\* What a failed query makes of the snapshot; NoEntry is nothing to publish.
Failed(s, snapshot) ==
    IF Servable(snapshot) /\ snapshot.exists THEN Postponed(snapshot)
    ELSE NoEntry

\* ByID, the clock reading that follows it (time that passes between the two
\* counts as spent before), and the decision what to publish.  Shutdown cancels the query and
\* publishes nothing; an expired budget counts as a failed query.
JobQuery(p, s) ==
    LET snapshot == job[p][s].snapshot
        Publish(e) ==
            /\ SetJob(p, s, Publishing(snapshot, e))
            /\ UNCHANGED <<reader, drains>> IN
    /\ job[p][s].pc = "query"
    /\ \/ Closed(p) /\ Finish(p, s) /\ UNCHANGED faults
       \/ ~Closed(p) /\ Publish(Record(s, snapshot)) /\ UNCHANGED faults
       \/ /\ ~Closed(p) /\ Fault
          /\ IF Failed(s, snapshot) = NoEntry
             THEN Finish(p, s) ELSE Publish(Failed(s, snapshot))
    /\ UNCHANGED <<rows, cache, closer, editor, invalidated, now>>

\* Mutant: the record is stored whatever the key holds.
UnchangedSinceIgnored(s, snapshot) == TRUE

\* Mutant: a key that has disappeared counts as unchanged.
UnchangedSinceOrGone(s, snapshot) ==
    cache[s].stamp = snapshot.stamp \/ ~Present(cache[s])

\* The compare of the publish script.
UnchangedSince(s, snapshot) == cache[s].stamp = snapshot.stamp

Held(s) == {cache[s].stamp} \cup {job[p][s].snapshot.stamp : p \in Procs}
NewStamp(s) == CHOOSE n \in 1 .. Cardinality(Procs) + 2 : n \notin Held(s)
Stamped(e, n) == [e EXCEPT !.stamp = n]

\* The script runs, is refused, or (on a fault, or cancelled by shutdown)
\* never reaches Redis; a reply that is lost changes nothing for the rebuild.
JobPublish(p, s) ==
    LET snapshot == job[p][s].snapshot
        next == job[p][s].next
        stores == UnchangedSince(s, snapshot) /\ now < next.expiresAt IN
    /\ job[p][s].pc = "publish"
    /\ Finish(p, s)
    /\ \/ /\ stores
          /\ cache' = [cache EXCEPT ![s] = Stamped(next, NewStamp(s))]
          /\ UNCHANGED faults
       \/ /\ ~stores \/ Closed(p)
          /\ UNCHANGED <<cache, faults>>
       \/ Fault /\ UNCHANGED cache
    /\ UNCHANGED <<rows, closer, editor, invalidated, now>>

\* A panic anywhere in the rebuild is recovered and ends it with an error.
JobPanics(p, s) ==
    /\ job[p][s].pc # "none"
    /\ Fault
    /\ Finish(p, s)
    /\ UNCHANGED <<rows, cache, closer, editor, invalidated, now>>

-----------------------------------------------------------------------------
(* Shop.Close, which main calls: module Server *)

Close(p) ==
    /\ closer[p] = "serving"
    /\ closer' = [closer EXCEPT ![p] = "waiting"]
    /\ drains' = IF Inflight(p) = {} THEN [drains EXCEPT ![p] = @ + 1]
                 ELSE drains
    /\ UNCHANGED <<rows, cache, job, reader, editor, invalidated,
                   now, faults>>

CloseReturns(p) ==
    /\ closer[p] = "waiting"
    /\ \/ drains[p] > 0 /\ closer' = [closer EXCEPT ![p] = "done"]
       \/ closer' = [closer EXCEPT ![p] = "timed out"]
    /\ UNCHANGED <<rows, cache, job, drains, reader, editor,
                   invalidated, now, faults>>

-----------------------------------------------------------------------------
(* ShopMaintenance.Update: commit, then DEL *)

Update(e, s) ==
    /\ editor[e] = NoEdit
    /\ Exists(s)
    /\ Commit(s) < MaxCommits
    /\ rows' = [rows EXCEPT ![s] = Append(@, TRUE)]
    /\ editor' = [editor EXCEPT ![e] =
                    [shop |-> s, commit |-> Commit(s) + 1]]
    /\ UNCHANGED <<cache, job, closer, drains, reader,
                   invalidated, now, faults>>

Later(a, b) == IF a > b THEN a ELSE b

\* DEL succeeds, succeeds without an answer, or fails; the command ends.
Invalidate(e) ==
    LET s == editor[e].shop IN
    /\ editor[e] # NoEdit
    /\ editor' = [editor EXCEPT ![e] = NoEdit]
    /\ \/ /\ cache' = [cache EXCEPT ![s] = NoEntry]
          /\ invalidated' = [invalidated EXCEPT ![s] =
                               Later(@, editor[e].commit)]
          /\ UNCHANGED faults
       \/ Fault /\ UNCHANGED <<cache, invalidated>>
    /\ UNCHANGED <<rows, job, closer, drains, reader, now>>

-----------------------------------------------------------------------------
(* Environment *)

\* SQL run by hand inserts or deletes the row, without invalidation.
DirectSQL(s) ==
    /\ Commit(s) < MaxCommits
    /\ rows' = [rows EXCEPT ![s] = Append(@, ~Exists(s))]
    /\ UNCHANGED <<cache, job, closer, drains, reader, editor,
                   invalidated, now, faults>>

\* The key's PX runs out, or Redis loses it.
KeyVanishes(s) ==
    /\ Present(cache[s])
    /\ IF Servable(cache[s]) THEN Fault ELSE UNCHANGED faults
    /\ cache' = [cache EXCEPT ![s] = NoEntry]
    /\ UNCHANGED <<rows, job, closer, drains, reader, editor,
                   invalidated, now>>

Tick ==
    /\ now < MaxTime
    /\ now' = now + 1
    /\ UNCHANGED <<rows, cache, job, closer, drains, reader,
                   editor, invalidated, faults>>

-----------------------------------------------------------------------------
JobStep(p, s) == JobLoad(p, s) \/ JobQuery(p, s) \/ JobPublish(p, s)

ReaderStep(r) ==
    \/ \E p \in Procs, s \in Shops : ReaderLoad(r, p, s)
    \/ ReaderStale(r)
    \/ ReaderCold(r)
    \/ ReaderLeaves(r)

\* shop-update.
EditorStep(e) == Invalidate(e) \/ \E s \in Shops : Update(e, s)

Next ==
    \/ \E r \in Readers : ReaderStep(r)
    \/ \E p \in Procs, s \in Shops : JobStep(p, s) \/ JobPanics(p, s)
    \/ \E e \in Editors : EditorStep(e)
    \/ \E s \in Shops : DirectSQL(s) \/ KeyVanishes(s)
    \/ Tick

Spec == Init /\ [][Next]_vars

-----------------------------------------------------------------------------
(* Properties *)

\* While a key is replaced rather than deleted the row it shows never gets
\* older, whichever process publishes: each rebuild reads the key before the
\* row and publishes only over what it read.
CachedNeverGoesBack ==
    [][ \A s \in Shops :
          (Present(cache[s]) /\ Present(cache'[s])) =>
             cache'[s].commit >= cache[s].commit ]_vars

\* Once the DEL of an update succeeded no record shows the row as it was
\* before, except by the race docs/api/shop.md admits: its rebuild had found
\* no token to compare.
InvalidationSticks ==
    \A s \in Shops :
       (Present(cache[s]) /\ cache[s].commit < invalidated[s]) =>
          cache[s].blind

\* "Cannot extend the stale window": however often rebuilds fail, no record
\* outlives the rebuild that read its row, from its clock reading after that
\* read on, by more than the hard lifetime.
HardExpiryIsHard ==
    \A s \in Shops :
       cache[s].expiresAt <= cache[s].read + FreshTTL + StaleTTL

\* Only a row that really was missing is cached as missing: never a failed
\* or cancelled query.
AbsenceIsReal ==
    \A s \in Shops :
       Present(cache[s]) => cache[s].exists = rows[s][cache[s].commit]
=============================================================================
