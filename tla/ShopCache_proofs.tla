-------------------------- MODULE ShopCache_proofs ---------------------------
(***************************************************************************)
(* The properties of the shop cache for any number of processes, shops,    *)
(* readers and editors, any lifetimes and any number of faults.  What      *)
(* makes them inductive is the token: a rebuild that still holds the bytes *)
(* of the key holds the very record of the key, has read its row after it, *)
(* and no DEL came in between.                                             *)
(*                                                                         *)
(* The second half is the server that uses it (Server): what run knows at  *)
(* each point of its life, and that no rebuild and no request is left to   *)
(* work on what it closes.                                                 *)
(***************************************************************************)
EXTENDS Server, Functions, FiniteSetTheorems, TLAPS

DataOK ==
    /\ rows \in [Shops -> Seq(BOOLEAN)]
    /\ cache \in [Shops -> Entry]
    /\ job \in [Procs -> [Shops -> Job]]
    /\ editor \in [Editors -> [shop : Shops \cup {NoShop}, commit : Nat]]
    /\ invalidated \in [Shops -> Nat]
    /\ now \in Nat

\* A record that shows a commit of the row as it was, within its lifetime.
Genuine(s, e) ==
    /\ e.commit \in 1 .. Len(rows[s])
    /\ e.exists = rows[s][e.commit]
    /\ e.expiresAt <= e.read + FreshTTL + StaleTTL

Excused(s, e) == e.commit >= invalidated[s] \/ e.blind

CacheOK(s) ==
    /\ cache[s] = NoEntry \/ Genuine(s, cache[s])
    /\ Present(cache[s]) => Excused(s, cache[s])

Holds(s, j) == Present(j.snapshot) /\ j.snapshot.stamp = cache[s].stamp

JobOK(s, j) ==
    /\ j.snapshot = NoEntry \/ Genuine(s, j.snapshot)
    /\ Holds(s, j) => j.snapshot = cache[s]
    /\ j.pc = "publish" =>
          /\ Genuine(s, j.next)
          /\ j.next.commit >= j.snapshot.commit
          /\ ~Present(j.snapshot) => j.next.blind
          /\ Holds(s, j) => Excused(s, j.next)

EditsCommitted ==
    /\ \A s \in Shops : Len(rows[s]) >= 1 /\ invalidated[s] <= Len(rows[s])
    /\ \A e \in Editors :
          \/ editor[e] = NoEdit
          \/ /\ editor[e].shop \in Shops
             /\ editor[e].commit <= Len(rows[editor[e].shop])

CacheInv ==
    /\ DataOK
    /\ \A s \in Shops : CacheOK(s)
    /\ \A p \in Procs, s \in Shops : JobOK(s, job[p][s])
    /\ EditsCommitted

-----------------------------------------------------------------------------
(* Records, rebuilds and tokens *)

LEMMA NoEntryFields ==
  /\ NoEntry \in Entry /\ NoEntry.stamp = 0 /\ NoEntry.commit = 0
  /\ NoEntry.expiresAt = 0 /\ NoEntry.read = 0
  /\ ~Present(NoEntry)
BY DEF NoEntry, Entry, Present

LEMMA StampedFields ==
  ASSUME NEW e \in Entry, NEW n \in Nat
  PROVE  /\ Stamped(e, n) \in Entry
         /\ Stamped(e, n).stamp = n
         /\ Stamped(e, n).commit = e.commit
         /\ Stamped(e, n).exists = e.exists
         /\ Stamped(e, n).expiresAt = e.expiresAt
         /\ Stamped(e, n).read = e.read
         /\ Stamped(e, n).blind = e.blind
BY DEF Stamped, Entry

LEMMA JobFields ==
  ASSUME NEW snapshot \in Entry, NEW next \in Entry
  PROVE  /\ Querying(snapshot) \in Job
         /\ Querying(snapshot).pc = "query"
         /\ Querying(snapshot).snapshot = snapshot
         /\ Publishing(snapshot, next) \in Job
         /\ Publishing(snapshot, next).pc = "publish"
         /\ Publishing(snapshot, next).snapshot = snapshot
         /\ Publishing(snapshot, next).next = next
BY NoEntryFields DEF Querying, Publishing, Job

LEMMA FixedJobs ==
  /\ NoJob \in Job /\ NoJob.pc = "none" /\ NoJob.snapshot = NoEntry
  /\ NewJob \in Job /\ NewJob.pc = "load" /\ NewJob.snapshot = NoEntry
BY NoEntryFields DEF NoJob, NewJob, Job

\* Rebuilds that hold no token are harmless.
LEMMA FixedJobsOK ==
  ASSUME NEW s \in Shops
  PROVE  JobOK(s, NoJob) /\ JobOK(s, NewJob)
BY FixedJobs, NoEntryFields DEF JobOK, Holds

\* There is always a new stamp that neither the key nor a rebuild has.
LEMMA StampIsNew ==
  ASSUME NEW s \in Shops, DataOK
  PROVE  /\ NewStamp(s) \in Nat \ {0}
         /\ NewStamp(s) # cache[s].stamp
         /\ \A p \in Procs : NewStamp(s) # job[p][s].snapshot.stamp
<1> DEFINE C == Cardinality(Procs)
           T == {job[p][s].snapshot.stamp : p \in Procs}
           f == [p \in Procs |-> job[p][s].snapshot.stamp]
<1>1. IsFiniteSet(Procs) /\ C \in Nat
  BY CacheAssumption, FS_CardinalityType DEF CacheAssumption
<1>2. f \in Surjection(Procs, T)
  BY DEF Surjection
<1> HIDE DEF f
<1>3. IsFiniteSet(T) /\ Cardinality(T) <= C /\ Cardinality(T) \in Nat
  BY <1>1, <1>2, FS_Surjection, FS_CardinalityType
<1> HIDE DEF T
<1>5. Held(s) = T \cup {cache[s].stamp}
  BY DEF Held, T
<1>6. /\ IsFiniteSet(Held(s))
      /\ Cardinality(Held(s)) \in Nat
      /\ Cardinality(Held(s)) <= C + 1
  <2>1. /\ IsFiniteSet(Held(s))
        /\ Cardinality(Held(s)) = IF cache[s].stamp \in T THEN Cardinality(T)
                                  ELSE Cardinality(T) + 1
    BY <1>3, <1>5, FS_AddElement
  <2> QED BY <1>1, <1>3, <2>1
<1>7. \E n \in 1 .. C + 2 : n \notin Held(s)
  <2> SUFFICES ASSUME 1 .. C + 2 \subseteq Held(s) PROVE FALSE
    OBVIOUS
  <2>1. Cardinality(1 .. C + 2) = C + 2
    BY <1>1, FS_Interval
  <2>2. Cardinality(1 .. C + 2) <= Cardinality(Held(s))
    BY <1>6, FS_Subset
  <2> QED BY <1>1, <1>6, <2>1, <2>2
<1>8. NewStamp(s) \in 1 .. C + 2 /\ NewStamp(s) \notin Held(s)
  BY <1>7 DEF NewStamp
<1>9. NewStamp(s) \in Nat \ {0}
  BY <1>1, <1>8
<1> QED BY <1>8, <1>9 DEF Held

-----------------------------------------------------------------------------
(* What a step may change *)

LEMMA InitCache == Init => CacheInv
<1> SUFFICES ASSUME Init PROVE CacheInv
  OBVIOUS
<1>1. DataOK
  <2>1. rows \in [Shops -> Seq(BOOLEAN)] /\ invalidated \in [Shops -> Nat]
    BY DEF Init
  <2>2. cache \in [Shops -> Entry] /\ job \in [Procs -> [Shops -> Job]]
    BY NoEntryFields, FixedJobs DEF Init
  <2>3. editor \in [Editors -> [shop : Shops \cup {NoShop}, commit : Nat]]
    BY DEF Init, NoEdit
  <2> QED BY <2>1, <2>2, <2>3 DEF Init, DataOK
<1>2. \A s \in Shops : CacheOK(s)
  BY NoEntryFields DEF Init, CacheOK
<1>3. \A p \in Procs, s \in Shops : JobOK(s, job[p][s])
  BY FixedJobsOK DEF Init
<1>4. EditsCommitted
  BY DEF Init, EditsCommitted, NoEdit
<1> QED BY <1>1, <1>2, <1>3, <1>4 DEF CacheInv

\* Readers, the clock and the shutdown touch nothing of it.
LEMMA FrameKeeps ==
  ASSUME CacheInv, now' \in Nat,
         UNCHANGED <<rows, cache, job, editor, invalidated>>
  PROVE  CacheInv'
<1>1. DataOK'
  BY DEF CacheInv, DataOK
<1>2. \A s \in Shops : CacheOK(s)'
  BY DEF CacheInv, CacheOK, Genuine, Excused
<1>3. \A p \in Procs, s \in Shops : JobOK(s, job[p][s])'
  BY DEF CacheInv, JobOK, Genuine, Holds, Excused
<1>4. EditsCommitted'
  BY DEF CacheInv, EditsCommitted
<1> QED BY <1>1, <1>2, <1>3, <1>4 DEF CacheInv

\* One rebuild moves on.
LEMMA JobMoves ==
  ASSUME CacheInv, NEW p \in Procs, NEW s \in Shops, NEW j \in Job,
         JobOK(s, j), SetJob(p, s, j),
         UNCHANGED <<rows, cache, editor, invalidated, now>>
  PROVE  CacheInv'
<1>1. /\ job' \in [Procs -> [Shops -> Job]]
      /\ \A q \in Procs, t \in Shops :
            job'[q][t] = IF q = p /\ t = s THEN j ELSE job[q][t]
  BY DEF SetJob, CacheInv, DataOK
<1>2. DataOK'
  BY <1>1 DEF CacheInv, DataOK
<1>3. \A t \in Shops : CacheOK(t)'
  BY DEF CacheInv, CacheOK, Genuine, Excused
<1>4. ASSUME NEW q \in Procs, NEW t \in Shops
      PROVE  JobOK(t, job[q][t])'
  <2>1. JobOK(t, job'[q][t])
    BY <1>1 DEF CacheInv
  <2> QED BY <2>1 DEF JobOK, Genuine, Holds, Excused
<1>5. EditsCommitted'
  BY DEF CacheInv, EditsCommitted
<1> QED BY <1>2, <1>3, <1>4, <1>5 DEF CacheInv

\* A reader starts a rebuild.
LEMMA JobStarts ==
  ASSUME CacheInv, NEW p, NEW s, Start(p, s),
         UNCHANGED <<rows, cache, editor, invalidated, now>>
  PROVE  CacheInv'
<1>1. /\ job' \in [Procs -> [Shops -> Job]]
      /\ \A q \in Procs, t \in Shops :
            job'[q][t] \in {NewJob, job[q][t]}
  BY FixedJobs DEF Start, SetJob, CacheInv, DataOK
<1>2. DataOK'
  BY <1>1 DEF CacheInv, DataOK
<1>3. \A t \in Shops : CacheOK(t)'
  BY DEF CacheInv, CacheOK, Genuine, Excused
<1>4. ASSUME NEW q \in Procs, NEW t \in Shops
      PROVE  JobOK(t, job[q][t])'
  <2>1. JobOK(t, job'[q][t])
    BY <1>1, FixedJobsOK DEF CacheInv
  <2> QED BY <2>1 DEF JobOK, Genuine, Holds, Excused
<1>5. EditsCommitted'
  BY DEF CacheInv, EditsCommitted
<1> QED BY <1>2, <1>3, <1>4, <1>5 DEF CacheInv

\* A commit is appended: what records show stays what the row was.
LEMMA RowGrows ==
  ASSUME CacheInv, NEW s \in Shops, NEW b \in BOOLEAN,
         rows' = [rows EXCEPT ![s] = Append(@, b)],
         editor' \in [Editors -> [shop : Shops \cup {NoShop}, commit : Nat]],
         \A e \in Editors :
            \/ editor'[e] = editor[e]
            \/ editor'[e] = [shop |-> s, commit |-> Len(rows[s]) + 1],
         UNCHANGED <<cache, job, invalidated, now>>
  PROVE  CacheInv'
<1>1. /\ rows' \in [Shops -> Seq(BOOLEAN)]
      /\ Len(rows'[s]) = Len(rows[s]) + 1
      /\ \A i \in 1 .. Len(rows[s]) : rows'[s][i] = rows[s][i]
      /\ \A t \in Shops \ {s} : rows'[t] = rows[t]
  BY DEF CacheInv, DataOK
<1>2. \A t \in Shops : Len(rows[t]) \in Nat /\ Len(rows'[t]) >= Len(rows[t])
  BY <1>1 DEF CacheInv, DataOK
<1>3. ASSUME NEW t \in Shops, NEW e, Genuine(t, e) PROVE Genuine(t, e)'
  BY <1>1, <1>2, <1>3 DEF Genuine
<1>4. DataOK'
  BY <1>1 DEF CacheInv, DataOK
<1>5. \A t \in Shops : CacheOK(t)'
  BY <1>3 DEF CacheInv, CacheOK, Excused
<1>6. ASSUME NEW q \in Procs, NEW t \in Shops
      PROVE  JobOK(t, job[q][t])'
  BY <1>3 DEF CacheInv, JobOK, Holds, Excused
<1>7. EditsCommitted'
  <2>1. \A t \in Shops : Len(rows'[t]) >= 1 /\ invalidated'[t] <= Len(rows'[t])
    BY <1>2 DEF CacheInv, EditsCommitted, DataOK
  <2>2. ASSUME NEW e \in Editors, editor'[e] # NoEdit
        PROVE  /\ editor'[e].shop \in Shops
               /\ editor'[e].commit <= Len(rows'[editor'[e].shop])
    <3>1. CASE editor'[e] = editor[e]
      <4> DEFINE t == editor[e].shop
      <4>1. t \in Shops /\ editor[e].commit <= Len(rows[t])
        BY <2>2, <3>1 DEF CacheInv, EditsCommitted
      <4>2. editor[e].commit \in Nat /\ Len(rows'[t]) \in Nat
        BY <1>1, <4>1 DEF CacheInv, DataOK
      <4> QED BY <1>2, <3>1, <4>1, <4>2
    <3>2. CASE editor'[e] = [shop |-> s, commit |-> Len(rows[s]) + 1]
      <4>1. editor'[e].shop = s /\ editor'[e].commit = Len(rows[s]) + 1
        BY <3>2
      <4>2. Len(rows'[s]) \in Nat
        BY <1>1
      <4> QED BY <1>1, <4>1, <4>2
    <3> QED BY <3>1, <3>2
  <2> QED BY <2>1, <2>2 DEF EditsCommitted
<1> QED BY <1>4, <1>5, <1>6, <1>7 DEF CacheInv

\* The key is gone: no rebuild holds its token any more.
LEMMA KeyDropped ==
  ASSUME CacheInv, NEW s \in Shops,
         cache' = [cache EXCEPT ![s] = NoEntry],
         editor' \in [Editors -> [shop : Shops \cup {NoShop}, commit : Nat]],
         \A e \in Editors : editor'[e] \in {editor[e], NoEdit},
         invalidated' \in [Shops -> Nat],
         invalidated'[s] <= Len(rows[s]),
         \A t \in Shops \ {s} : invalidated'[t] = invalidated[t],
         UNCHANGED <<rows, job, now>>
  PROVE  CacheInv'
<1>1. /\ cache' \in [Shops -> Entry]
      /\ cache'[s] = NoEntry
      /\ \A t \in Shops \ {s} : cache'[t] = cache[t]
  BY NoEntryFields DEF CacheInv, DataOK
<1>2. DataOK'
  BY <1>1 DEF CacheInv, DataOK
<1>3. \A t \in Shops : CacheOK(t)'
  BY <1>1, NoEntryFields DEF CacheInv, CacheOK, Genuine, Excused
<1>4. ASSUME NEW q \in Procs, NEW t \in Shops
      PROVE  JobOK(t, job[q][t])'
  <2>1. JobOK(t, job[q][t])
    BY DEF CacheInv
  <2>2. CASE t = s
    <3>1. ~Holds(t, job[q][t])'
      BY <1>1, <2>2, NoEntryFields DEF Holds, Present
    <3> QED BY <2>1, <3>1 DEF JobOK, Genuine
  <2>3. CASE t # s
    BY <1>1, <2>1, <2>3 DEF JobOK, Genuine, Holds, Excused
  <2> QED BY <2>2, <2>3
<1>5. EditsCommitted'
  <2>1. ASSUME NEW t \in Shops
        PROVE  Len(rows'[t]) >= 1 /\ invalidated'[t] <= Len(rows'[t])
    BY DEF CacheInv, EditsCommitted
  <2>2. ASSUME NEW e \in Editors, editor'[e] # NoEdit
        PROVE  /\ editor'[e].shop \in Shops
               /\ editor'[e].commit <= Len(rows'[editor'[e].shop])
    <3>1. editor'[e] = editor[e]
      BY <2>2
    <3> QED BY <2>2, <3>1 DEF CacheInv, EditsCommitted
  <2> QED BY <2>1, <2>2 DEF EditsCommitted
<1> QED BY <1>2, <1>3, <1>4, <1>5 DEF CacheInv

-----------------------------------------------------------------------------
(* rebuild *)

LEMMA LoadKeeps ==
  ASSUME CacheInv, NEW p \in Procs, NEW s \in Shops, JobLoad(p, s)
  PROVE  CacheInv'
<1>0. UNCHANGED <<rows, cache, editor, invalidated, now>>
  BY DEF JobLoad
<1>1. cache[s] \in Entry
  BY DEF CacheInv, DataOK
<1>2. JobOK(s, Querying(cache[s])) /\ JobOK(s, Querying(NoEntry))
  BY <1>1, JobFields, NoEntryFields DEF CacheInv, CacheOK, JobOK, Holds
<1>3. PICK j \in {NoJob, Querying(cache[s]), Querying(NoEntry)} :
         SetJob(p, s, j)
  BY DEF JobLoad, Finish
<1>4. j \in Job /\ JobOK(s, j)
  BY <1>1, <1>2, JobFields, NoEntryFields, FixedJobs, FixedJobsOK
<1> QED BY <1>0, <1>3, <1>4, JobMoves

\* A fresh record shows the last commit, which no DEL has outrun.
LEMMA RecordIsGenuine ==
  ASSUME CacheInv, NEW s \in Shops, NEW snapshot \in Entry
  PROVE  LET e == Record(s, snapshot) IN
         /\ e \in Entry
         /\ Genuine(s, e)
         /\ e.commit = Len(rows[s])
         /\ e.blind = ~Present(snapshot)
<1>1. /\ Len(rows[s]) \in Nat /\ Len(rows[s]) >= 1
      /\ rows[s][Len(rows[s])] \in BOOLEAN
      /\ now \in Nat
  BY DEF CacheInv, DataOK, EditsCommitted
<1>2. /\ FreshTTL \in Nat /\ StaleTTL \in Nat
      /\ AbsentTTL \in Nat /\ AbsentTTL <= FreshTTL + StaleTTL
  BY CacheAssumption DEF CacheAssumption
<1>3. Present(snapshot) \in BOOLEAN
  BY DEF Present
<1> DEFINE e == Record(s, snapshot)
<1>4. e \in Entry
  BY <1>1, <1>2, <1>3 DEF Record, Entry, Exists, Commit
<1>5. /\ e.commit = Len(rows[s])
      /\ e.exists = rows[s][Len(rows[s])]
      /\ e.blind = ~Present(snapshot)
  BY DEF Record, Exists, Commit
<1>6. e.expiresAt <= e.read + FreshTTL + StaleTTL
  BY <1>1, <1>2 DEF Record
<1>7. Genuine(s, e)
  BY <1>1, <1>5, <1>6 DEF Genuine
<1> QED BY <1>4, <1>5, <1>7

LEMMA PostponedFields ==
  ASSUME NEW e \in Entry, now \in Nat
  PROVE  /\ Postponed(e) \in Entry
         /\ Postponed(e).commit = e.commit
         /\ Postponed(e).exists = e.exists
         /\ Postponed(e).expiresAt = e.expiresAt
         /\ Postponed(e).read = e.read
         /\ Postponed(e).blind = e.blind
<1> DEFINE after == IF now + Backoff > e.expiresAt THEN e.expiresAt
                    ELSE now + Backoff
<1>1. after \in Nat
  BY CacheAssumption DEF CacheAssumption, Entry
<1>2. Postponed(e) = [e EXCEPT !.refreshAfter = after]
  BY DEF Postponed
<1> HIDE DEF after
<1> QED BY <1>1, <1>2 DEF Entry

LEMMA QueryKeeps ==
  ASSUME CacheInv, NEW p \in Procs, NEW s \in Shops, JobQuery(p, s)
  PROVE  CacheInv'
<1> DEFINE snapshot == job[p][s].snapshot
<1>0. UNCHANGED <<rows, cache, editor, invalidated, now>>
  BY DEF JobQuery
<1>1. snapshot \in Entry /\ JobOK(s, job[p][s]) /\ now \in Nat
  BY DEF CacheInv, DataOK, Job
<1>2. \/ SetJob(p, s, NoJob)
      \/ SetJob(p, s, Publishing(snapshot, Record(s, snapshot)))
      \/ /\ Servable(snapshot)
         /\ SetJob(p, s, Publishing(snapshot, Postponed(snapshot)))
  BY DEF JobQuery, Finish, Failed
<1>3. CASE SetJob(p, s, NoJob)
  BY <1>0, <1>3, FixedJobs, FixedJobsOK, JobMoves
<1>4. CASE SetJob(p, s, Publishing(snapshot, Record(s, snapshot)))
  <2> DEFINE e == Record(s, snapshot)
             j == Publishing(snapshot, e)
  <2>1. /\ e \in Entry /\ Genuine(s, e) /\ e.commit = Len(rows[s])
        /\ e.blind = ~Present(snapshot)
    BY <1>1, RecordIsGenuine
  <2> HIDE DEF e
  <2>2. /\ j \in Job /\ j.snapshot = snapshot /\ j.next = e
    BY <1>1, <2>1, JobFields
  <2>3. e.commit >= snapshot.commit
    BY <1>1, <2>1, NoEntryFields DEF JobOK, Genuine
  <2>4. Excused(s, e)
    BY <2>1 DEF Excused, CacheInv, EditsCommitted, DataOK
  <2>5. JobOK(s, j)
    BY <1>1, <2>1, <2>2, <2>3, <2>4 DEF JobOK, Holds
  <2> QED BY <1>0, <1>4, <2>2, <2>5, JobMoves DEF e
<1>5. CASE /\ Servable(snapshot)
           /\ SetJob(p, s, Publishing(snapshot, Postponed(snapshot)))
  <2> DEFINE e == Postponed(snapshot)
             j == Publishing(snapshot, e)
  <2>1. /\ e \in Entry /\ e.commit = snapshot.commit
        /\ e.exists = snapshot.exists /\ e.expiresAt = snapshot.expiresAt
        /\ e.read = snapshot.read /\ e.blind = snapshot.blind
    BY <1>1, PostponedFields
  <2>2. Present(snapshot)
    BY <1>5 DEF Servable
  <2> HIDE DEF e
  <2>3. /\ j \in Job /\ j.snapshot = snapshot /\ j.next = e
    BY <1>1, <2>1, JobFields
  <2>4. Genuine(s, snapshot) /\ Genuine(s, e)
    BY <1>1, <2>1, <2>2, NoEntryFields DEF JobOK, Genuine
  <2>5. Holds(s, j) => Excused(s, e)
    <3> SUFFICES ASSUME Holds(s, j) PROVE Excused(s, e)
      OBVIOUS
    <3>1. snapshot = cache[s]
      BY <1>1, <2>3 DEF JobOK, Holds
    <3>2. Excused(s, cache[s])
      BY <2>2, <3>1 DEF CacheInv, CacheOK
    <3> QED BY <2>1, <3>1, <3>2 DEF Excused
  <2>6. e.commit >= snapshot.commit
    BY <1>1, <2>1 DEF Entry
  <2>7. JobOK(s, j)
    BY <1>1, <2>2, <2>3, <2>4, <2>5, <2>6 DEF JobOK, Holds
  <2> QED BY <1>0, <1>5, <2>3, <2>7, JobMoves DEF e
<1> QED BY <1>2, <1>3, <1>4, <1>5

-----------------------------------------------------------------------------
(* Publication *)

\* What is published is genuine, and never older than what it replaces.
LEMMA StoreKeeps ==
  ASSUME CacheInv, NEW p \in Procs, NEW s \in Shops,
         job[p][s].pc = "publish",
         UnchangedSince(s, job[p][s].snapshot),
         cache' = [cache EXCEPT ![s] =
                     Stamped(job[p][s].next, NewStamp(s))],
         SetJob(p, s, NoJob),
         UNCHANGED <<rows, editor, invalidated, now>>
  PROVE  /\ CacheInv'
         /\ Present(cache[s]) => cache'[s].commit >= cache[s].commit
<1> DEFINE j == job[p][s]
           e == Stamped(j.next, NewStamp(s))
<1>1. j.next \in Entry /\ j.snapshot \in Entry /\ JobOK(s, j)
  BY DEF CacheInv, DataOK, Job
<1>2. /\ NewStamp(s) \in Nat \ {0}
      /\ \A q \in Procs : NewStamp(s) # job[q][s].snapshot.stamp
  BY StampIsNew DEF CacheInv
<1>3. /\ e \in Entry /\ e.stamp = NewStamp(s)
      /\ e.commit = j.next.commit /\ e.exists = j.next.exists
      /\ e.expiresAt = j.next.expiresAt /\ e.read = j.next.read
      /\ e.blind = j.next.blind
  BY <1>1, <1>2, StampedFields
<1>4. /\ cache' \in [Shops -> Entry] /\ cache'[s] = e
      /\ \A t \in Shops \ {s} : cache'[t] = cache[t]
  BY <1>3 DEF CacheInv, DataOK
<1> HIDE DEF e
<1>5. /\ job' \in [Procs -> [Shops -> Job]]
      /\ \A q \in Procs, t \in Shops :
            job'[q][t] = IF q = p /\ t = s THEN NoJob ELSE job[q][t]
  BY FixedJobs DEF SetJob, CacheInv, DataOK
<1>6. DataOK'
  BY <1>4, <1>5 DEF CacheInv, DataOK
<1>7. Genuine(s, e) /\ Excused(s, e)
  <2>1. Genuine(s, j.next)
    BY <1>1 DEF JobOK
  <2>2. Excused(s, j.next)
    BY <1>1 DEF JobOK, Holds, UnchangedSince, Excused
  <2> QED BY <1>3, <2>1, <2>2 DEF Genuine, Excused
<1>8. \A t \in Shops : CacheOK(t)'
  BY <1>4, <1>7 DEF CacheInv, CacheOK, Genuine, Excused
<1>9. ASSUME NEW q \in Procs, NEW t \in Shops
      PROVE  JobOK(t, job[q][t])'
  <2>1. JobOK(t, job'[q][t])
    BY <1>5, FixedJobsOK DEF CacheInv
  <2>2. CASE t = s
    <3>1. ~Holds(t, job[q][t])'
      BY <1>2, <1>3, <1>4, <1>5, <2>2, FixedJobs, NoEntryFields
         DEF Holds, Present
    <3> QED BY <2>1, <3>1 DEF JobOK, Genuine
  <2>3. CASE t # s
    BY <1>4, <2>1, <2>3 DEF JobOK, Genuine, Holds, Excused
  <2> QED BY <2>2, <2>3
<1>10. EditsCommitted'
  BY DEF CacheInv, EditsCommitted
<1>11. Present(cache[s]) => cache'[s].commit >= cache[s].commit
  <2> SUFFICES ASSUME Present(cache[s]) PROVE e.commit >= cache[s].commit
    BY <1>4
  <2>1. j.snapshot = cache[s]
    BY <1>1 DEF JobOK, Holds, UnchangedSince, Present
  <2> QED BY <1>1, <1>3, <2>1 DEF JobOK
<1> QED BY <1>6, <1>8, <1>9, <1>10, <1>11 DEF CacheInv

LEMMA PublishKeeps ==
  ASSUME CacheInv, NEW p \in Procs, NEW s \in Shops, JobPublish(p, s)
  PROVE  CacheInv'
<1>1. /\ job[p][s].pc = "publish" /\ SetJob(p, s, NoJob)
      /\ UNCHANGED <<rows, editor, invalidated, now>>
      /\ \/ cache' = cache
         \/ /\ UnchangedSince(s, job[p][s].snapshot)
            /\ cache' = [cache EXCEPT ![s] =
                           Stamped(job[p][s].next, NewStamp(s))]
  BY DEF JobPublish, Finish
<1> QED BY <1>1, StoreKeeps, JobMoves, FixedJobs, FixedJobsOK

LEMMA PanicKeeps ==
  ASSUME CacheInv, NEW p \in Procs, NEW s \in Shops, JobPanics(p, s)
  PROVE  CacheInv'
<1>1. SetJob(p, s, NoJob) /\ UNCHANGED <<rows, cache, editor, invalidated, now>>
  BY DEF JobPanics, Finish
<1> QED BY <1>1, JobMoves, FixedJobs, FixedJobsOK
-----------------------------------------------------------------------------
(* Readers, shop-update and the environment *)

LEMMA ReaderKeeps ==
  ASSUME CacheInv, NEW r \in Readers, ReaderStep(r)
  PROVE  CacheInv'
<1>1. UNCHANGED <<rows, cache, editor, invalidated, now>>
  BY DEF ReaderStep, ReaderLoad, ReaderStale, ReaderCold, ReaderLeaves
<1>2. job' = job \/ Start(reader[r].proc, reader[r].shop)
  BY DEF ReaderStep, ReaderLoad, ReaderStale, ReaderCold, ReaderLeaves
<1>3. now' \in Nat
  BY <1>1 DEF CacheInv, DataOK
<1> QED BY <1>1, <1>2, <1>3, FrameKeeps, JobStarts

LEMMA UpdateKeeps ==
  ASSUME CacheInv, NEW e \in Editors, NEW s \in Shops, Update(e, s)
  PROVE  CacheInv'
<1>1. /\ rows' = [rows EXCEPT ![s] = Append(@, TRUE)]
      /\ editor' = [editor EXCEPT ![e] =
                      [shop |-> s, commit |-> Len(rows[s]) + 1]]
      /\ UNCHANGED <<cache, job, invalidated, now>>
  BY DEF Update, Commit
<1>2. Len(rows[s]) + 1 \in Nat
  BY DEF CacheInv, DataOK
<1>3. editor' \in [Editors -> [shop : Shops \cup {NoShop}, commit : Nat]]
  BY <1>1, <1>2 DEF CacheInv, DataOK
<1>4. \A f \in Editors :
         \/ editor'[f] = editor[f]
         \/ editor'[f] = [shop |-> s, commit |-> Len(rows[s]) + 1]
  BY <1>1 DEF CacheInv, DataOK
<1> QED BY <1>1, <1>3, <1>4, RowGrows

LEMMA InvalidateKeeps ==
  ASSUME CacheInv, NEW e \in Editors, Invalidate(e)
  PROVE  CacheInv'
<1> DEFINE s == editor[e].shop
           n == editor[e].commit
<1>1. editor' = [editor EXCEPT ![e] = NoEdit]
      /\ UNCHANGED <<rows, job, now>>
  BY DEF Invalidate
<1>2. /\ s \in Shops /\ n \in Nat
      /\ n <= Len(rows[s]) /\ invalidated[s] <= Len(rows[s])
      /\ invalidated[s] \in Nat
  BY DEF Invalidate, CacheInv, EditsCommitted, DataOK
<1>3. /\ editor' \in [Editors -> [shop : Shops \cup {NoShop}, commit : Nat]]
      /\ \A f \in Editors : editor'[f] \in {editor[f], NoEdit}
  BY <1>1 DEF CacheInv, DataOK, NoEdit
<1>4. CASE UNCHANGED <<cache, invalidated>>
  <2>1. DataOK'
    BY <1>1, <1>3, <1>4 DEF CacheInv, DataOK
  <2>2. \A t \in Shops : CacheOK(t)'
    BY <1>1, <1>4 DEF CacheInv, CacheOK, Genuine, Excused
  <2>3. \A q \in Procs, t \in Shops : JobOK(t, job[q][t])'
    BY <1>1, <1>4 DEF CacheInv, JobOK, Genuine, Holds, Excused
  <2>4. EditsCommitted'
    BY <1>1, <1>3, <1>4 DEF CacheInv, EditsCommitted
  <2> QED BY <2>1, <2>2, <2>3, <2>4 DEF CacheInv
<1>5. CASE /\ cache' = [cache EXCEPT ![s] = NoEntry]
           /\ invalidated' = [invalidated EXCEPT ![s] = Later(@, n)]
  <2>1. Later(invalidated[s], n) \in Nat
        /\ Later(invalidated[s], n) <= Len(rows[s])
    BY <1>2 DEF Later
  <2>2. /\ invalidated' \in [Shops -> Nat]
        /\ invalidated'[s] <= Len(rows[s])
        /\ \A t \in Shops \ {s} : invalidated'[t] = invalidated[t]
    BY <1>2, <1>5, <2>1 DEF CacheInv, DataOK
  <2> QED BY <1>1, <1>2, <1>3, <1>5, <2>2, KeyDropped
<1> QED BY <1>4, <1>5 DEF Invalidate

LEMMA EnvironmentKeeps ==
  ASSUME CacheInv
  PROVE  /\ \A s \in Shops : DirectSQL(s) \/ KeyVanishes(s) => CacheInv'
         /\ Tick => CacheInv'
<1>1. ASSUME NEW s \in Shops, DirectSQL(s) PROVE CacheInv'
  <2>1. (~Exists(s)) \in BOOLEAN
    OBVIOUS
  <2>2. /\ rows' = [rows EXCEPT ![s] = Append(@, ~Exists(s))]
        /\ UNCHANGED <<cache, job, editor, invalidated, now>>
    BY <1>1 DEF DirectSQL
  <2>3. editor' \in [Editors -> [shop : Shops \cup {NoShop}, commit : Nat]]
    BY <2>2 DEF CacheInv, DataOK
  <2> QED BY <2>1, <2>2, <2>3, RowGrows
<1>2. ASSUME NEW s \in Shops, KeyVanishes(s) PROVE CacheInv'
  <2>1. /\ cache' = [cache EXCEPT ![s] = NoEntry]
        /\ UNCHANGED <<rows, job, editor, invalidated, now>>
    BY <1>2 DEF KeyVanishes
  <2>2. /\ editor' \in [Editors -> [shop : Shops \cup {NoShop}, commit : Nat]]
        /\ invalidated' \in [Shops -> Nat]
        /\ invalidated'[s] <= Len(rows[s])
    BY <2>1 DEF CacheInv, DataOK, EditsCommitted
  <2> QED BY <2>1, <2>2, KeyDropped
<1>3. ASSUME Tick PROVE CacheInv'
  <2>1. now' \in Nat /\ UNCHANGED <<rows, cache, job, editor, invalidated>>
    BY <1>3 DEF Tick, CacheInv, DataOK
  <2> QED BY <2>1, FrameKeeps
<1> QED BY <1>1, <1>2, <1>3

LEMMA StepKeepsCache == CacheInv /\ [Next]_vars => CacheInv'
<1> SUFFICES ASSUME CacheInv, [Next]_vars PROVE CacheInv'
  OBVIOUS
<1>1. ASSUME NEW p \in Procs, NEW s \in Shops, JobStep(p, s) \/ JobPanics(p, s)
      PROVE  CacheInv'
  BY <1>1, LoadKeeps, QueryKeeps, PublishKeeps, PanicKeeps DEF JobStep
<1>2. ASSUME NEW e \in Editors, EditorStep(e) PROVE CacheInv'
  BY <1>2, UpdateKeeps, InvalidateKeeps DEF EditorStep
<1>3. CASE UNCHANGED vars
  <2>1. now' \in Nat /\ UNCHANGED <<rows, cache, job, editor, invalidated>>
    BY <1>3 DEF vars, CacheInv, DataOK
  <2> QED BY <2>1, FrameKeeps
<1> QED BY <1>1, <1>2, <1>3, ReaderKeeps, EnvironmentKeeps DEF Next

\* Only a publication puts a record where there was one.
LEMMA StepNeverGoesBack ==
  ASSUME CacheInv, [Next]_vars, NEW s \in Shops,
         Present(cache[s]), Present(cache'[s])
  PROVE  cache'[s].commit >= cache[s].commit
<1>1. cache[s].commit \in Nat /\ cache \in [Shops -> Entry]
  BY DEF CacheInv, DataOK, Entry
<1>2. CASE cache'[s] = cache[s]
  BY <1>1, <1>2
<1>3. ASSUME NEW t \in Shops, cache' = [cache EXCEPT ![t] = NoEntry]
      PROVE  cache'[s] = cache[s]
  BY <1>1, <1>3, NoEntryFields
<1>4. ASSUME NEW p \in Procs, NEW t \in Shops, JobPublish(p, t),
             cache'[s] # cache[s]
      PROVE  cache'[s].commit >= cache[s].commit
  <2>1. /\ job[p][t].pc = "publish" /\ SetJob(p, t, NoJob)
        /\ UNCHANGED <<rows, editor, invalidated, now>>
        /\ UnchangedSince(t, job[p][t].snapshot)
        /\ cache' = [cache EXCEPT ![t] =
                       Stamped(job[p][t].next, NewStamp(t))]
    BY <1>4 DEF JobPublish, Finish
  <2>2. t = s
    BY <1>1, <1>4, <2>1
  <2> QED BY <2>1, <2>2, StoreKeeps
<1>5. ASSUME NEW p \in Procs, NEW t \in Shops, JobStep(p, t) \/ JobPanics(p, t),
             cache'[s] # cache[s]
      PROVE  cache'[s].commit >= cache[s].commit
  BY <1>4, <1>5 DEF JobStep, JobLoad, JobQuery, JobPanics
<1>6. ASSUME NEW r \in Readers, ReaderStep(r) PROVE cache' = cache
  BY <1>6 DEF ReaderStep, ReaderLoad, ReaderStale, ReaderCold, ReaderLeaves
<1>7. ASSUME NEW e \in Editors, EditorStep(e) PROVE cache'[s] = cache[s]
  <2>1. editor[e] # NoEdit => editor[e].shop \in Shops
    BY DEF CacheInv, EditsCommitted
  <2> QED BY <1>3, <1>7, <2>1 DEF EditorStep, Update, Invalidate
<1>8. ASSUME NEW t \in Shops, DirectSQL(t) \/ KeyVanishes(t)
      PROVE  cache'[s] = cache[s]
  BY <1>3, <1>8 DEF DirectSQL, KeyVanishes
<1>9. CASE Tick \/ UNCHANGED vars
  BY <1>2, <1>9 DEF Tick, vars
<1> QED BY <1>2, <1>5, <1>6, <1>7, <1>8, <1>9 DEF Next
-----------------------------------------------------------------------------
LEMMA ExcusedSticks == CacheInv => InvalidationSticks
<1> SUFFICES ASSUME CacheInv, NEW s \in Shops, Present(cache[s]),
                    cache[s].commit < invalidated[s]
             PROVE  cache[s].blind
  BY DEF InvalidationSticks
<1>1. Excused(s, cache[s])
  BY DEF CacheInv, CacheOK
<1>2. cache[s].commit \in Nat /\ invalidated[s] \in Nat
  BY DEF CacheInv, DataOK, Entry
<1> QED BY <1>1, <1>2 DEF Excused

LEMMA GenuineExpires == CacheInv => HardExpiryIsHard
<1> SUFFICES ASSUME CacheInv, NEW s \in Shops
             PROVE  cache[s].expiresAt
                       <= cache[s].read + FreshTTL + StaleTTL
  BY DEF HardExpiryIsHard
<1>1. CASE cache[s] = NoEntry
  BY <1>1, NoEntryFields, CacheAssumption DEF CacheAssumption
<1>2. CASE Genuine(s, cache[s])
  BY <1>2 DEF Genuine
<1> QED BY <1>1, <1>2 DEF CacheInv, CacheOK

LEMMA GenuineAbsence == CacheInv => AbsenceIsReal
BY NoEntryFields DEF CacheInv, CacheOK, Genuine, AbsenceIsReal

THEOREM CacheInvariant == Spec => []CacheInv
BY InitCache, StepKeepsCache, PTL DEF Spec

\* However many processes rebuild, commit and delete at once: once a DEL
\* succeeded, a record of the row as it was before can only come from a
\* rebuild that had found no token to compare.
THEOREM InvalidationAlwaysSticks == Spec => []InvalidationSticks
BY ExcusedSticks, CacheInvariant, PTL

\* However often rebuilds fail, no record outlives the read of its row by
\* more than the hard lifetime.
THEOREM HardExpiryIsAlwaysHard == Spec => []HardExpiryIsHard
BY GenuineExpires, CacheInvariant, PTL

\* A row is cached as missing only if the commit the record shows lacks it.
THEOREM AbsenceIsAlwaysReal == Spec => []AbsenceIsReal
BY GenuineAbsence, CacheInvariant, PTL

\* A record that is replaced is never replaced by an older state of the row.
THEOREM CacheNeverGoesBack == Spec => CachedNeverGoesBack
<1>1. CacheInv /\ [Next]_vars =>
         [ \A s \in Shops :
             (Present(cache[s]) /\ Present(cache'[s])) =>
                cache'[s].commit >= cache[s].commit ]_vars
  BY StepNeverGoesBack
<1> QED BY <1>1, CacheInvariant, PTL DEF Spec, CachedNeverGoesBack

-----------------------------------------------------------------------------
(* Shutdown *)

\* A request inside Shop.Detail is one its process accepted and has not
\* answered.
RequestsOK ==
    /\ reader \in [Readers -> [pc : {"idle", "stale", "cold", "waiting"},
                               proc : Procs \cup {NoProc},
                               shop : Shops \cup {NoShop}]]
    /\ \A r \in Readers :
          reader[r] # Idle => /\ reader[r].proc \in Procs
                              /\ reader[r].shop \in Shops
                              /\ conn[r] = reader[r].proc

\* Nothing reaches a process that never listened.
UnstartedOK ==
    /\ \A r \in Readers : conn[r] \in Procs => hertz[conn[r]] # "none"
    /\ \A p \in Procs : hertz[p] = "none" => Inflight(p) = {}

\* drained is closed when Close was called and the last rebuild is gone.
DrainOK(p) ==
    /\ drains[p] \in {0, 1}
    /\ drains[p] = 1 => Closed(p) /\ Inflight(p) = {}
    /\ closer[p] = "done" => drains[p] = 1

ShopClosed(p) == closer[p] \in {"done", "timed out"}

\* How far run is, and what it knows by then.
RunOK(p) ==
    /\ phase[p] \in {"mysql", "returned"} => pools[p] = {}
    /\ phase[p] \in {"mysql", "redis", "listen"} => hertz[p] = "none"
    /\ phase[p] \in {"draining", "joining"} => cancelled[p]
    /\ phase[p] = "joining" /\ errs[p] = {} =>
          InFlight(p) = {} \/ hertz[p] = "failed"
    /\ phase[p] \in {"closing", "pools", "returned"} /\ errs[p] = {} =>
          hertz[p] = "stopped" /\ cancelled[p] /\ InFlight(p) = {}
    /\ phase[p] = "pools" => ShopClosed(p)
    /\ phase[p] = "returned" => ShopClosed(p) \/ hertz[p] = "none"

ServerInv ==
    /\ ServerTypeOK
    /\ closer \in [Procs -> {"serving", "waiting", "done", "timed out"}]
    /\ drains \in [Procs -> {0, 1}]
    /\ RequestsOK
    /\ UnstartedOK
    /\ \A p \in Procs : DrainOK(p)
    /\ \A p \in Procs : RunOK(p)

-----------------------------------------------------------------------------
(* What a step does to the rebuilds *)

ShopFrame == <<job, drains, closer>>

\* A reader starts a rebuild.
StartStep(r) ==
    LET p == reader[r].proc
        s == reader[r].shop IN
    /\ reader[r].pc \in {"stale", "cold"}
    /\ ~Closed(p) /\ Start(p, s)
    /\ UNCHANGED <<drains, closer, conn, hertz>>

\* A rebuild goes on, or ends.
GoesOn(p, s) ==
    /\ job[p][s].pc # "none"
    /\ \E j : j.pc # "none" /\ SetJob(p, s, j)
    /\ UNCHANGED <<drains, closer, reader, conn, hertz>>

Ends(p, s) ==
    /\ job[p][s].pc # "none"
    /\ Finish(p, s)
    /\ UNCHANGED <<closer, conn, hertz>>

LEMMA JobEffect ==
  ASSUME NEW p \in Procs, NEW s \in Shops, Rebuild(p, s)
  PROVE  GoesOn(p, s) \/ Ends(p, s)
<1>1. CASE JobLoad(p, s)
  <2>1. \A e : Querying(e).pc = "query"
    BY DEF Querying
  <2> QED BY <1>1, <2>1 DEF JobLoad, GoesOn, Ends, Rebuild, serverVars
<1>2. CASE JobQuery(p, s)
  <2>1. \A e, f : Publishing(e, f).pc = "publish"
    BY DEF Publishing
  <2> QED BY <1>2, <2>1 DEF JobQuery, GoesOn, Ends, Rebuild, serverVars
<1>3. CASE JobPublish(p, s)
  BY <1>3 DEF JobPublish, Ends, Rebuild, serverVars
<1>4. CASE JobPanics(p, s)
  BY <1>4 DEF JobPanics, Ends, Rebuild, serverVars
<1> QED BY <1>1, <1>2, <1>3, <1>4 DEF Rebuild, JobStep

LEMMA HandleEffect ==
  ASSUME NEW r \in Readers, Handle(r)
  PROVE  StartStep(r) \/ UNCHANGED ShopFrame
<1>1. CASE ReaderStale(r)
  BY <1>1 DEF ReaderStale, Handle, StartStep, MayStart, ShopFrame, serverVars
<1>2. CASE ReaderCold(r)
  BY <1>2 DEF ReaderCold, Handle, StartStep, MayStart, ShopFrame, serverVars
<1> QED BY <1>1, <1>2 DEF Handle, ReaderLoad, ReaderLeaves, ShopFrame

\* Everything but the rebuilds, their requests and Shop.Close leaves them alone.
LEMMA ShopEffect ==
  ASSUME [ServerNext]_allVars
  PROVE  \/ \E p \in Procs, s \in Shops : GoesOn(p, s) \/ Ends(p, s)
         \/ \E r \in Readers : StartStep(r)
         \/ \E p \in Procs : Close(p) \/ CloseReturns(p)
         \/ UNCHANGED ShopFrame
<1>1. ASSUME NEW p \in Procs, MainStep(p)
      PROVE  Close(p) \/ CloseReturns(p) \/ UNCHANGED ShopFrame
  BY <1>1 DEF MainStep, OpenMySQL, OpenRedis, Listen, AwaitReady, AwaitStop,
     ShutdownReturns, Join, CloseShop, CloseShopReturns, ClosePools, cacheVars, vars,
     ShopFrame
<1>2. ASSUME NEW p \in Procs, RunReady(p) \/ RunFails(p) \/ RunStops(p)
                              \/ Cancel(p) \/ Expire(p)
      PROVE  UNCHANGED ShopFrame
  BY <1>2 DEF RunReady, RunFails, RunStops, Cancel, Expire, cacheVars, vars, ShopFrame
<1>3. ASSUME NEW r \in Readers, Respond(r) \/ \E p \in Procs : Accept(r, p)
      PROVE  UNCHANGED ShopFrame
  BY <1>3 DEF Respond, Accept, vars, ShopFrame
<1>4. Elsewhere => UNCHANGED ShopFrame
  BY DEF Elsewhere, EditorStep, Invalidate, Update, DirectSQL, KeyVanishes, Tick,
         ShopFrame
<1>5. UNCHANGED allVars => UNCHANGED ShopFrame
  BY DEF allVars, vars, ShopFrame
<1> QED BY <1>1, <1>2, <1>3, <1>4, <1>5, JobEffect, HandleEffect DEF ServerNext

LEMMA GoesOnKeeps ==
  ASSUME job \in [Procs -> [Shops -> Job]],
         NEW p \in Procs, NEW s \in Shops, GoesOn(p, s)
  PROVE  \A q \in Procs : Inflight(q)' = Inflight(q)
<1>1. PICK j : j.pc # "none" /\ job' = [job EXCEPT ![p][s] = j]
  BY DEF GoesOn, SetJob
<1>2. \A q \in Procs, t \in Shops :
         job'[q][t] = IF q = p /\ t = s THEN j ELSE job[q][t]
  BY <1>1
<1>3. job[p][s].pc # "none"
  BY DEF GoesOn
<1>4. \A q \in Procs, t \in Shops :
         job'[q][t].pc # "none" <=> job[q][t].pc # "none"
  BY <1>1, <1>2, <1>3
<1> QED BY <1>4 DEF Inflight

LEMMA EndsShrinks ==
  ASSUME job \in [Procs -> [Shops -> Job]],
         NEW p \in Procs, NEW s \in Shops, Ends(p, s)
  PROVE  /\ s \in Inflight(p) /\ Inflight(p)' = Inflight(p) \ {s}
         /\ \A q \in Procs \ {p} : Inflight(q)' = Inflight(q)
<1>1. NoJob.pc = "none"
  BY DEF NoJob
<1> QED BY <1>1 DEF Ends, Finish, SetJob, Inflight

LEMMA StartsFor ==
  ASSUME job \in [Procs -> [Shops -> Job]], RequestsOK,
         NEW r \in Readers, StartStep(r)
  PROVE  LET p == reader[r].proc IN
         /\ p \in Procs /\ conn[r] = p
         /\ \A q \in Procs \ {p} : Inflight(q)' = Inflight(q)
<1>1. reader[r].pc # "idle" /\ Idle.pc = "idle"
  BY DEF StartStep, Idle
<1>2. reader[r] # Idle
  BY <1>1
<1>3. /\ reader[r].proc \in Procs /\ reader[r].shop \in Shops
      /\ conn[r] = reader[r].proc
  BY <1>2 DEF RequestsOK
<1> QED BY <1>3 DEF StartStep, Start, SetJob, Inflight

-----------------------------------------------------------------------------
(* The drained channel *)

LEMMA DrainStep ==
  ASSUME DataOK, ServerInv, [ServerNext]_allVars
  PROVE  /\ closer' \in [Procs -> {"serving", "waiting", "done", "timed out"}]
         /\ drains' \in [Procs -> {0, 1}]
         /\ \A p \in Procs : DrainOK(p)'
<1>0. /\ job \in [Procs -> [Shops -> Job]]
      /\ closer \in [Procs -> {"serving", "waiting", "done", "timed out"}]
      /\ drains \in [Procs -> {0, 1}]
      /\ \A p \in Procs : DrainOK(p)
  BY DEF DataOK, ServerInv
<1>1. CASE \E p \in Procs, s \in Shops : GoesOn(p, s)
  <2>1. PICK p \in Procs, s \in Shops : GoesOn(p, s)
    BY <1>1
  <2>2. \A q \in Procs : Inflight(q)' = Inflight(q)
    BY <1>0, <2>1, GoesOnKeeps
  <2>3. UNCHANGED <<drains, closer>>
    BY <2>1 DEF GoesOn
  <2> QED BY <1>0, <2>2, <2>3 DEF DrainOK, Closed
<1>2. CASE \E p \in Procs, s \in Shops : Ends(p, s)
  <2>1. PICK p \in Procs, s \in Shops : Ends(p, s)
    BY <1>2
  <2>3. /\ s \in Inflight(p) /\ Inflight(p)' = Inflight(p) \ {s}
        /\ \A q \in Procs \ {p} : Inflight(q)' = Inflight(q)
    BY <1>0, <2>1, EndsShrinks
  <2>4. drains[p] = 0
    BY <1>0, <2>3 DEF DrainOK
  <2>5. /\ UNCHANGED closer
        /\ drains' = IF Closed(p) /\ Inflight(p) = {s}
                     THEN [drains EXCEPT ![p] = 1] ELSE drains
    BY <2>1, <2>4 DEF Ends, Finish, SignalDrained
  <2>6. drains' \in [Procs -> {0, 1}]
    BY <1>0, <2>5
  <2>7. ASSUME NEW q \in Procs PROVE DrainOK(q)'
    <3>1. CASE q = p
      BY <1>0, <2>3, <2>4, <2>5, <3>1 DEF DrainOK, Closed
    <3>2. CASE q # p
      BY <1>0, <2>3, <2>5, <3>2 DEF DrainOK, Closed
    <3> QED BY <3>1, <3>2
  <2> QED BY <1>0, <2>5, <2>6, <2>7
<1>3. CASE \E r \in Readers : StartStep(r)
  <2>1. PICK r \in Readers : StartStep(r)
    BY <1>3
  <2> DEFINE p == reader[r].proc
             s == reader[r].shop
  <2>2. p \in Procs
    BY <1>0, <2>1, StartsFor DEF ServerInv
  <2>3. ~Closed(p) /\ UNCHANGED <<drains, closer>>
    BY <2>1 DEF StartStep
  <2>4. \A q \in Procs \ {p} : Inflight(q)' = Inflight(q)
    BY <1>0, <2>1, StartsFor DEF ServerInv
  <2> HIDE DEF p, s
  <2> QED BY <1>0, <2>2, <2>3, <2>4 DEF DrainOK, Closed
<1>4. CASE \E p \in Procs : Close(p)
  <2>1. PICK p \in Procs : Close(p)
    BY <1>4
  <2>2. \A q \in Procs : Inflight(q)' = Inflight(q)
    BY <2>1 DEF Close, Inflight
  <2>3. drains[p] = 0
    BY <1>0, <2>1 DEF Close, DrainOK, Closed
  <2>4. /\ closer' = [closer EXCEPT ![p] = "waiting"]
        /\ drains' = IF Inflight(p) = {} THEN [drains EXCEPT ![p] = 1] ELSE drains
    BY <2>1, <2>3 DEF Close
  <2> QED BY <1>0, <2>2, <2>3, <2>4 DEF DrainOK, Closed
<1>5. CASE \E p \in Procs : CloseReturns(p)
  <2>1. PICK p \in Procs : CloseReturns(p)
    BY <1>5
  <2>2. \A q \in Procs : Inflight(q)' = Inflight(q)
    BY <2>1 DEF CloseReturns, Inflight
  <2>3. UNCHANGED drains
    BY <2>1 DEF CloseReturns
  <2>4. /\ closer[p] = "waiting"
        /\ \/ drains[p] = 1 /\ closer' = [closer EXCEPT ![p] = "done"]
           \/ closer' = [closer EXCEPT ![p] = "timed out"]
    <3>1. drains[p] \in {0, 1}
      BY <1>0
    <3>2. drains[p] > 0 => drains[p] = 1
      BY <3>1
    <3> QED BY <2>1, <3>2 DEF CloseReturns
  <2> QED BY <1>0, <2>2, <2>3, <2>4 DEF DrainOK, Closed
<1>6. CASE UNCHANGED ShopFrame
  BY <1>0, <1>6 DEF ShopFrame, DrainOK, Closed, Inflight
<1> QED BY <1>1, <1>2, <1>3, <1>4, <1>5, <1>6, ShopEffect

-----------------------------------------------------------------------------
(* Requests *)

LEMMA RequestStep ==
  ASSUME ServerTypeOK, RequestsOK, [ServerNext]_allVars
  PROVE  RequestsOK'
<1> USE DEF RequestsOK
<1>1. CASE UNCHANGED <<reader, conn>>
  BY <1>1
<1>2. ASSUME NEW r \in Readers, NEW p \in Procs, Accept(r, p)
      PROVE  RequestsOK'
  <2>1. reader' = reader /\ conn[r] = NoProc /\ conn' = [conn EXCEPT ![r] = p]
    BY <1>2 DEF Accept, vars
  <2>2. reader[r] = Idle
    BY <2>1, ProcAssumption
  <2> QED BY <2>1, <2>2 DEF ServerTypeOK
<1>3. ASSUME NEW r \in Readers, Respond(r)
      PROVE  RequestsOK'
  BY <1>3 DEF Respond, vars, ServerTypeOK
<1>4. ASSUME NEW r \in Readers, Handle(r)
      PROVE  RequestsOK'
  <2>1. conn' = conn
    BY <1>4 DEF Handle, serverVars
  <2>2. CASE \E s \in Shops, p \in Procs : conn[r] = p /\ ReaderLoad(r, p, s)
    <3>1. PICK s \in Shops, p \in Procs, pc \in {"stale", "cold"} :
             /\ conn[r] = p
             /\ reader' = [reader EXCEPT ![r] =
                             [pc |-> pc, proc |-> p, shop |-> s]]
      BY <2>2 DEF ReaderLoad
    <3> DEFINE new == [pc |-> pc, proc |-> p, shop |-> s]
    <3>2. /\ new.proc = p /\ new.shop = s
          /\ new \in [pc : {"idle", "stale", "cold", "waiting"},
                      proc : Procs \cup {NoProc}, shop : Shops \cup {NoShop}]
      OBVIOUS
    <3> HIDE DEF new
    <3> QED BY <2>1, <3>1, <3>2 DEF new
  <2>3. CASE reader' = [reader EXCEPT ![r] = Idle]
    <3>1. Idle \in [pc : {"idle", "stale", "cold", "waiting"},
                    proc : Procs \cup {NoProc}, shop : Shops \cup {NoShop}]
      BY DEF Idle
    <3> QED BY <2>1, <2>3, <3>1
  <2>4. CASE reader' = [reader EXCEPT ![r].pc = "waiting"] /\ reader[r].pc = "cold"
    <3>1. reader[r] # Idle
      BY <2>4 DEF Idle
    <3> QED BY <2>1, <2>4, <3>1
  <2> QED BY <1>4, <2>2, <2>3, <2>4
          DEF Handle, ReaderStale, ReaderCold, ReaderLeaves
<1>5. ASSUME NEW p \in Procs, NEW s \in Shops, Rebuild(p, s)
      PROVE  RequestsOK'
  <2>1. conn' = conn
    BY <1>5 DEF Rebuild, serverVars
  <2>2. reader' = reader \/ AnswerWaiters(p, s)
    BY <1>5, JobEffect DEF GoesOn, Ends, Finish
  <2>3. Idle \in [pc : {"idle", "stale", "cold", "waiting"},
                  proc : Procs \cup {NoProc}, shop : Shops \cup {NoShop}]
    BY DEF Idle
  <2> QED BY <2>1, <2>2, <2>3 DEF AnswerWaiters
<1>6. ASSUME NEW p \in Procs, MainStep(p)
      PROVE  UNCHANGED <<reader, conn>>
  BY <1>6 DEF MainStep, OpenMySQL, OpenRedis, Listen, AwaitReady, AwaitStop,
     ShutdownReturns, Join, CloseShop, CloseShopReturns, ClosePools, Close,
     CloseReturns, cacheVars, vars, serverVars
<1>7. ASSUME NEW p \in Procs, RunReady(p) \/ RunFails(p) \/ RunStops(p)
                              \/ Cancel(p) \/ Expire(p)
      PROVE  UNCHANGED <<reader, conn>>
  BY <1>7 DEF RunReady, RunFails, RunStops, Cancel, Expire, cacheVars, vars
<1>8. Elsewhere => UNCHANGED <<reader, conn>>
  BY DEF Elsewhere, EditorStep, Invalidate, Update, DirectSQL, KeyVanishes, Tick,
         serverVars
<1>9. UNCHANGED allVars => UNCHANGED <<reader, conn>>
  BY DEF allVars, vars, serverVars
<1> QED BY <1>1, <1>2, <1>3, <1>4, <1>5, <1>6, <1>7, <1>8, <1>9 DEF ServerNext

\* Which steps Hertz and the connections move in.
LEMMA HertzMoves ==
  ASSUME ServerTypeOK, [ServerNext]_allVars
  PROVE  /\ \A p \in Procs : hertz'[p] = "none" => hertz[p] = "none"
         /\ \/ \A r \in Readers : conn'[r] \in {conn[r], NoProc}
            \/ \E r \in Readers, p \in Procs :
                  /\ hertz[p] = "accepting" /\ UNCHANGED hertz
                  /\ conn' = [conn EXCEPT ![r] = p]
<1> USE DEF ServerTypeOK
<1>1. ASSUME NEW p \in Procs, MainStep(p)
      PROVE  /\ UNCHANGED conn
             /\ hertz' = hertz \/ hertz' = [hertz EXCEPT ![p] = "starting"]
  BY <1>1 DEF MainStep, OpenMySQL, OpenRedis, Listen, AwaitReady, AwaitStop,
     ShutdownReturns, Join, CloseShop, CloseShopReturns, ClosePools, serverVars
<1>2. ASSUME NEW p \in Procs, RunReady(p) \/ RunFails(p) \/ RunStops(p)
                              \/ Cancel(p) \/ Expire(p)
      PROVE  /\ UNCHANGED conn
             /\ \/ hertz' = hertz
                \/ \E h \in {"accepting", "failed", "stopped"} :
                      hertz' = [hertz EXCEPT ![p] = h]
  BY <1>2 DEF RunReady, RunFails, RunStops, Cancel, Expire
<1>3. ASSUME NEW r \in Readers, Respond(r)
      PROVE  UNCHANGED hertz /\ conn' = [conn EXCEPT ![r] = NoProc]
  BY <1>3 DEF Respond
<1>4. ASSUME NEW r \in Readers, NEW p \in Procs, Accept(r, p)
      PROVE  /\ hertz[p] = "accepting" /\ UNCHANGED hertz
             /\ conn' = [conn EXCEPT ![r] = p]
  BY <1>4 DEF Accept
<1>5. ASSUME \/ \E r \in Readers : Handle(r)
             \/ \E p \in Procs, s \in Shops : Rebuild(p, s)
             \/ Elsewhere \/ UNCHANGED allVars
      PROVE  UNCHANGED <<conn, hertz>>
  BY <1>5 DEF Handle, Rebuild, Elsewhere, allVars, serverVars
<1>6. CASE \E p \in Procs : MainStep(p)
  BY <1>1, <1>6
<1>7. CASE \E p \in Procs : RunReady(p) \/ RunFails(p) \/ RunStops(p)
                            \/ Cancel(p) \/ Expire(p)
  BY <1>2, <1>7
<1>8. CASE \E r \in Readers : Respond(r)
  BY <1>3, <1>8
<1> QED BY <1>4, <1>5, <1>6, <1>7, <1>8 DEF ServerNext

LEMMA UnstartedStep ==
  ASSUME DataOK, ServerTypeOK, RequestsOK, UnstartedOK, [ServerNext]_allVars
  PROVE  UnstartedOK'
<1>0. job \in [Procs -> [Shops -> Job]]
  BY DEF DataOK
<1>1. \A p \in Procs : hertz'[p] = "none" => hertz[p] = "none"
  BY HertzMoves
<1>2. \A r \in Readers : conn'[r] \in Procs => hertz'[conn'[r]] # "none"
  <2>1. CASE \A r \in Readers : conn'[r] \in {conn[r], NoProc}
    BY <1>1, <2>1, ProcAssumption DEF UnstartedOK
  <2>2. CASE \E r \in Readers, p \in Procs :
                /\ hertz[p] = "accepting" /\ UNCHANGED hertz
                /\ conn' = [conn EXCEPT ![r] = p]
    BY <1>1, <2>2 DEF UnstartedOK, ServerTypeOK
  <2> QED BY <2>1, <2>2, HertzMoves
<1>3. ASSUME NEW p \in Procs, hertz[p] = "none"
      PROVE  Inflight(p)' = {}
  <2>1. Inflight(p) = {}
    BY <1>3 DEF UnstartedOK
  <2>2. ASSUME NEW q \in Procs, NEW s \in Shops, GoesOn(q, s) \/ Ends(q, s)
        PROVE  Inflight(p)' = {}
    BY <1>0, <2>1, <2>2, GoesOnKeeps, EndsShrinks
  <2>3. ASSUME NEW r \in Readers, StartStep(r)
        PROVE  Inflight(p)' = {}
    <3>1. /\ reader[r].proc \in Procs /\ conn[r] = reader[r].proc
          /\ \A q \in Procs \ {reader[r].proc} : Inflight(q)' = Inflight(q)
      BY <1>0, <2>3, StartsFor
    <3>2. p # reader[r].proc
      BY <1>3, <3>1 DEF UnstartedOK
    <3> QED BY <2>1, <3>1, <3>2
  <2>4. ASSUME NEW q \in Procs, Close(q) \/ CloseReturns(q)
        PROVE  UNCHANGED job
    BY <2>4 DEF Close, CloseReturns
  <2>5. UNCHANGED job => Inflight(p)' = {}
    BY <2>1 DEF Inflight
  <2>6. UNCHANGED ShopFrame => UNCHANGED job
    BY DEF ShopFrame
  <2> QED BY <2>2, <2>3, <2>4, <2>5, <2>6, ShopEffect
<1> QED BY <1>1, <1>2, <1>3 DEF UnstartedOK

-----------------------------------------------------------------------------
(* How far run is *)

LEMMA ServerTypeStep ==
  ASSUME ServerTypeOK, [ServerNext]_allVars
  PROVE  ServerTypeOK'
<1> USE DEF ServerTypeOK
<1>1. ASSUME NEW p \in Procs, OpenMySQL(p) PROVE ServerTypeOK'
  BY <1>1 DEF OpenMySQL, Goto, Report
<1>2. ASSUME NEW p \in Procs, OpenRedis(p) PROVE ServerTypeOK'
  BY <1>2 DEF OpenRedis, Goto, Report, KeptOpen
<1>3. ASSUME NEW p \in Procs, Listen(p) PROVE ServerTypeOK'
  BY <1>3 DEF Listen, Goto, Report
<1>4. ASSUME NEW p \in Procs, AwaitReady(p) PROVE ServerTypeOK'
  BY <1>4 DEF AwaitReady, RunEnded, Goto, Report
<1>5. ASSUME NEW p \in Procs, AwaitStop(p) PROVE ServerTypeOK'
  BY <1>5 DEF AwaitStop, RunEnded, BeginShutdown, Goto, Report
<1>6. ASSUME NEW p \in Procs, ShutdownReturns(p) PROVE ServerTypeOK'
  BY <1>6 DEF ShutdownReturns, Deadline, Goto, Report
<1>7. ASSUME NEW p \in Procs, Join(p) PROVE ServerTypeOK'
  BY <1>7 DEF Join, Outcome, Deadline, Goto, Report
<1>8. ASSUME NEW p \in Procs, CloseShop(p) \/ CloseShopReturns(p) \/ ClosePools(p)
      PROVE  ServerTypeOK'
  BY <1>8 DEF CloseShop, CloseShopReturns, ClosePools, Goto, serverVars
<1>9. ASSUME NEW p \in Procs, RunReady(p) \/ RunFails(p) \/ RunStops(p)
                              \/ Cancel(p) \/ Expire(p)
      PROVE  ServerTypeOK'
  BY <1>9 DEF RunReady, RunFails, RunStops, Cancel, Expire, mainVars
<1>10. ASSUME NEW r \in Readers, Respond(r) \/ \E p \in Procs : Accept(r, p)
       PROVE  ServerTypeOK'
  BY <1>10 DEF Respond, Accept, mainVars
<1>11. ASSUME \/ \E r \in Readers : Handle(r)
              \/ \E p \in Procs, s \in Shops : Rebuild(p, s)
              \/ Elsewhere \/ UNCHANGED allVars
       PROVE  ServerTypeOK'
  BY <1>11 DEF Handle, Rebuild, Elsewhere, allVars, serverVars
<1> QED BY <1>1, <1>2, <1>3, <1>4, <1>5, <1>6, <1>7, <1>8, <1>9, <1>10, <1>11
        DEF ServerNext, MainStep

\* Errors are joined, never dropped.
LEMMA ReportAdds ==
  ASSUME ServerTypeOK, NEW p \in Procs, NEW E, Report(p, E)
  PROVE  /\ errs'[p] = {} => errs[p] = {} /\ E = {}
         /\ \A q \in Procs \ {p} : errs'[q] = errs[q]
  BY DEF Report, ServerTypeOK

\* What RunOK says of p depends on.
SameRun(p) ==
    /\ phase'[p] = phase[p] /\ pools'[p] = pools[p] /\ errs'[p] = errs[p]
    /\ hertz'[p] = hertz[p] /\ cancelled'[p] = cancelled[p]
    /\ closer'[p] = closer[p]

\* A step of run is one of its own process.
LEMMA MainIsLocal ==
  ASSUME ServerTypeOK,
         closer \in [Procs -> {"serving", "waiting", "done", "timed out"}],
         NEW q \in Procs, MainStep(q), NEW p \in Procs \ {q}
  PROVE  SameRun(p)
<1> USE DEF ServerTypeOK, SameRun
<1>1. CASE OpenMySQL(q)
  BY <1>1 DEF OpenMySQL, Goto, Report, cacheVars
<1>2. CASE OpenRedis(q)
  BY <1>2 DEF OpenRedis, Goto, Report, cacheVars
<1>3. CASE Listen(q)
  BY <1>3 DEF Listen, Goto, Report, cacheVars
<1>4. CASE AwaitReady(q)
  BY <1>4 DEF AwaitReady, RunEnded, Goto, Report, vars
<1>5. CASE AwaitStop(q)
  BY <1>5 DEF AwaitStop, RunEnded, BeginShutdown, Goto, Report, vars
<1>6. CASE ShutdownReturns(q)
  BY <1>6 DEF ShutdownReturns, Goto, Report, vars
<1>7. CASE Join(q)
  BY <1>7 DEF Join, Goto, Report, vars
<1>8. CASE CloseShop(q)
  BY <1>8 DEF CloseShop, Close, serverVars
<1>9. CASE CloseShopReturns(q)
  BY <1>9 DEF CloseShopReturns, CloseReturns, Goto
<1>10. CASE ClosePools(q)
  BY <1>10 DEF ClosePools, Goto, vars
<1> QED BY <1>1, <1>2, <1>3, <1>4, <1>5, <1>6, <1>7, <1>8, <1>9, <1>10 DEF MainStep

\* A step of run knows afterwards what it saw.
LEMMA MainKeepsRun ==
  ASSUME ServerTypeOK,
         closer \in [Procs -> {"serving", "waiting", "done", "timed out"}],
         NEW p \in Procs, RunOK(p), MainStep(p)
  PROVE  RunOK(p)'
<1> USE DEF ServerTypeOK, ShopClosed, Goto
<1>0. UNCHANGED conn
  BY DEF MainStep, OpenMySQL, OpenRedis, Listen, AwaitReady, AwaitStop,
     ShutdownReturns, Join, CloseShop, CloseShopReturns, ClosePools, serverVars
<1>1. InFlight(p)' = InFlight(p)
  BY <1>0 DEF InFlight
<1>2. ASSUME NEW E, Report(p, E)
      PROVE  errs'[p] = {} => errs[p] = {} /\ E = {}
  BY <1>2, ReportAdds
<1>3. CASE OpenMySQL(p)
  <2>1. \/ phase'[p] = "redis"
        \/ phase'[p] = "returned" /\ errs'[p] # {}
    BY <1>2, <1>3 DEF OpenMySQL
  <2>2. /\ phase'[p] = "returned" => pools'[p] = {}
        /\ hertz'[p] = "none"
    BY <1>3 DEF OpenMySQL, RunOK
  <2> QED BY <2>1, <2>2 DEF RunOK
<1>4. CASE OpenRedis(p)
  <2>1. \/ phase'[p] = "listen"
        \/ phase'[p] = "returned" /\ errs'[p] # {} /\ pools'[p] = {}
    BY <1>2, <1>4 DEF OpenRedis, KeptOpen
  <2>2. hertz'[p] = "none"
    BY <1>4 DEF OpenRedis, RunOK
  <2> QED BY <2>1, <2>2 DEF RunOK
<1>5. CASE Listen(p)
  <2>1. \/ phase'[p] = "starting"
        \/ phase'[p] = "closing" /\ errs'[p] # {}
    BY <1>2, <1>5 DEF Listen
  <2> QED BY <2>1 DEF RunOK
<1>6. CASE AwaitReady(p)
  <2>1. \/ phase'[p] = "serving"
        \/ phase'[p] = "closing" /\ errs'[p] # {}
    BY <1>2, <1>6 DEF AwaitReady, RunEnded
  <2> QED BY <2>1 DEF RunOK
<1>7. CASE AwaitStop(p)
  <2>1. \/ phase'[p] = "draining" /\ cancelled'[p]
        \/ phase'[p] = "closing" /\ errs'[p] # {}
    BY <1>2, <1>7 DEF AwaitStop, RunEnded, BeginShutdown
  <2> QED BY <2>1 DEF RunOK
<1>8. CASE ShutdownReturns(p)
  <2>1. /\ phase'[p] = "joining" /\ cancelled'[p]
        /\ UNCHANGED hertz
        /\ InFlight(p) = {} \/ expired[p] \/ hertz[p] = "failed"
    BY <1>8 DEF ShutdownReturns, RunOK
  <2>2. expired[p] => errs'[p] # {}
    BY <1>2, <1>8 DEF ShutdownReturns, Deadline
  <2> QED BY <1>1, <2>1, <2>2 DEF RunOK
<1>9. CASE Join(p)
  <2>1. /\ phase[p] = "joining" /\ phase'[p] = "closing"
        /\ cancelled'[p] /\ UNCHANGED hertz
    BY <1>9 DEF Join, RunOK
  <2>2. errs'[p] = {} => errs[p] = {} /\ hertz[p] = "stopped"
    <3>1. CASE hertz[p] = "failed" /\ Report(p, Outcome(p))
      BY <1>2, <3>1 DEF Outcome
    <3>2. CASE hertz[p] = "stopped" /\ Report(p, Outcome(p))
      BY <1>2, <3>2
    <3>3. CASE expired[p] /\ Report(p, Deadline(p))
      BY <1>2, <3>3 DEF Deadline
    <3> QED BY <1>9, <3>1, <3>2, <3>3 DEF Join, OutOfTime
  <2> QED BY <1>1, <2>1, <2>2 DEF RunOK
<1>10. CASE CloseShop(p)
  <2>1. UNCHANGED serverVars /\ phase[p] = "closing"
    BY <1>10 DEF CloseShop
  <2> QED BY <1>1, <2>1 DEF RunOK, serverVars
<1>11. CASE CloseShopReturns(p)
  <2>1. /\ phase[p] = "closing" /\ phase'[p] = "pools"
        /\ UNCHANGED <<pools, cancelled, hertz, errs>>
    BY <1>11 DEF CloseShopReturns
  <2>2. ShopClosed(p)'
    BY <1>11 DEF CloseShopReturns, CloseReturns
  <2> QED BY <1>1, <2>1, <2>2 DEF RunOK
<1>12. CASE ClosePools(p)
  <2>1. /\ phase[p] = "pools" /\ phase'[p] = "returned" /\ pools'[p] = {}
        /\ UNCHANGED <<closer, cancelled, hertz, errs>>
    BY <1>12 DEF ClosePools, PoolsLast, vars
  <2> QED BY <1>1, <2>1 DEF RunOK
<1> QED BY <1>3, <1>4, <1>5, <1>6, <1>7, <1>8, <1>9, <1>10, <1>11, <1>12 DEF MainStep

LEMMA RunStep ==
  ASSUME ServerTypeOK, \A q \in Procs : RunOK(q),
         closer \in [Procs -> {"serving", "waiting", "done", "timed out"}],
         [ServerNext]_allVars, NEW p \in Procs
  PROVE  RunOK(p)'
<1> USE DEF ServerTypeOK, ShopClosed
<1>1. RunOK(p)
  OBVIOUS
<1>2. ASSUME NEW q \in Procs, RunReady(q) \/ RunFails(q) \/ RunStops(q)
                              \/ Cancel(q) \/ Expire(q)
      PROVE  RunOK(p)'
  <2>1. UNCHANGED <<phase, pools, errs, closer, conn>>
    BY <1>2 DEF RunReady, RunFails, RunStops, Cancel, Expire, mainVars, cacheVars,
                vars
  <2>2. cancelled[p] => cancelled'[p]
    BY <1>2 DEF RunReady, RunFails, RunStops, Cancel, Expire
  <2>3. \/ hertz'[p] = hertz[p]
        \/ hertz[p] \in {"starting", "accepting"} /\ hertz'[p] # "none"
    BY <1>2 DEF RunReady, RunFails, RunStops, Cancel, Expire
  <2>4. InFlight(p)' = InFlight(p)
    BY <2>1 DEF InFlight
  <2> QED BY <1>1, <2>1, <2>2, <2>3, <2>4 DEF RunOK
<1>3. ASSUME NEW r \in Readers, Respond(r)
      PROVE  RunOK(p)'
  <2>1. /\ InFlight(p)' \subseteq InFlight(p)
        /\ UNCHANGED <<phase, pools, errs, closer, cancelled, hertz>>
    BY <1>3, ProcAssumption DEF Respond, mainVars, vars, InFlight
  <2> QED BY <1>1, <2>1 DEF RunOK
<1>4. ASSUME NEW r \in Readers, NEW q \in Procs, Accept(r, q)
      PROVE  RunOK(p)'
  <2>1. /\ UNCHANGED <<phase, pools, errs, closer, cancelled, hertz>>
        /\ InFlight(p)' = InFlight(p) \/ phase[p] \in {"starting", "serving"}
    BY <1>4, ProcAssumption DEF Accept, Listening, mainVars, vars, InFlight
  <2> QED BY <1>1, <2>1 DEF RunOK
<1>5. ASSUME \/ \E r \in Readers : Handle(r)
             \/ \E q \in Procs, s \in Shops : Rebuild(q, s)
             \/ Elsewhere \/ UNCHANGED allVars
      PROVE  RunOK(p)'
  <2>1. UNCHANGED serverVars
    BY <1>5 DEF Handle, Rebuild, Elsewhere, allVars
  <2>2. UNCHANGED closer
    <3>1. ASSUME NEW q \in Procs, NEW s \in Shops, Rebuild(q, s)
          PROVE  UNCHANGED closer
      BY <3>1, JobEffect DEF GoesOn, Ends
    <3>2. ASSUME NEW r \in Readers, Handle(r)
          PROVE  UNCHANGED closer
      BY <3>2 DEF Handle, ReaderLoad, ReaderStale, ReaderCold, ReaderLeaves
    <3>3. Elsewhere \/ UNCHANGED allVars => UNCHANGED closer
      BY DEF Elsewhere, EditorStep, Invalidate, Update, DirectSQL, KeyVanishes,
             Tick, allVars, vars
    <3> QED BY <1>5, <3>1, <3>2, <3>3
  <2> QED BY <1>1, <2>1, <2>2 DEF RunOK, serverVars, InFlight
<1>6. ASSUME NEW q \in Procs, MainStep(q)
      PROVE  RunOK(p)'
  <2>1. CASE q = p
    BY <1>1, <1>6, <2>1, MainKeepsRun
  <2>2. CASE q # p
    <3>1. SameRun(p)
      BY <1>6, <2>2, MainIsLocal
    <3>2. UNCHANGED conn
      BY <1>6 DEF MainStep, OpenMySQL, OpenRedis, Listen, AwaitReady, AwaitStop,
         ShutdownReturns, Join, CloseShop, CloseShopReturns, ClosePools, serverVars
    <3>3. InFlight(p)' = InFlight(p)
      BY <3>2 DEF InFlight
    <3> QED BY <1>1, <3>1, <3>3 DEF RunOK, SameRun
  <2> QED BY <2>1, <2>2
<1> QED BY <1>2, <1>3, <1>4, <1>5, <1>6 DEF ServerNext

-----------------------------------------------------------------------------
(* The server *)

\* Shop.Close and the life of the process leave the records alone.
LEMMA ServerStepOfCache ==
  ASSUME [ServerNext]_allVars
  PROVE  Next \/ UNCHANGED <<rows, cache, job, editor, invalidated, now>>
<1> DEFINE Frame == UNCHANGED <<rows, cache, job, editor, invalidated, now>>
<1>1. ASSUME NEW r \in Readers, Handle(r) PROVE Next
  BY <1>1 DEF Handle, ReaderStep, Next
<1>2. ASSUME NEW p \in Procs, NEW s \in Shops, Rebuild(p, s) PROVE Next
  BY <1>2 DEF Rebuild, Next
<1>3. ASSUME Elsewhere PROVE Next
  BY <1>3 DEF Elsewhere, Next
<1>4. ASSUME NEW p \in Procs, MainStep(p) PROVE Frame
  BY <1>4 DEF MainStep, OpenMySQL, OpenRedis, Listen, AwaitReady, AwaitStop,
     ShutdownReturns, Join, CloseShop, CloseShopReturns, ClosePools, Close,
     CloseReturns, cacheVars, vars
<1>5. ASSUME NEW p \in Procs, RunReady(p) \/ RunFails(p) \/ RunStops(p)
                              \/ Cancel(p) \/ Expire(p)
      PROVE  Frame
  BY <1>5 DEF RunReady, RunFails, RunStops, Cancel, Expire, cacheVars, vars
<1>6. ASSUME NEW r \in Readers, Respond(r) \/ \E p \in Procs : Accept(r, p)
      PROVE  Frame
  BY <1>6 DEF Respond, Accept, vars
<1>7. UNCHANGED allVars => Frame
  BY DEF allVars, vars
<1> QED BY <1>1, <1>2, <1>3, <1>4, <1>5, <1>6, <1>7 DEF ServerNext

LEMMA ServerKeepsCache ==
  ASSUME CacheInv, [ServerNext]_allVars
  PROVE  CacheInv'
<1>1. CASE UNCHANGED <<rows, cache, job, editor, invalidated, now>>
  <2>1. now' \in Nat
    BY <1>1 DEF CacheInv, DataOK
  <2> QED BY <1>1, <2>1, FrameKeeps
<1> QED BY <1>1, StepKeepsCache, ServerStepOfCache

LEMMA FaultsCount ==
  ASSUME faults \in Nat, [ServerNext]_allVars
  PROVE  faults' \in Nat
<1> USE DEF Fault
<1>1. ASSUME NEW r \in Readers, Handle(r) PROVE faults' \in Nat
  BY <1>1 DEF Handle, ReaderLoad, ReaderStale, ReaderCold, ReaderLeaves
<1>2. ASSUME NEW p \in Procs, NEW s \in Shops, JobStep(p, s) \/ JobPanics(p, s)
      PROVE  faults' \in Nat
  BY <1>2 DEF JobStep, JobLoad, JobQuery, JobPublish, JobPanics
<1>3. ASSUME Elsewhere PROVE faults' \in Nat
  <2>1. ASSUME NEW e \in Editors, EditorStep(e) PROVE faults' \in Nat
    <3>1. Invalidate(e) => faults' = faults \/ Fault
      BY Zenon DEF Invalidate
    <3>2. ASSUME NEW s \in Shops, Update(e, s) PROVE faults' = faults
      BY <3>2 DEF Update
    <3> QED BY <2>1, <3>1, <3>2 DEF EditorStep
  <2>2. ASSUME NEW s \in Shops, DirectSQL(s) \/ KeyVanishes(s) PROVE faults' \in Nat
    BY <2>2 DEF DirectSQL, KeyVanishes
  <2>3. Tick => faults' = faults
    BY DEF Tick
  <2> QED BY <1>3, <2>1, <2>2, <2>3 DEF Elsewhere
<1>4. ASSUME NEW p \in Procs, MainStep(p) PROVE faults' \in Nat
  <2>1. OpenMySQL(p) \/ OpenRedis(p) \/ Listen(p) => faults' \in Nat
    BY DEF OpenMySQL, OpenRedis, Listen, CallFails
  <2>2. AwaitReady(p) \/ AwaitStop(p) \/ ShutdownReturns(p) \/ Join(p) \/ ClosePools(p)
           => faults' = faults
    BY DEF AwaitReady, AwaitStop, ShutdownReturns, Join, ClosePools, vars
  <2>3. CloseShop(p) \/ CloseShopReturns(p) => faults' = faults
    BY DEF CloseShop, CloseShopReturns, Close, CloseReturns
  <2> QED BY <1>4, <2>1, <2>2, <2>3 DEF MainStep
<1>5. ASSUME NEW p \in Procs, RunReady(p) \/ RunFails(p) \/ RunStops(p)
                              \/ Cancel(p) \/ Expire(p)
      PROVE  faults' \in Nat
  <2>1. RunFails(p) => faults' \in Nat
    BY DEF RunFails
  <2>2. RunReady(p) \/ RunStops(p) \/ Cancel(p) \/ Expire(p) => faults' = faults
    BY DEF RunReady, RunStops, Cancel, Expire, vars
  <2> QED BY <1>5, <2>1, <2>2
<1>6. ASSUME NEW r \in Readers, Respond(r) \/ \E p \in Procs : Accept(r, p)
      PROVE  faults' \in Nat
  BY <1>6 DEF Respond, Accept, vars
<1>7. UNCHANGED allVars => faults' \in Nat
  BY DEF allVars, vars
<1> QED BY <1>1, <1>2, <1>3, <1>4, <1>5, <1>6, <1>7 DEF ServerNext, Rebuild

LEMMA InitServer == ServerInit => CacheInv /\ ServerInv
<1> SUFFICES ASSUME ServerInit PROVE CacheInv /\ ServerInv
  OBVIOUS
<1>1. CacheInv
  BY InitCache DEF ServerInit
<1>2. Idle \in [pc : {"idle", "stale", "cold", "waiting"},
                proc : Procs \cup {NoProc}, shop : Shops \cup {NoShop}]
  BY DEF Idle
<1>3. ServerTypeOK /\ RequestsOK
  BY <1>2 DEF ServerInit, Init, ServerTypeOK, RequestsOK
<1>4. \A p \in Procs : Inflight(p) = {}
  BY DEF ServerInit, Init, Inflight, NoJob
<1>5. UnstartedOK
  BY <1>4, ProcAssumption DEF ServerInit, UnstartedOK
<1>6. \A p \in Procs : DrainOK(p) /\ RunOK(p)
  BY <1>4 DEF ServerInit, Init, DrainOK, RunOK, Closed
<1> QED BY <1>1, <1>3, <1>5, <1>6 DEF ServerInv, ServerInit, Init

\* The records of the cache stay good under a server that starts and stops,
\* and what run knows at each point of its life is true.
THEOREM ServerInvariant == ServerSpec => [](CacheInv /\ ServerInv)
<1>1. ASSUME CacheInv, ServerInv, [ServerNext]_allVars
      PROVE  CacheInv' /\ ServerInv'
  <2>1. DataOK
    BY <1>1 DEF CacheInv
  <2>2. CacheInv'
    BY <1>1, ServerKeepsCache
  <2>3. ServerTypeOK' /\ RequestsOK' /\ UnstartedOK'
    BY <1>1, <2>1, ServerTypeStep, RequestStep, UnstartedStep DEF ServerInv
  <2>4. /\ closer' \in [Procs -> {"serving", "waiting", "done", "timed out"}]
        /\ drains' \in [Procs -> {0, 1}]
        /\ \A p \in Procs : DrainOK(p)'
    BY <1>1, <2>1, DrainStep
  <2>5. \A p \in Procs : RunOK(p)'
    BY <1>1, RunStep DEF ServerInv
  <2> QED BY <2>2, <2>3, <2>4, <2>5 DEF ServerInv
<1> QED BY <1>1, InitServer, PTL DEF ServerSpec

\* run returns with its pools closed, and without an error only after every
\* accepted request was answered.
THEOREM ServerReturnsOrderly == ServerSpec => []ReturnsOrderly
<1>1. ServerInv => ReturnsOrderly
  BY DEF ServerInv, RunOK, ReturnsOrderly
<1> QED BY <1>1, ServerInvariant, PTL

\* run reports success only of a server that was told to stop and did.
THEOREM FailuresAlwaysReported == ServerSpec => []FailuresAreReported
<1>1. ServerInv => FailuresAreReported
  BY DEF ServerInv, RunOK, FailuresAreReported
<1> QED BY <1>1, ServerInvariant, PTL

\* The pools are closed after the last rebuild, unless Close ran out of time.
THEOREM PoolsAlwaysOutliveRebuilds == ServerSpec => []PoolsOutliveRebuilds
<1>1. ServerInv => PoolsOutliveRebuilds
  BY DEF ServerInv, RunOK, DrainOK, UnstartedOK, ShopClosed, PoolsOutliveRebuilds
<1> QED BY <1>1, ServerInvariant, PTL

\* Every variable keeps its type; in particular the drained channel is closed
\* at most once, as a second close would panic.
THEOREM ServerTypeCorrect == ServerSpec => [](TypeOK /\ ServerTypeOK)
<1>1. ServerSpec => [](faults \in Nat)
  <2>1. ServerInit => faults \in Nat
    BY DEF ServerInit, Init
  <2>2. faults \in Nat /\ [ServerNext]_allVars => (faults \in Nat)'
    BY FaultsCount
  <2> QED BY <2>1, <2>2, PTL DEF ServerSpec
<1>2. CacheInv /\ ServerInv /\ faults \in Nat => TypeOK /\ ServerTypeOK
  <2> SUFFICES ASSUME CacheInv, ServerInv, faults \in Nat
               PROVE  TypeOK /\ ServerTypeOK
    OBVIOUS
  <2>1. drains \in [Procs -> 0 .. 1]
    <3>1. 0 .. 1 = {0, 1}
      OBVIOUS
    <3> QED BY <3>1 DEF ServerInv
  <2> QED BY <2>1 DEF CacheInv, DataOK, ServerInv, RequestsOK, TypeOK
<1> QED BY <1>1, <1>2, ServerInvariant, PTL

\* What the cache promises it promises of processes that start, are told to
\* stop and leave rebuilds behind.
THEOREM CacheHoldsInServer ==
  ServerSpec => /\ [](InvalidationSticks /\ HardExpiryIsHard /\ AbsenceIsReal)
                /\ CachedNeverGoesBack
<1>1. CacheInv => InvalidationSticks /\ HardExpiryIsHard /\ AbsenceIsReal
  BY ExcusedSticks, GenuineExpires, GenuineAbsence
<1>2. CacheInv /\ [ServerNext]_allVars =>
         [ \A s \in Shops :
             (Present(cache[s]) /\ Present(cache'[s])) =>
                cache'[s].commit >= cache[s].commit ]_vars
  <2> SUFFICES ASSUME CacheInv, [ServerNext]_allVars, NEW s \in Shops,
                      Present(cache[s]), Present(cache'[s])
               PROVE  cache'[s].commit >= cache[s].commit
    OBVIOUS
  <2>1. CASE UNCHANGED cache
    BY <2>1 DEF CacheInv, DataOK, Entry
  <2> QED BY <2>1, StepNeverGoesBack, ServerStepOfCache
<1> QED BY <1>1, <1>2, ServerInvariant, PTL DEF ServerSpec, CachedNeverGoesBack
=============================================================================
