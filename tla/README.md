# A verification project for LocalLife-Go

TLA+ specifications of the parts of LocalLife-Go whose correctness depends on
the order in which processes, MySQL, Redis and failures take their turns, the
TLC configurations that check them on small instances, and TLAPS proofs of
what holds for instances of every size. `PROJECT.json` lists the runs, which
lines of the code each definition stands for, the hazards of the code with the
properties that cover them, and the theorems.

    tlc -workers 2 -config SeckillSafety.cfg MCSeckill.tla   # one run
    tlapm AsyncSeckill_proofs.tla                            # proofs

## 1. The system

LocalLife-Go is a modular monolith in Go: HTTP handlers call services, services
call repositories (GORM on MySQL) and caches (Redis commands and Lua scripts).
Server processes, the seckill worker and four maintenance commands share the
two stores and nothing else. MySQL is authoritative; Redis holds derived data
with one exception, the admission state of an asynchronous seckill, which is
authoritative for who got in while an activity runs.

| Component | State it keeps | Operations | What is hard |
|---|---|---|---|
| Synchronous order | `seckill_voucher.stock`, `voucher_order` | Place | shares its rows with the asynchronous path until an activity is staged |
| Asynchronous seckill | activity row (mode, generation, capacity), `seckill_result`; Redis `:state` hash, `:events` stream and group | Enable (Stage, Prepare, Check, Activate), Accept, Process (Apply, Compensate, Ack), Result | two stores without a common transaction, at-least-once delivery, crashes between any two calls, loss of Redis |
| Seckill worker | cursors over activities and pending entries | scan, claim, read, process | nobody but the worker retries; starvation |
| Shop detail cache | one Redis record per shop; in each process the rebuilds in flight | Detail, refresh/rebuild, Close | stale rebuilds racing updates, failing databases, shutdown with rebuilds in flight |
| Shop maintenance | shop row | shop-update: commit, then DEL | the two steps are not atomic |
| Feed index | follow and blog rows; per reader a `:live` sorted set | follow, publish and push, delete, rebuild | push in batches without retry, replacing an index in use |
| Feed reading | per session a snapshot, its cardinality, a cursor | Read | equal timestamps, keys that expire separately, rows that disappear between pages |
| Authentication | Redis code hash, cooldown, session; user row | RequestCode, Login, Authenticate, Logout | concurrent guesses, failures after the code is spent |
| Likes, notifications | `blog`, `blog_like` rows under the lock of the blog; per author a bounded Redis stream | Like, DeleteBlog, Messages | a notification per transition, not per request; the count is acted upon two statements later; a cursor into a window that moves |
| Nearby shops | per category a GEO index and a marker | geo-rebuild, Nearby | concurrent builders, temporary keys with a TTL, lost keys, two reads per query |
| HTTP lifecycle | connection pools, listener, the outcome of Hertz' Run, shutdown deadline | Open, Serve, the deferred closes | three `select` statements racing, an error that must not be lost, what outlives what |
| Sign-in | per user and month a Redis bitmap | Sign (SETBIT, BITFIELD), SignState | midnight and the end of the month between two commands |
| Media upload | files | Save, Read | failures and crashes half-way through a file somebody may link to |
| Voucher views | none: they read the rows of the seckill | status of an activity | judges a row of MySQL read earlier, by a clock of its own, while Redis admits |
| Configuration, migrations | start-up I/O | | |
| Handlers, shared packages | none | | |

Processes interact only through rows and keys; inside a server the shop
service's mutex and channels are the only shared memory. The components'
correctness conditions are the properties of section 3, the hazards they answer
to are in `PROJECT.json`.

## 2. Modules and how they correspond to the code

Throughout, one action is one MySQL transaction or statement, one Redis command,
pipeline or script, or one critical section: what is atomic at its server.
Whatever lies between two of them interleaves with everything else. A failed
call either did nothing or did everything and lost its answer; both are
modelled where they differ.

**AsyncSeckill** (the core) is one voucher: the activity row, orders and
results in MySQL, the hash, the stream and the consumer group in Redis, and
runs of the enable command, buyers and workers as processes.

| Code | Actions |
|---|---|
| `repository/order.go` Place | `Place` |
| `service/async_order.go` Enable, `repository` Stage and Activate, `seckill_prepare.lua`, `seckill_check.lua` | `EnableStage`, `EnablePrepare`, `EnableCheck`, `EnableActivate`, `EnableStop` (an error or a crash at any point) |
| Accept, `seckill_reserve.lua` | `AcceptRead`, `AcceptReserve`, `AcceptRefused` |
| RunWorker, XAUTOCLAIM, XREADGROUP | `WorkerClaim`, `WorkerRead`, `WorkerReadFails` |
| Process: `repository` Apply, `seckill_compensate.lua`, XACK | `WorkerApply` (`ApplyAgain`, `ApplyCreated`, `ApplyFailed`), `WorkerCompensate`, `WorkerAck`, `WorkerRetain` (an error keeps the delivery pending), `WorkerCrash` |
| deployment | `Tick`, `DeleteUser`, `LoseState`, `LoseEvents` |

**SeckillPromise** is what buyers are promised, without stores or workers: units
are free or held by one user, tickets are admitted, settled, refunded. The
refinement mapping at the end of AsyncSeckill (`TicketOf`, `Promise`) shows that
the machinery implements it as long as Redis loses nothing.

**SeckillResult** extends AsyncSeckill by users that poll
`GET /vouchers/:id/seckill-result`; the three calls of a query interleave with
the workers.

**VoucherView** extends AsyncSeckill by visitors of the voucher's page: `ReadRow`
is the SQL statement, `ShowPage` the status judged from the row it returned and
the clock of the API process, which is read later and may say anything
(`VoucherStatus`).

**AsyncSeckillInv** is the inductive invariant and **AsyncSeckill_proofs** proves
it with what follows from it for the stores. **SeckillUsers_proofs** proves what
it means to users: that the promise conserves units, that the machinery keeps
it, and what polling and the views show.

**ShopCache** is several server processes over one Redis. `ReaderLoad`,
`ReaderStale`, `ReaderCold`, `ReaderLeaves` are `Shop.Detail`; `JobLoad`,
`JobQuery`, `JobPublish`, `JobPanics`, `Finish` are the rebuild goroutine and
its deferred block; `Update`, `Invalidate` are shop-update. `DirectSQL` (the
manual changes the documentation warns about) and `KeyVanishes` are the
environment. **ShopCache_proofs** proves its properties, and those of Server.

**Server** composes it with the life of the process that runs it:

| Code | Actions |
|---|---|
| `platform/connections.go` Open | `OpenMySQL`, `OpenRedis` |
| `app/lifecycle.go` Serve, serveListener | `Listen`, `AwaitReady`, `AwaitStop`, `ShutdownReturns`, `Join` (the three `select`s and the call between them) |
| the deferred calls of `cmd/server/main.go`, `Shop.Close` | `CloseShop`, `CloseShopReturns` (ShopCache's `Close`, `CloseReturns`), `ClosePools` |
| Hertz (external) | `RunReady`, `RunFails`, `RunStops`, `Accept`, `Respond` |
| signals, timers | `Cancel`, `Expire` |
| requests and rebuilds | `Handle`, `Rebuild`: ShopCache's readers and jobs, which may go on when nobody waits for them any more |

**FeedIndex** is following, publishing with its batched push
(`Store`, `QueryFollowers`, `PushBatch`, `PushDone`, `PublishFails`), deletion,
and feed-rebuild (`RebuildQuery`, `RebuildBatch`, `RebuildSwap`,
`RebuildFails`). As `docs/api/feed.md` prescribes, no follow changes or
publications run during a rebuild.
**FeedPage** extends it by reading sessions: `Open` is the snapshot script,
`ReadPage`/`ReadConflict` the transaction that cuts a page, `AnswerPage`
the row query, the filter and the next cursor; `LoseMembers` and `LoseCount`
expire the two keys separately. `IndexStep` lets FeedIndex go on meanwhile.
**Feed_proofs** proves the properties of both.

**WorkerScan** is the worker's way to its work when several activities are
open: `Scan` is one ActiveIDs query with its cursor and page limit, `Claim` one
XAUTOCLAIM with the cursor kept per activity, `Read` one XREADGROUP, `Process`
and `ProcessFails` one call of Process, `Restart` a worker that forgets its
cursors. Entries that cannot be decoded stay pending for ever, as in the code.

**Likes** is `Blog.Like` in the statements that wait, read or write
(`LikeRead`, `LikeLock`, `LikeWrite`, `LikeFails`), notifyLike after the commit
(`Notify`, `NotifyUnanswered`, `NotifySkipped`), `Community.DeleteBlog` under
the same lock (`DeleteBlog`), and the author's `GET /messages/sse`: `Poll` with
the last ID seen, `Reconnect` without it. **Likes_proofs** proves its safety
properties.

**SignIn** is one bitmap per user and month: `SignBegin` reads the clock,
`SignSet` and `SignGet` are the two commands, `SignFails` a failure of either,
`Midnight` the clock; the streak is computed from the bits the way the code
does (`Field`, `TrailingOnes`). **Media** is `Save` in its calls to the file
system: `SaveCreate` with O_EXCL, `SaveWrite`, `SaveClose`, `SaveRemove`.
**Community** composes the two in one process that may `Crash`;
**Community_proofs** proves what holds of the files.

**Login** is the one-time code, the account and the session of `service/auth.go`:
`RequestCode` is the issue script, `GuessWrong` and `GuessRight` the consume
script, `LoginInsert`, `LoginSelect`, `LoginSave` the three calls after it,
`LoginFails` a failure of any of them, `Logout` a deletion; `Tick` expires keys.
**Login_proofs** proves its properties.

**GeoIndex** is nearby shops. A builder is one run of geo-rebuild: `RunStart`
picks all categories or one, `RunQuery` reads a category, `AddBatch` sends one
pipeline to the temporary key, `RunPublish` is the publish script,
`RunPublishUnanswered` the same with a lost answer (the Redis client sends it
again), `RunRefused` its refusal of an incomplete build, `RunFails` a failure
or crash with or without the deferred cleanup. `ReadIndex` and `ReadRows` are
the two reads of a query. `Edit` changes the shop table at any time, `Expire`
and the `Lose*` actions are Redis. **GeoIndex_proofs** proves its properties.

The `MC*` modules add a symmetry set and nothing else; sets of model values and
the bounds are in the `.cfg` files. Definitions whose comment begins with
"Mutant:" are plausible bugs of the definition that follows; nothing uses them.
They document what each property notices.

## 3. Runs

| Run | What it shows | Instance |
|---|---|---|
| `seckill_safety` | `StockReconciles`: SQL stock = Redis stock + undecided tickets + refunds owed. `TicketsAreHonoured`: an accepted ticket fails only if its owner is gone. `OrdersMatchStock`, `SyncAndAsyncNeverMix`, `AckedIsSettled`, `RefundsFollowFailures`; `SoldOutIsFinal`: once a page has said sold_out, nobody gets in any more | 3 buyers, 1 visitor, 1 unit, 2 enable commands, 2 workers, 1 fault, 1 deleted account, 1 lost key, 3 instants around the window |
| `seckill_result` | `AnswersAreTrue`, `AnswersOnlyAdvance`: polling never lies and never goes back; `EveryTicketSettles`; the refinement of SeckillPromise, with its fairness (`KeepsPromiseFairly`) | 2 buyers of whom 1 polls, 2 workers, 1 fault, 1 deleted account, no symmetry |
| `seckill_recreate` | a violation: see section 5 | 1 user, 2 enable commands, 2 losses |
| `shop_cache` | `CachedNeverGoesBack`, `InvalidationSticks`, `HardExpiryIsHard`, `AbsenceIsReal` | 2 processes, 1 shop, 1 reader, 1 editor, 3 committed states, 2 faults |
| `server` | `ReturnsOrderly`: whichever step of start or stop fails, run returns with the pools closed, and without an error only after every accepted request was answered. `FailuresAreReported`: no error is lost in a `select`. `PoolsOutliveRebuilds`, `CancellationEnds`, `ReadersAreAnswered`, `CloseDrains` (drained is closed, and once) | 1 process, 2 rebuild slots, 3 shops, 1 client that sends request after request, 1 fault |
| `feed_index` | `LiveIsComplete`: who was following has the blog, at every moment; `RebuildRepairs` | 2 readers, 2 authors, 2 blogs, 2 follows, batches of one, 2 faults |
| `feed_page` | `PagesAreConsecutive`, `DoneMeansAll`, `SteadyIsShown` | 1 reader, 3 blogs on 2 instants, page sizes 1 and 2 |
| `worker_scan` | `HealthyEntriesComplete`: neither the page limit nor undecodable entries starve anything | 2 workers, 2 activities, pages and counts of one |
| `geo_index` | `IndexIsWhole`, `OnlyTemporariesExpire`, `LossIsNotEmptiness`, `AnswersFollowTheTable` | 2 overlapping runs, 2 categories, 3 shops of which one cannot be indexed, batches of one, 1 query at a time, 1 edit, 2 faults |
| `login` | `GuessesAreBounded`, `CodesLogInOnce`, `OneAccountPerPhone` | 1 phone, 2 concurrent clients, 2 faults |
| `likes` | `MessagesAreEarned`: one notification per transition however requests overlap. `ConstraintsNeverFire`: the row lock makes the primary key of `blog_like` and its foreign key to `blog` idle. `CursorNeverSkips`, `MessagesArrive` | the author and 2 others, 2 requests at once, 1 blog, a window of 2, pages of 1, 3 messages, 2 faults |
| `community` | `StreaksAreTrue`: an answer counts the days up to its own date, in its own month. `UrlsServeTheirPicture`: a URL handed out serves its whole picture for good | 1 user with 2 requests, months of 3 days, 4 days; 2 uploads, 2 pictures, 2 names; 1 fault or crash, 1 I/O error |

Every module states its type invariant (`TypeOK` and the like). Except for those
of SignIn and WorkerScan they are part of what is proved.

Bounds, and why they are enough. One voucher and one shop suffice for safety
because no key, row or script mentions two of them; the bound on concurrent
rebuilds is the exception, and `server` has three shops for two slots. Two
workers, processes or enable commands are the smallest number that can overlap,
and every hazard listed is a race of two. One unit of stock for three buyers
makes exhaustion, refund and re-admission all happen. One loss takes either key
of Redis away; both are lost in `seckill_recreate`, and the proofs hold for any
number. Three commits let a rebuild be two updates behind. Three blogs with page
size 1 are the least for which a whole page shares its millisecond with the page
before (`NextOffsetOfPage` shows that fewer would not notice). A third message
in a window of two is the first eviction, and a page of one makes every batch
short. Four days in months of three put the end of a month between two commands
of a request. `MaxTime`, `MaxFaults`, `MaxErrors`, `MaxLosses`, `MaxDeleted`,
`MaxCommits`, `MaxBlogs`, `MaxFollows`, `MaxEntries`, `MaxBad`, `MaxEdits`,
`MaxDay` and `MaxMessages` bound the environment and the length of a run only.
Deadlock checking is off everywhere: with the clock and the requests bounded,
all of these systems may rest.

## 4. Fairness

* Worker (`AsyncSeckill!Fairness`): `RunWorker` loops until it is cancelled and
  every call has a deadline, so a step that is enabled is eventually taken (weak
  fairness). That a pending entry is eventually claimed is strong fairness per
  user: the XAUTOCLAIM cursor survives from round to round and wraps, so every
  entry that stays pending is visited again, but between the visits it may be
  in another worker's hands. `worker_scan` derives this: `WorkerScan!FairSpec`
  assumes only that workers step and that time makes unclaimed entries idle, and
  `HealthyEntriesComplete` is the conclusion. Nothing is assumed of buyers,
  operators, time or faults.
* Server (`Server!ServerFairSpec`): the main goroutine and every other one that
  can run does (`MainStep`, the readers' own steps); Hertz either reaches Accept
  or fails (`RunReady`); timers fire (`Expire`); a rebuild has a deadline on
  each call, so its steps are taken. Nothing is assumed of requests, of signals,
  nor of how soon Run notices that its listener is closed: `CancellationEnds`
  holds because the deadline is a branch of the last two waits.
* Likes (`Likes!FairSpec`): the author keeps polling, as clients reconnect with
  Last-Event-ID. Nothing is assumed of likers or of deliveries.

The feed, the GEO index, the login, sign-in and media have no liveness property:
nothing in them retries by itself.

## 5. A disagreement between document and code

ADR 007 says that after activation the create-only initialisation is never used
to replenish stock. `seckill_recreate` shows a run in which it is: an enable
command that stalled between Stage and Prepare continues after another command
activated the activity and Redis lost both keys; Prepare does not look at the
mode and seeds the full capacity again. MySQL's own stock and unique keys keep
this from selling a unit twice: `OrdersMatchStock` is proved without any
assumption about losses.

## 6. What is proved

Every safety invariant and every action property that a run checks is proved for
instances of any size, with the two exceptions named at the end of this section:
any number of users, workers, units and losses; of readers, authors, blogs and
sessions; of processes, shops and requests; of phones, clients and codes; of
builders and categories; of uploads; and any lifetimes, batch and page sizes.

| Module, theorem | Statement |
|---|---|
| `AsyncSeckill_proofs` `TypeCorrect` | `Spec => []TypeOK` |
| `AlwaysCorrect` | `Spec => []AlwaysInv`, the half of the invariant that no loss can break |
| `OrdersAlwaysMatchStock` | `Spec => []OrdersMatchStock`: no unit sold twice, one order per user, an asynchronous order exactly with its created result |
| `ModesNeverMix` | `Spec => []SyncAndAsyncNeverMix` |
| `RefundsAlwaysFollowFailures` | `Spec => []RefundsFollowFailures` |
| `InvariantHolds` | `Spec => []IInv`, the whole inductive invariant |
| `StockAlwaysReconciles` | `Spec => []StockReconciles` |
| `TicketsAlwaysHonoured` | `Spec => []TicketsAreHonoured` |
| `AckedAlwaysSettled` | `Spec => []AckedIsSettled` |
| `SeckillUsers_proofs` `PromiseConservesUnits` | `Promise!SafeSpec => []Promise!EveryUnitAccountedFor` |
| `PromiseIsKept` | `Spec /\ [](losses = 0) => KeepsPromise`, the refinement of SeckillPromise |
| `UnitsAlwaysAccountedFor` | `Spec /\ [](losses = 0) => []Promise!EveryUnitAccountedFor` |
| `StockRisesByRefundsOnly` | `Spec /\ [](losses = 0) => OnlyRefundsReplenish` |
| `AnswersInvariant` | `ResultSpec => [](IInv /\ AnswerInv)` |
| `AnswersAlwaysTrue` | `ResultSpec => []AnswersAreTrue` |
| `AnswersAlwaysAdvance` | `ResultSpec => AnswersOnlyAdvance` |
| `PageInvariant` | `PageSpec => [](IInv /\ PageInv)` |
| `SoldOutIsAlwaysFinal` | `PageSpec => SoldOutIsFinal` |
| `Feed_proofs` `FeedInvariant` | `Spec => []FeedInv` |
| `LiveAlwaysComplete` | `Spec => []LiveIsComplete` |
| `RebuildAlwaysRepairs` | `Spec => RebuildRepairs` |
| `PageInvariant` | `SpecPage => [](FeedInv /\ TimeInv /\ PageInv)` |
| `PagesAlwaysConsecutive` | `SpecPage => []PagesAreConsecutive` |
| `DoneAlwaysMeansAll` | `SpecPage => []DoneMeansAll` |
| `SteadyAlwaysShown` | `SpecPage => []SteadyIsShown` |
| `GeoIndex_proofs` `IndexAlwaysWhole` | `GeoSpec => []IndexIsWhole` |
| `OnlyTemporariesEverExpire` | `GeoSpec => []OnlyTemporariesExpire` |
| `LossIsNeverEmptiness` | `GeoSpec => LossIsNotEmptiness` |
| `AnswersAlwaysFollowTheTable` | `GeoSpec => AnswersFollowTheTable` |
| `ShopCache_proofs` `CacheInvariant` | `Spec => []CacheInv` |
| `InvalidationAlwaysSticks` | `Spec => []InvalidationSticks` |
| `CacheNeverGoesBack` | `Spec => CachedNeverGoesBack` |
| `HardExpiryIsAlwaysHard` | `Spec => []HardExpiryIsHard` |
| `AbsenceIsAlwaysReal` | `Spec => []AbsenceIsReal` |
| `ServerInvariant` | `ServerSpec => [](CacheInv /\ ServerInv)` |
| `ServerReturnsOrderly` | `ServerSpec => []ReturnsOrderly` |
| `FailuresAlwaysReported` | `ServerSpec => []FailuresAreReported` |
| `PoolsAlwaysOutliveRebuilds` | `ServerSpec => []PoolsOutliveRebuilds` |
| `ServerTypeCorrect` | `ServerSpec => [](TypeOK /\ ServerTypeOK)`: drained is closed once at most |
| `CacheHoldsInServer` | the four properties of the cache, of `ServerSpec` |
| `Likes_proofs` `MessagesAlwaysEarned` | `Spec => []MessagesAreEarned` |
| `ConstraintsNeverEverFire` | `Spec => []ConstraintsNeverFire` |
| `CursorNeverEverSkips` | `Spec => []CursorNeverSkips` |
| `Login_proofs` `AccountsInvariant` | `Spec => []AccountInv` |
| `AlwaysOneAccount` | `Spec => []OneAccountPerPhone` |
| `CodesAlwaysLogInOnce` | `Spec => []CodesLogInOnce` |
| `GuessesAlwaysBounded` | `Spec => []GuessesAreBounded` |
| `Community_proofs` `MediaInvariant` | `CommunitySpec => []MediaInv` |
| `UrlsAlwaysServe` | `CommunitySpec => []UrlsServeTheirPicture` |

They assume only what the modules' `ASSUME`s say: the stock is a natural number,
the window is not empty, the users are finitely many, the bounds are numbers;
for the feed that readers and authors are finitely many and pages are not empty;
for GeoIndex that there are finitely many shops and that the names of live and
of temporary keys differ; for ShopCache that processes are finitely many and
that an absence lives no longer than a row; for Likes that finitely many
requests overlap; for Login that lifetimes and the number of attempts are not
zero. `ProcAssumption` and `PictureAssumption` say that the value that stands
for no process, or for no file, is not one of them. Bounds on a run (`MaxTime`,
`MaxFaults` and their like) occur in guards and may be any number.

The argument. None of the properties is inductive. `OrdersMatchStock` needs
finiteness of the tables (for the cardinality), and the fence: staging requires
that no order exists, and afterwards `Place` is disabled (`SqlInv`).
`RefundsFollowFailures` needs to know why a worker is about to refund: because
the very event in hand has a committed failed result. The event in hand is the
one with the smallest ID, so this needs that IDs identify events wherever they
may still be, in the stream or in a worker's hands after the stream was lost
(`IdsInv`); `RefundInv` combines them. `WorkerMoves` isolates the only way a
worker can come to be before a refund or an acknowledgement.

What the two stores guarantee together (`NoLossInv`) adds: which keys exist in
which mode, that every enable command still under way holds the current row
(`ModeInv`), that the snapshot is an untouched copy until activation
(`SnapshotInv`), that the stream and the buyer markers are the same
reservations, one per user (`StreamInv`), that results belong to the stream and
fail for one reason (`ResultInv`), that workers hold delivered entries and are
about to acknowledge only settled ones (`WorkerInv`), the same for what was
acknowledged (`AckedInv`), and the stock equation (`StockInv`). The parts need
each other: `Verdict` shows that Apply never finds the stock at zero, because of
the stock equation, nor an order of the same user, because every asynchronous
order comes from an event of the stream and the user has only one there; so a
ticket fails only with its owner (`ResultInv`), and that keeps the equation. The
equation survives `Prepare` because a seeded activity is never open before:
`PrepareSeeds`. This is exactly what a loss of Redis invalidates (section 5).

The refinement follows each action to its meaning for a buyer: `Place` buys,
`Stage` stages, `Prepare` is invisible, `Activate` opens (here the buyer's
count of free units changes from the SQL stock to the Redis stock, which are
equal at this moment), `Reserve` admits, `Apply` confirms or rejects,
`Compensate` refunds, and everything else stutters.

GeoIndex. `GeoInv` adds to the properties that a builder's temporary key holds
at most the rows it read (`BuildInv`), so that a key with as many members as
rows holds exactly them (`CompleteIsWhole`); that the marker counts the rows of
the last publication (`MarkerInv`), so that an absent key under a marker of zero
is an empty category; and that a view of the table which no edit has overtaken
still agrees with it, whether a builder, the index or a query holds it
(`CurrentInv`).

SeckillPromise. That the promise conserves units is an induction over its own
steps, made on the instance AsyncSeckill refines, so that the two theorems chain:
the units that MySQL counts before the activation and Redis afterwards, and the
users that hold an order or an unsettled ticket, add up to the initial stock.

Polling. `AnswerInv` explains why three unlocked calls give consistent answers: a
final answer repeats a committed result (`FinalInv`), of which a user has one at
most whatever Redis loses (`OutcomeInv`, by the unique keys and the fixed
generation); a pending one names the user's entry of the stream (`PendingInv`),
and the result, when it comes, is of that entry, because by `StreamInv` the user
has no other.

Feed. `PushInv` keeps, for a publication that has asked for the followers, who
is still to get the blog; `DueInv` that whoever is owed it still follows the
author, so they were among those asked. A rebuild (`BuildInv`) never holds less
than the tables entitle its reader to, since blogs are only deleted meanwhile:
the query's result `Q` is recovered from its size, as a temporary key with as
many entries as were read holds all of them. `EntriesInv` makes an ID stand for
one position, which ZADD NX relies on.

Pages. The entries answered so far are the first `served` of the snapshot
(`Answered`), and the cursor is that number in other words: `served` is the
number of entries above its score plus its offset (`AtCursor`). The lemmas
before it are about ranks in finite sets: ranks of a finite total order are
distinct and count from 0 (`FirstSize`), a window below a score is a slice of
the whole (`WindowIsSlice`), one entry more than the page decides has_more
(`PageIsSlice`), and the last entry of a page gives the next cursor
(`CursorMoves`), where the offset accumulates while the score stays the same:
without that case `AtCursor` would not be preserved. `Copied` says that the
members are whole or gone, which the cardinality tells apart.

Server. `RunOK` is what each stage of run knows: to wait for the join the process
was told to stop; no error at the join means that the requests were drained or
that Run failed and its error is still to be received; from then on no error
means that Run stopped and nothing is in flight. `RequestsOK` and `UnstartedOK`
tie the cache's readers to requests that were accepted, so that no rebuild can
start once they are answered, and `DrainOK` ties drained to the last rebuild:
together they give `PoolsOutliveRebuilds`. The composition does not disturb
`CacheInv`, whose steps it takes or leaves alone.

Login. A serial number is in one place: a live code, a login in progress or a
session (`SerialInv`); consuming a code moves it, and no failure copies it.
`AccountInv` carries the phone from the code to the INSERT, the SELECT and the
session. For the guesses `GuessesFit` counts what was guessed and what the live
code still allows against the cooldowns begun so far; a code that is replaced
or expires gives its remaining attempts up, and a new one needs a new cooldown.

Media. A name has at most one owner, the upload that created its file with
O_EXCL and is not done with it (`OwnersApart`); an owned name has a file
(`OwnedExist`), so that nobody else can create it; only the owner writes, breaks
or removes the file, and it gives the name up in the step that hands it out
(`HandedOK`). A crash leaves files without an owner, and no name of them free.

VoucherView. MySQL's stock never rises (`StockFalls`: refunds go to Redis only),
so a row a request holds is never short of what is left, and sold_out was said
only when nothing was left, whenever that was (`PageInv`). An order taken
directly needs stock by the guard of `Place`, and a ticket by the stock equation
of `StockInv`: what Redis has left, MySQL has left, since the other terms of the
equation are not negative, so that even a refund still owed admits nobody after
a sold-out page. Of upcoming and ended nothing of the kind is claimed: they
depend on how far the clock of the API process is from that of the stores.

ShopCache. A rebuild carries the bytes it found under the key as its token, and
publishes only if they are still there. `CacheInv` says what this gives: a
rebuild whose token is the key's present stamp holds the very record of the key
(`Holds` in `JobOK`); it has read its row after that record, so what it will
publish is not older; and no DEL came in between, or the stamp would be gone.
This needs that a new record never takes the stamp of one still held
(`StampIsNew`, a pigeonhole over the finitely many processes). What remains is a
rebuild that found no key and so has no token: `blind` records it, and
`InvalidationSticks` excuses exactly this case, as `docs/api/shop.md` does.
`EditsCommitted` ties an editor's DEL to a commit that happened before.

Likes. A request that is going to write holds the lock of its blog (`LockInv`),
so the blog still exists and the count it has read is still true: the constraint
cannot fire. A like that waits for its message is a request in notifyLike, and
the numbers agree (`DueInv`), so no message is added without one. IDs rise with
the stream (`StreamInv`) and a page is a prefix of what is unread
(`PageIsPrefix`), so the cursor passes nothing it has not delivered.

Only model-checked. Liveness under fairness and ENABLED are out of the prover's
reach: `KeepsPromiseFairly` (its safety part is `PromiseIsKept`),
`EveryTicketSettles`, `HealthyEntriesComplete`, `MessagesArrive`,
`CancellationEnds`, `ReadersAreAnswered` and `CloseDrains` (its safety part,
that drained is closed once at most, is in `ServerTypeCorrect`). So is what a
recursive definition computes for every input: `StreaksAreTrue` speaks of
`TrailingOnes`, the code's loop over the bits. `LostSnapshotStaysLost` is
refuted (section 5).

## 7. Abstractions

* A payload, a name, a phone number is a model value or left out. Times are small
  naturals and only their order matters. Retrying is choice: any failed call may
  be followed by any other.
* MySQL and Redis share one clock, as ADR 007 requires. The API process that
  answers a page has its own, which is unrelated to it.
* A rebuild of the shop cache reads the row and then its clock; the model takes
  both in one step, so `HardExpiryIsHard` counts lifetimes from that reading. The
  query has a budget of 2 s, by which the row may be older. Bytes that do not
  decode as a record mean to readers and rebuilds what a record past its hard
  expiry means (a token, no entry) and are not modelled separately.
* A cached record is identified by a stamp instead of its bytes; a new record
  never repeats the bytes of one that is still held, since its times have
  nanoseconds.
* The members of a feed index with equal scores are in the order of their IDs;
  Redis uses the order of the decimal text, which is some total order too.
* A publication of a rebuilt feed index is not executed late after the command
  has given up waiting for its answer; a failed call either did what it does at
  once or nothing. The cooldown of a phone number expires but is not lost with
  other keys: losing it would allow a new code early, and `GuessesAreBounded`
  counts guesses per cooldown.
* Of the constraints of `blog_like`, the primary key and `fk_blog_like_blog` are
  modelled. `fk_blog_like_user` is not: no code deletes a user. In the seckill
  accounts may disappear, because the worker provides for it (`user_not_found`).
* A nearby query finds any part of the index within its limit: distance and the
  radius decide which, and no property depends on it. The order
  of an answer by distance is left out.
* In the feed, `created_at` may lie before the commit by `MaxLag`: the program
  computes it before the INSERT.
* Hertz is modelled from how the code uses it: Run accepts until its listener is
  closed or fails, Shutdown drains or gives up at its deadline without an error.
  A connection carries one request.
* All months are equally long, and days are those of the zone the code fixes
  (UTC+8).
* The random name of an upload comes from a small set, so that it may come up
  twice. Files survive a crash of the process; a crash of the operating system
  is left out, as the code does not sync.
* A page of rows is what one SQL statement saw.

## 8. Plan

1. Abstract specifications: what a cache answers (a row that was current within
   the stale window), what a feed is (the followed authors' blogs in order), with
   ShopCache and FeedPage refining them.
2. Proofs: the type invariant of WorkerScan, and the part of its argument that is
   safety (an entry that is pending and decodable stays ahead of a cursor or is
   visited); that a sign-in's bits are exactly the days signed, which leaves only
   the loop over them to TLC.

Not modelled: configuration and migrations (start-up I/O without protocol; the
constraints the migrations create are part of the actions that rely on them),
handlers and the shared packages (parsing and formatting, no state), read-only
listings (types, shops, blogs, likers, profiles, common follows: one statement
each, no decision of the models depends on them).

Two hazards have no property. A follow computes its `created_at` before its
INSERT commits (`repository/follow.go:45`) and may miss the push of a blog
published in between; only a rebuild finds it, which is what `RebuildRepairs`
states. Of two builders of one category the last publication wins, even with
the older view (`cache/geo.go:85`); `docs/api/geo.md` says so, and
`AnswersFollowTheTable` is stated to hold in spite of it.
