------------------------------- MODULE Server -------------------------------
(***************************************************************************)
(* The life of a server process: main opens the connection pools, Serve    *)
(* binds, starts Hertz and drains it on cancellation, and the deferred     *)
(* calls close the shop service and the pools, in this order.  It composes *)
(* with ShopCache: the requests are its readers, the rebuilds outlive the  *)
(* requests that started them, and Shop.Close is what main calls.          *)
(*                                                                         *)
(* Hertz is external: Run accepts until the listener is closed or fails,   *)
(* Shutdown closes the listener and returns when no request is in flight   *)
(* or, without an error, when its deadline has passed.  A connection       *)
(* carries one request.  Each select of serveListener is one step that     *)
(* may take any branch that is ready.                                      *)
(***************************************************************************)
EXTENDS ShopCache

VARIABLES
    phase,       \* [Procs -> where run (main.go) and Serve are]
    pools,       \* [Procs -> the connection pools that are open]
    cancelled,   \* [Procs -> SIGINT or SIGTERM has arrived]
    hertz,       \* [Procs -> the goroutine in h.Run; its outcome waits in done]
    ready,       \* [Procs -> Accept was called once]
    expired,     \* [Procs -> the deadline of shutdownCtx has passed]
    errs,        \* [Procs -> the errors run returns]
    conn         \* [Readers -> the process that accepted the request]

serverVars == <<phase, pools, cancelled, hertz, ready, expired, errs, conn>>
allVars == <<vars, serverVars>>
mainVars == <<phase, pools, errs>>

ServerTypeOK ==
    /\ phase \in [Procs -> {"mysql", "redis", "listen", "starting", "serving",
                            "draining", "joining", "closing", "pools",
                            "returned"}]
    /\ pools \in [Procs -> SUBSET {"mysql", "redis"}]
    /\ cancelled \in [Procs -> BOOLEAN]
    /\ hertz \in [Procs -> {"none", "starting", "accepting", "failed",
                            "stopped"}]
    /\ ready \in [Procs -> BOOLEAN]
    /\ expired \in [Procs -> BOOLEAN]
    /\ errs \in [Procs -> SUBSET {"mysql", "redis", "cancelled", "bind",
                                  "run", "deadline"}]
    /\ conn \in [Readers -> Procs \cup {NoProc}]

ServerInit ==
    /\ Init
    /\ phase = [p \in Procs |-> "mysql"]
    /\ pools = [p \in Procs |-> {}]
    /\ cancelled = [p \in Procs |-> FALSE]
    /\ hertz = [p \in Procs |-> "none"]
    /\ ready = [p \in Procs |-> FALSE]
    /\ expired = [p \in Procs |-> FALSE]
    /\ errs = [p \in Procs |-> {}]
    /\ conn = [r \in Readers |-> NoProc]

Goto(p, next) == phase' = [phase EXCEPT ![p] = next]

Report(p, E) == errs' = [errs EXCEPT ![p] = @ \cup E]

\* A call under a context that cancellation ends, or that simply fails.
CallFails(p) == (cancelled[p] /\ UNCHANGED faults) \/ Fault

cacheVars == <<rows, cache, job, closer, drains, reader, editor, invalidated,
               now>>

-----------------------------------------------------------------------------
(* platform.Open *)

OpenMySQL(p) ==
    /\ phase[p] = "mysql"
    /\ \/ /\ pools' = [pools EXCEPT ![p] = {"mysql"}]
          /\ Goto(p, "redis")
          /\ UNCHANGED <<errs, faults>>
       \/ /\ CallFails(p)
          /\ Report(p, {"mysql"})
          /\ Goto(p, "returned")
          /\ UNCHANGED pools
    /\ UNCHANGED <<cacheVars, cancelled, hertz, ready, expired, conn>>

\* Mutant: only the pool that failed is closed.
LeftOpen(p) == {"mysql"}

\* What stays open when Redis does not answer: both pools are closed.
KeptOpen(p) == {}

OpenRedis(p) ==
    /\ phase[p] = "redis"
    /\ \/ /\ pools' = [pools EXCEPT ![p] = @ \cup {"redis"}]
          /\ Goto(p, "listen")
          /\ UNCHANGED <<errs, faults>>
       \/ /\ CallFails(p)
          /\ Report(p, {"redis"})
          /\ pools' = [pools EXCEPT ![p] = KeptOpen(p)]
          /\ Goto(p, "returned")
    /\ UNCHANGED <<cacheVars, cancelled, hertz, ready, expired, conn>>

-----------------------------------------------------------------------------
(* Serve *)

Listen(p) ==
    /\ phase[p] = "listen"
    /\ \/ /\ ~cancelled[p]
          /\ hertz' = [hertz EXCEPT ![p] = "starting"]
          /\ Goto(p, "starting")
          /\ UNCHANGED <<errs, faults>>
       \/ /\ CallFails(p)
          /\ Report(p, IF cancelled[p] THEN {"cancelled"} ELSE {"bind"})
          /\ Goto(p, "closing")
          /\ UNCHANGED hertz
    /\ UNCHANGED <<cacheVars, pools, cancelled, ready, expired, conn>>

\* The outcome of Run waits in the buffered channel: it leaves Serve with it.
RunEnded(p) ==
    /\ hertz[p] = "failed"
    /\ Report(p, {"run"})
    /\ Goto(p, "closing")

\* The first select.
AwaitReady(p) ==
    /\ phase[p] = "starting"
    /\ \/ RunEnded(p)
       \/ ready[p] /\ Goto(p, "serving") /\ UNCHANGED errs
    /\ UNCHANGED <<vars, pools, cancelled, hertz, ready, expired, conn>>

\* Mutant: cancellation only closes the listener (the deferred call).
StopListening(p) == Goto(p, "closing")

\* Cancellation calls Shutdown, which closes the listener.
BeginShutdown(p) == Goto(p, "draining")

\* Mutant: cancellation is awaited once, before the server is ready.
AwaitOnlyRun(p) ==
    /\ phase[p] = "serving"
    /\ RunEnded(p)
    /\ UNCHANGED <<vars, pools, cancelled, hertz, ready, expired, conn>>

\* The second select.
AwaitStop(p) ==
    /\ phase[p] = "serving"
    /\ \/ RunEnded(p)
       \/ cancelled[p] /\ BeginShutdown(p) /\ UNCHANGED errs
    /\ UNCHANGED <<vars, pools, cancelled, hertz, ready, expired, conn>>

InFlight(p) == {r \in Readers : conn[r] = p}

\* Mutant: what Hertz suppresses is lost.
DeadlineForgotten(p) == {}

\* shutdownCtx.Err(), joined because Hertz suppresses it.
Deadline(p) == IF expired[p] THEN {"deadline"} ELSE {}

\* Shutdown comes back: drained, out of time, or refused because Run has
\* failed meanwhile.
ShutdownReturns(p) ==
    /\ phase[p] = "draining"
    /\ InFlight(p) = {} \/ expired[p] \/ hertz[p] = "failed"
    /\ Report(p, Deadline(p))
    /\ Goto(p, "joining")
    /\ UNCHANGED <<vars, pools, cancelled, hertz, ready, expired, conn>>

\* Mutant: the outcome of Run is awaited and dropped.
OutcomeDropped(p) == {}

\* Mutant: Run is trusted to return.
AwaitedForever(p) == FALSE

\* The third select gives up on Run at the deadline.
OutOfTime(p) == expired[p]

Outcome(p) == IF hertz[p] = "failed" THEN {"run"} ELSE {}

\* The third select.
Join(p) ==
    /\ phase[p] = "joining"
    /\ \/ hertz[p] \in {"failed", "stopped"} /\ Report(p, Outcome(p))
       \/ OutOfTime(p) /\ Report(p, Deadline(p))
    /\ Goto(p, "closing")
    /\ UNCHANGED <<vars, pools, cancelled, hertz, ready, expired, conn>>

-----------------------------------------------------------------------------
(* The deferred calls of main *)

CloseShop(p) ==
    /\ phase[p] = "closing"
    /\ Close(p)
    /\ UNCHANGED serverVars

CloseShopReturns(p) ==
    /\ phase[p] = "closing"
    /\ CloseReturns(p)
    /\ Goto(p, "pools")
    /\ UNCHANGED <<pools, cancelled, hertz, ready, expired, errs, conn>>

\* Mutant: the pools do not wait for the shop service.
PoolsAtOnce(p) == phase[p] \in {"closing", "pools"}

\* Deferred first, so executed last.
PoolsLast(p) == phase[p] = "pools"

ClosePools(p) ==
    /\ PoolsLast(p)
    /\ pools' = [pools EXCEPT ![p] = {}]
    /\ Goto(p, "returned")
    /\ UNCHANGED <<vars, cancelled, hertz, ready, expired, errs, conn>>

-----------------------------------------------------------------------------
(* Environment: Hertz, signals, timers and requests *)

RunReady(p) ==
    /\ hertz[p] = "starting"
    /\ hertz' = [hertz EXCEPT ![p] = "accepting"]
    /\ ready' = [ready EXCEPT ![p] = TRUE]
    /\ UNCHANGED <<vars, mainVars, cancelled, expired, conn>>

RunFails(p) ==
    /\ hertz[p] \in {"starting", "accepting"}
    /\ Fault
    /\ hertz' = [hertz EXCEPT ![p] = "failed"]
    /\ UNCHANGED <<cacheVars, mainVars, cancelled, ready, expired, conn>>

Listening(p) == phase[p] \in {"starting", "serving"}

\* The listener was closed under Accept; nothing says when Run notices.
RunStops(p) ==
    /\ hertz[p] = "accepting"
    /\ ~Listening(p)
    /\ hertz' = [hertz EXCEPT ![p] = "stopped"]
    /\ UNCHANGED <<vars, mainVars, cancelled, ready, expired, conn>>

Cancel(p) ==
    /\ ~cancelled[p]
    /\ cancelled' = [cancelled EXCEPT ![p] = TRUE]
    /\ UNCHANGED <<vars, mainVars, hertz, ready, expired, conn>>

Expire(p) ==
    /\ phase[p] \in {"draining", "joining"}
    /\ ~expired[p]
    /\ expired' = [expired EXCEPT ![p] = TRUE]
    /\ UNCHANGED <<vars, mainVars, cancelled, hertz, ready, conn>>

Accept(r, p) ==
    /\ conn[r] = NoProc
    /\ Listening(p) /\ hertz[p] = "accepting"
    /\ conn' = [conn EXCEPT ![r] = p]
    /\ UNCHANGED <<vars, mainVars, cancelled, hertz, ready, expired>>

\* The HTTP middleware sends the response of a handler that returned,
\* panicked or ran out of time; handlers run in the request's goroutine.
Respond(r) ==
    /\ conn[r] # NoProc
    /\ reader[r] = Idle
    /\ conn' = [conn EXCEPT ![r] = NoProc]
    /\ UNCHANGED <<vars, mainVars, cancelled, hertz, ready, expired>>

\* A request inside Shop.Detail; closed pools fail what needs them.
Handle(r) ==
    /\ \/ \E s \in Shops, p \in Procs :
             conn[r] = p /\ pools[p] # {} /\ ReaderLoad(r, p, s)
       \/ ReaderStale(r)
       \/ ReaderCold(r)
       \/ ReaderLeaves(r)
    /\ UNCHANGED serverVars

\* A rebuild goes on in the background, also after run has returned, but
\* nothing of it reaches Redis through a closed pool.
Rebuild(p, s) ==
    /\ JobStep(p, s) \/ JobPanics(p, s)
    /\ cache' # cache => pools[p] # {}
    /\ UNCHANGED serverVars

Elsewhere ==
    /\ \/ \E e \in Editors : EditorStep(e)
       \/ \E s \in Shops : DirectSQL(s) \/ KeyVanishes(s)
       \/ Tick
    /\ UNCHANGED serverVars

-----------------------------------------------------------------------------
MainStep(p) ==
    \/ OpenMySQL(p) \/ OpenRedis(p)
    \/ Listen(p) \/ AwaitReady(p) \/ AwaitStop(p) \/ ShutdownReturns(p)
    \/ Join(p)
    \/ CloseShop(p) \/ CloseShopReturns(p) \/ ClosePools(p)

ServerNext ==
    \/ \E p \in Procs : MainStep(p)
    \/ \E p \in Procs : RunReady(p) \/ RunFails(p) \/ RunStops(p)
    \/ \E p \in Procs : Cancel(p) \/ Expire(p)
    \/ \E r \in Readers : Respond(r) \/ Handle(r)
    \/ \E r \in Readers, p \in Procs : Accept(r, p)
    \/ \E p \in Procs, s \in Shops : Rebuild(p, s)
    \/ Elsewhere

ServerSpec == ServerInit /\ [][ServerNext]_allVars

\* Goroutines that can run do; Hertz either reaches Accept or fails; timers
\* fire; every call of a rebuild has a deadline.  Nothing is assumed of
\* requests, of signals, nor of how soon Run notices its closed listener.
ServerFairSpec ==
    /\ ServerSpec
    /\ \A p \in Procs : WF_allVars(MainStep(p))
    /\ \A p \in Procs : WF_allVars(RunReady(p))
    /\ \A p \in Procs : WF_allVars(Expire(p))
    /\ \A p \in Procs, s \in Shops :
          WF_allVars(Rebuild(p, s) /\ JobStep(p, s))
    /\ \A r \in Readers :
          WF_allVars(Handle(r) /\ (ReaderStale(r) \/ ReaderCold(r)))

-----------------------------------------------------------------------------
(* Properties *)

\* When run returns both pools are closed, whichever step of the start or of
\* the stop failed; and when it returns without an error every accepted
\* request has been answered before.
ReturnsOrderly ==
    \A p \in Procs :
       phase[p] = "returned" =>
          pools[p] = {} /\ (errs[p] = {} => InFlight(p) = {})

\* Whichever of several ready branches the selects take: success is reported
\* only of a server that was told to stop and whose Run has come back without
\* an error, never of one that failed, could not start or never stopped.
FailuresAreReported ==
    \A p \in Procs :
       (phase[p] = "returned" /\ errs[p] = {}) =>
          hertz[p] = "stopped" /\ cancelled[p]

\* "Close is called after HTTP draining and before dependency pools are
\* closed": no rebuild works on closed pools unless Close ran out of time.
PoolsOutliveRebuilds ==
    \A p \in Procs :
       (phase[p] = "returned" /\ Inflight(p) # {}) => closer[p] = "timed out"

\* A cancelled process comes to its end, however its requests, its rebuilds
\* and Hertz behave.
CancellationEnds ==
    \A p \in Procs : cancelled[p] ~> phase[p] = "returned"

\* A request that needs a rebuild gets an answer: the shared rebuild it waits
\* for ends for it however it ends, shutdown included.
ReadersAreAnswered ==
    \A r \in Readers : reader[r].pc # "idle" ~> reader[r].pc = "idle"

\* Once Close was called, drained is closed, and only once: a second close
\* would panic.
CloseDrains ==
    \A p \in Procs : Closed(p) ~> [](drains[p] = 1)
=============================================================================
