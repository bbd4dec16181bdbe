----------------------------- MODULE Lifecycle -----------------------------
(***************************************************************************)
(* One process from start to exit: main.run, NewContainer, Server.Run, the  *)
(* hold expirer's loop, the requests being handled, the connection pool     *)
(* they share, and signals, under whatever environment Config accepts or    *)
(* refuses.  What the database answers is left out; it may also never       *)
(* answer, which matters most to a rollback, the one statement that no      *)
(* deadline bounds.                                                         *)
(***************************************************************************)
EXTENDS Config, FiniteSets

CONSTANTS
    Requests,
    MaxSignals, \* bound on the signals sent to the process
    Second,     \* seconds between two ticks of the clock
    Grace       \* what a handler needs to return once its context ended

\* The clock ticks often enough to see a handler in its grace.
ASSUME BoundsAssumption ==
    /\ {MaxSignals, Second, Grace} \subseteq Nat \ {0}
    /\ Second <= Grace

Sweeper == "sweeper"

ASSUME RequestsAssumption == IsFiniteSet(Requests) /\ Sweeper \notin Requests

Users == Requests \cup {Sweeper}

VARIABLES
    environ,    \* the environment
    cfg,        \* the configuration
    problems,   \* the variables Load complains about
    parts,      \* what the components were built with
    limits,     \* pool size and timeouts while the process serves
    phase,      \* where main.run is
    registered, \* signals go to NotifyContext, not to the default handler
    ctxDone,    \* the context of NotifyContext is cancelled
    signals,    \* sent so far
    listener,   \* "none", "up", "down" after Shutdown, "failed" to come up, or "lost"
    drained,    \* seconds since Shutdown was called
    pool,       \* "none", "open", "closing" or "closed"
    at,         \* where each user of the pool is
    conns,      \* connections each of them holds
    age,        \* seconds since each request came
    cut,        \* requests whose connection Close cut
    late,       \* requests that overran their deadline and grace in a rollback
    refused     \* users a closed pool turned away

conf == <<environ, cfg, problems, parts, limits>>
mainVars == <<conf, phase, registered, ctxDone, signals, listener, drained>>
userVars == <<at, conns, age, cut, late, refused>>
vars == <<mainVars, pool, userVars>>

Alive == phase \notin {"exited", "killed"}
Running == {r \in Requests : at[r] \notin {"none", "done"}}
Free == limits.conns - Cardinality({u \in Users : conns[u] >= 1})
                     - Cardinality({u \in Users : conns[u] = 2})

\* Unless it is switched off, the deadline of requests leaves the drain time.
DrainCoversRequests ==
    limits.request > 0 /\ limits.request + Grace < limits.shutdown

-----------------------------------------------------------------------------
(* Start.                                                                    *)

\* run returns: the deferred calls undo what was set up.
ReturnFrom(p) ==
    /\ phase = p
    /\ phase' = "exited" /\ registered' = FALSE /\ ctxDone' = TRUE
    /\ UNCHANGED <<conf, signals, listener, drained, userVars>>

To(p, q) ==
    /\ phase = p /\ phase' = q
    /\ UNCHANGED <<conf, registered, ctxDone, signals, listener, drained>>

\* config.Load, then signal.NotifyContext.
LoadConfig ==
    /\ phase = "load"
    /\ cfg' = Load(environ).cfg
    /\ problems' = Load(environ).problems
    /\ phase' = IF problems' = {} THEN "connect" ELSE "exited"
    /\ registered' = (problems' = {})
    /\ UNCHANGED <<environ, parts, limits, ctxDone, signals, listener, drained, pool, userVars>>

\* Connect; it closes the pool itself when the ping fails, and the ping has the
\* connect timeout, however short.
Connect ==
    /\ To("connect", "migrate")
    /\ ~ctxDone /\ cfg.connectTimeout > 0
    /\ pool' = "open"
    /\ UNCHANGED userVars

\* Migrate, then Seed; either may be switched off, and then heeds no context.
Prepare ==
    /\ To("migrate", "seed") \/ To("seed", "wire")
    /\ UNCHANGED <<pool, userVars>>

StartFails ==
    \/ ReturnFrom("connect") /\ UNCHANGED pool
    \/ \E p \in {"migrate", "seed"} : ReturnFrom(p) /\ pool' = "closed"

\* The rest of NewContainer.
Wire ==
    /\ phase = "wire" /\ phase' = "ready"
    /\ parts' = Wired(cfg)
    /\ limits' = [conns    |-> PoolOf(cfg).maxConns,
                  request  |-> cfg.requestTimeout,
                  shutdown |-> cfg.shutdownAfter]
    /\ UNCHANGED <<environ, cfg, problems, registered, ctxDone, signals, listener, drained,
                   pool, userVars>>

\* The expirer's goroutine and Server.Run start.  Nothing looks at the environment
\* or the configuration again, so they are forgotten.
Serve ==
    /\ phase = "ready" /\ phase' = "serve"
    /\ at' = [at EXCEPT ![Sweeper] = "idle"]
    /\ environ' = Unset /\ cfg' = Unset /\ parts' = Unset
    /\ UNCHANGED <<problems, limits, registered, ctxDone, signals, listener, drained, pool,
                   conns, age, cut, late, refused>>

-----------------------------------------------------------------------------
(* Server.Run, and the rest of run.                                          *)

\* The goroutine that listens: it comes up or not, and may fail at any time after.
ListenAndServe ==
    /\ phase = "serve"
    /\ \/ listener = "none" /\ listener' \in {"up", "failed"}
       \/ listener = "up" /\ listener' = "lost"
    /\ UNCHANGED <<conf, phase, registered, ctxDone, signals, drained, pool, userVars>>

\* Run returns its error at once, and drains nothing.
ListenError ==
    /\ listener \in {"failed", "lost"}
    /\ To("serve", "stop")
    /\ UNCHANGED <<pool, userVars>>

BeginShutdown ==
    /\ phase = "serve" /\ ctxDone
    /\ phase' = "drain" /\ listener' = "down"
    /\ UNCHANGED <<conf, registered, ctxDone, signals, drained, pool, userVars>>

\* Shutdown returns when no request is left.
Drained ==
    /\ Running = {}
    /\ To("drain", "stop")
    /\ UNCHANGED <<pool, userVars>>

DrainsOnCancelledContext ==
    /\ To("drain", "stop")
    /\ cut' = Running
    /\ UNCHANGED <<pool, at, conns, age, late, refused>>

\* Shutdown's own context ends: Close cuts off what is left.
ForceClose ==
    /\ To("drain", "stop")
    /\ drained >= limits.shutdown
    /\ cut' = Running
    /\ UNCHANGED <<pool, at, conns, age, late, refused>>

StopIsDeferred == To("stop", "wait") /\ UNCHANGED <<pool, userVars>>

\* stop() unregisters the handler and cancels the context.
Stop ==
    /\ phase = "stop" /\ phase' = "wait"
    /\ registered' = FALSE /\ ctxDone' = TRUE
    /\ UNCHANGED <<conf, signals, listener, drained, pool, userVars>>

ClosesAtOnce ==
    /\ To("wait", "close")
    /\ pool' = "closing"
    /\ UNCHANGED userVars

\* wg.Wait, then the deferred container.Close.
WaitForSweeper ==
    /\ at[Sweeper] = "stopped"
    /\ To("wait", "close")
    /\ pool' = "closing"
    /\ UNCHANGED userVars

\* The pool's Close returns when every connection has come back.
PoolClosed ==
    /\ \A u \in Users : conns[u] = 0
    /\ ReturnFrom("close")
    /\ pool' = "closed"

\* Ctrl-C or SIGTERM.
Signal ==
    /\ Alive /\ signals < MaxSignals
    /\ signals' = signals + 1
    /\ IF registered
       THEN ctxDone' = TRUE /\ UNCHANGED phase
       ELSE phase' = "killed" /\ UNCHANGED ctxDone
    /\ UNCHANGED <<conf, registered, listener, drained, pool, userVars>>

-----------------------------------------------------------------------------
(* Users of the pool.                                                        *)

\* Timeout installs no deadline when it is given none.
Ended(r) == r \in cut \/ (limits.request > 0 /\ age[r] >= limits.request)

Go(u, p, q) == Alive /\ at[u] = p /\ at' = [at EXCEPT ![u] = q]

\* Connections that are kept alive outlive a lost listener.
Arrive(r) ==
    /\ listener \in {"up", "lost"}
    /\ Go(r, "none", "handling")
    /\ UNCHANGED <<mainVars, pool, conns, age, cut, late, refused>>

\* A query, or WithTx, outside any transaction.
Ask(r) ==
    /\ Go(r, "handling", "waiting")
    /\ ~Ended(r)
    /\ UNCHANGED <<mainVars, pool, conns, age, cut, late, refused>>

GrantsPastLimit(u) ==
    /\ pool = "open"
    /\ Go(u, "waiting", "querying")
    /\ conns' = [conns EXCEPT ![u] = @ + 1]
    /\ UNCHANGED <<mainVars, pool, age, cut, late, refused>>

\* The pool hands out a connection, or says it is closed.
Granted(u) ==
    /\ Go(u, "waiting", "querying")
    /\ pool = "open" /\ Free > 0
    /\ conns' = [conns EXCEPT ![u] = @ + 1]
    /\ UNCHANGED <<mainVars, pool, age, cut, late, refused>>

Refused(u) ==
    /\ pool \in {"closing", "closed"}
    /\ Go(u, "waiting", IF u = Sweeper THEN "idle" ELSE "done")
    /\ conns' = [conns EXCEPT ![u] = 0]
    /\ refused' = refused \cup {u}
    /\ UNCHANGED <<mainVars, pool, age, cut, late>>

BeginsAnother(r) ==
    /\ Go(r, "querying", "waiting")
    /\ ~Ended(r) /\ conns[r] = 1
    /\ UNCHANGED <<mainVars, pool, conns, age, cut, late, refused>>

\* A repository call inside WithTx joins its transaction.
JoinTx(r) ==
    /\ Go(r, "querying", "nested")
    /\ ~Ended(r)
    /\ UNCHANGED <<mainVars, pool, conns, age, cut, late, refused>>

Releases(r, p) ==
    /\ Go(r, p, "handling")
    /\ conns' = [conns EXCEPT ![r] = 0]
    /\ UNCHANGED <<mainVars, pool, age, cut, late, refused>>

\* The query or the transaction is over, or its context is, which ends the query.
Release(r) == \E p \in {"querying", "nested"} : Releases(r, p)

\* WithTx rolls back after an error or a panic, under context.WithoutCancel,
RollBack(r) ==
    /\ \E p \in {"querying", "nested"} : Go(r, p, "rollback")
    /\ UNCHANGED <<mainVars, pool, conns, age, cut, late, refused>>

\* and waits for the database's answer.
RolledBack(r) == Releases(r, "rollback")

GiveUp(r) ==
    /\ Go(r, "waiting", "handling")
    /\ Ended(r)
    /\ conns' = [conns EXCEPT ![r] = 0]
    /\ UNCHANGED <<mainVars, pool, age, cut, late, refused>>

Respond(r) ==
    /\ Go(r, "handling", "done")
    /\ UNCHANGED <<mainVars, pool, conns, age, cut, late, refused>>

\* HoldExpirer.Run: select takes either when both are ready.
StartSweep ==
    /\ Go(Sweeper, "idle", "waiting")
    /\ UNCHANGED <<mainVars, pool, conns, age, cut, late, refused>>

\* The pass is over, or its context is.
EndSweep ==
    /\ \E p \in {"waiting", "querying"} : Go(Sweeper, p, "idle")
    /\ conns' = [conns EXCEPT ![Sweeper] = 0]
    /\ UNCHANGED <<mainVars, pool, age, cut, late, refused>>

StopSweeping ==
    /\ ctxDone
    /\ Go(Sweeper, "idle", "stopped")
    /\ UNCHANGED <<mainVars, pool, conns, age, cut, late, refused>>

Overrun(r) == limits.request > 0 /\ age[r] + Second > limits.request + Grace

\* A handler whose deadline has passed returns within its grace, and time waits for
\* it, unless it is rolling back.
Tick ==
    /\ Alive
    /\ Running # {} \/ (phase = "drain" /\ drained < limits.shutdown)
    /\ \A r \in Running \ late : Overrun(r) => at[r] = "rollback"
    /\ late' = late \cup {r \in Running : Overrun(r)}
    /\ age' = [r \in Requests |-> IF r \in Running \ late' /\ limits.request > 0
                                  THEN age[r] + Second ELSE age[r]]
    /\ drained' = IF phase = "drain" /\ drained < limits.shutdown THEN drained + Second ELSE drained
    /\ UNCHANGED <<conf, phase, registered, ctxDone, signals, listener, pool, at, conns, cut,
                   refused>>

-----------------------------------------------------------------------------
Init ==
    /\ environ \in Environment
    /\ cfg = Unset /\ problems = {} /\ parts = Unset /\ limits = Unset
    /\ phase = "load" /\ registered = FALSE /\ ctxDone = FALSE /\ signals = 0
    /\ listener = "none" /\ drained = 0 /\ pool = "none"
    /\ at = [u \in Users |-> "none"]
    /\ conns = [u \in Users |-> 0]
    /\ age = [r \in Requests |-> 0]
    /\ cut = {} /\ late = {} /\ refused = {}

\* What main does by itself; a start that is cancelled fails.
Main == \/ LoadConfig \/ Connect \/ Prepare \/ StartFails \/ Wire \/ Serve
        \/ ListenAndServe \/ ListenError \/ BeginShutdown \/ Drained \/ ForceClose
        \/ Stop \/ WaitForSweeper \/ PoolClosed

SweepUnbounded == FALSE

\* A pass, and a handler, that are told to stop do.
SweepCancelled == ctxDone /\ EndSweep
Unwind(r) == r \in Running /\ Ended(r) /\ (Release(r) \/ GiveUp(r) \/ Respond(r))

Request(r) ==
    \/ Arrive(r) \/ Ask(r) \/ Granted(r) \/ Refused(r) \/ JoinTx(r)
    \/ Release(r) \/ RollBack(r) \/ RolledBack(r) \/ GiveUp(r) \/ Respond(r)

Sweep == StartSweep \/ Granted(Sweeper) \/ Refused(Sweeper) \/ EndSweep \/ StopSweeping

Next == Main \/ Sweep \/ Tick \/ Signal \/ \E r \in Requests : Request(r)

Spec == Init /\ [][Next]_vars

\* Goroutines are scheduled, time passes, and a ready channel of a select is
\* taken in the end; the database need not answer anything, a rollback included.
FairSpec ==
    /\ Spec
    /\ WF_vars(Main) /\ WF_vars(Tick) /\ WF_vars(SweepCancelled) /\ SF_vars(StopSweeping)
    /\ \A r \in Requests : WF_vars(Unwind(r))

-----------------------------------------------------------------------------
(* Properties.                                                               *)

\* Every variable has its type: the pool's sizes fit their width and its ceiling
\* is kept.
TypeOK ==
    /\ environ \in Environment \cup {Unset}
    /\ cfg # Unset => {cfg.maxConns, cfg.minConns} \subseteq
                          (-(2 ^ (Width - 1))) .. (2 ^ (Width - 1) - 1)
    /\ limits # Unset => Free >= 0 /\ age \in [Requests -> 0 .. limits.request + Grace]
    /\ phase \in {"load", "connect", "migrate", "seed", "wire", "ready", "serve", "drain",
                  "stop", "wait", "close", "exited", "killed"}
    /\ {registered, ctxDone} \subseteq BOOLEAN
    /\ signals \in 0 .. MaxSignals
    /\ listener \in {"none", "up", "failed", "lost", "down"}
    /\ drained \in Nat
    /\ pool \in {"none", "open", "closing", "closed"}
    /\ at \in [Users -> {"none", "idle", "handling", "waiting", "querying", "nested", "rollback",
                         "done", "stopped"}]
    /\ conns \in [Users -> 0 .. 2]
    /\ cut \subseteq Requests /\ late \subseteq Requests /\ refused \subseteq Users

\* "Production must not run with demo affordances or an unsigned webhook path"
\* (config.go:162): whatever is set, what is wired in production verifies
\* callbacks with a secret of the operator's, cannot fake one, has no demo data
\* and lets no origin but the listed ones in.
ProductionIsHardened ==
    (phase = "ready" /\ cfg.env = "production") =>
        /\ parts.secret = environ["PAYMENT_WEBHOOK_SECRET"]
        /\ ~parts.simulate /\ ~parts.seed /\ ~parts.anyOrigin

\* Whatever Load accepts, the parts can work with it: the pool has room for a
\* connection and for those it keeps, the sweeper's ticker accepts its interval
\* (a zero one panics), and seats are held at least as long during a payment
\* ("a shorter one would let seats lapse mid-payment", config.go:154).
PartsCanRun ==
    phase = "ready" =>
        /\ limits.conns > 0
        /\ PoolOf(cfg).minConns \in 0 .. limits.conns
        /\ parts.ticker > 0
        /\ parts.hold \in 1 .. parts.window

\* "A deploy does not cut a checkout in half" (server.go:41): with a shutdown
\* timeout above what a handler can take, as by default, whenever the signal
\* comes, no request is cut off and none is running once Run has returned, but for
\* those whose rollback the database left unanswered past their deadline.  A
\* listener that is lost is no deploy, and nothing is drained after it.
NothingCutOff ==
    (limits # Unset /\ DrainCoversRequests /\ listener # "lost") =>
        /\ cut \subseteq late
        /\ phase \in {"stop", "wait", "close", "exited", "killed"} => Running \subseteq cut

\* The pool outlives its users, and does not outlive the process: a sweep is never
\* refused a connection because the pool has been closed under it, nor, unless the
\* listener was lost, a request that was not cut off; and however run returns, also
\* when a start fails half way, the pool it opened is closed with no connection left
\* behind.
PoolOutlivesUsers ==
    /\ Sweeper \notin refused
    /\ listener # "lost" => refused \subseteq cut
    /\ phase = "exited" => pool \in {"none", "closed"} /\ \A u \in Users : conns[u] = 0

\* The pool is never exhausted by transactions that themselves wait for a
\* connection: "nested calls join the outer transaction rather than opening a
\* second one" (db.go:101).
PoolNotWedged ==
    (limits # Unset /\ Free = 0) => \E u \in Users : conns[u] > 0 /\ at[u] # "waiting"

\* Connections that only the database can give back: of a rollback, and, after a lost
\* listener, which cuts nothing off, of a request without a deadline.
Stuck == {r \in Requests : \/ at[r] = "rollback"
                           \/ /\ at[r] \in {"querying", "nested"}
                              /\ listener = "lost" /\ limits.request = 0}

\* A signal, or a listener that fails, ends the process, although the database may
\* not answer the sweep or a query: only a rollback it leaves unanswered for ever,
\* or a query that nothing bounds, keeps the pool's Close waiting.
ShutdownEnds ==
    ((ctxDone \/ listener \in {"failed", "lost"}) ~> ~Alive) \/ <>[](Stuck # {})

\* "A second Ctrl-C aborts a shutdown that is taking too long instead of being
\* swallowed" (main.go:52): a signal that comes while requests are drained, which
\* the first one started, ends the process.
SecondSignalAborts ==
    [][(phase = "drain" /\ signals' > signals) => phase' = "killed"]_vars
=============================================================================
