-------------------------- MODULE LifecycleProofs --------------------------
(***************************************************************************)
(* Proofs about Lifecycle and Config: what Load accepts can be run and is   *)
(* hardened in production, a shutdown cuts no request that keeps to its     *)
(* deadline, and the pool outlives its users and is never exhausted by      *)
(* users that wait for it, whatever the environment, the requests, the      *)
(* signals, the listener and the answers of the database.                   *)
(***************************************************************************)
EXTENDS Lifecycle, FiniteSetTheorems, TLAPS

-----------------------------------------------------------------------------
(* The inductive invariant.                                                  *)

\* The configuration has been accepted and the server does not run yet.
Starting == {"connect", "migrate", "seed", "wire", "ready"}

\* No request is accepted any more and run is on its way out.
Leaving == {"stop", "wait", "close"}

\* The handler of signals, the listener and the pool follow main.run.
PhaseInv ==
    /\ registered <=> phase \in Starting \cup {"serve", "drain", "stop"}
    /\ phase \in Starting \cup {"load"} => listener = "none"
    /\ phase = "drain" => listener = "down"
    /\ phase \in Leaving => listener \in {"failed", "lost", "down"}
    /\ phase \in {"load", "connect"} => pool = "none"
    /\ phase \in {"migrate", "seed", "wire", "ready", "serve", "drain", "stop", "wait"} =>
         pool = "open"
    /\ phase = "close" => pool = "closing"

\* What the pool and the deadlines are given.
Limits == [conns : Nat \ {0}, request : Nat, shutdown : Nat]

LimitsOf(c) ==
    [conns    |-> PoolOf(c).maxConns,
     request  |-> c.requestTimeout,
     shutdown |-> c.shutdownAfter]

\* Until the server runs, the configuration is what Load made of the environment
\* and had nothing to say against.
ConfigInv ==
    /\ phase = "load" => environ \in Environment
    /\ cfg # Unset => environ \in Environment /\ cfg = Load(environ).cfg
    /\ phase \in Starting =>
         environ \in Environment /\ cfg = Load(environ).cfg /\ Load(environ).problems = {}
    /\ phase = "ready" => parts = Wired(cfg) /\ limits = LimitsOf(cfg)
    /\ phase \in (Starting \cup {"load"}) \ {"ready"} => limits = Unset
    /\ phase \in {"ready", "serve", "drain"} \cup Leaving => limits \in Limits
    /\ limits # Unset => limits \in Limits

\* Where a user has a connection.
Connected == {"querying", "nested", "rollback"}
USE DEF Connected

Holding == {u \in Users : conns[u] >= 1}

\* A user holds a connection while it queries or rolls back, one, and never more than the pool
\* has are held.
UserInv ==
    /\ at[Sweeper] \in {"none", "idle", "waiting", "querying", "stopped"}
    /\ \A r \in Requests :
         at[r] \in {"none", "handling", "waiting", "querying", "nested", "rollback", "done"}
    /\ \A u \in Users : conns[u] = IF at[u] \in Connected THEN 1 ELSE 0
    /\ limits # Unset => Cardinality(Holding) <= limits.conns

\* Nobody comes before the server listens.
QuietInv ==
    /\ phase \in Starting \cup {"load"} =>
         /\ \A u \in Users : at[u] = "none"
         /\ age = [r \in Requests |-> 0]
    /\ listener \in {"none", "failed"} => \A r \in Requests : at[r] = "none"

\* Every request that is drained is at least as old as the drain, or overran in a
\* rollback.
ClockInv ==
    /\ phase \in Starting \cup {"load", "serve"} => drained = 0
    /\ phase = "drain" /\ limits # Unset /\ limits.request > 0 =>
         \A r \in Running \ late : drained <= age[r]

\* Once Run has returned, what still runs has been cut off, unless the listener was
\* lost, and the pool is closed after the sweeper has stopped.
CloseInv ==
    /\ phase \in Leaving /\ listener # "lost" => Running \subseteq cut
    /\ phase \in Starting \cup {"load", "serve", "drain"} => cut = {}
    /\ phase \notin {"close", "exited", "killed"} => refused = {}
    /\ phase = "close" => at[Sweeper] = "stopped"

IInv ==
    /\ TypeOK /\ PhaseInv /\ ConfigInv /\ UserInv /\ QuietInv /\ ClockInv /\ CloseInv
    /\ NothingCutOff /\ PoolOutlivesUsers

-----------------------------------------------------------------------------
(* The configuration.                                                        *)

Halves(w) == 2 ^ w = 2 * 2 ^ (w - 1) /\ 2 ^ (w - 1) \in Nat \ {0}

LEMMA PowersOfTwo == Halves(Width)
<1>1. \/ Width \in {8, 9, 10, 11, 12, 13, 14, 15, 16, 17, 18, 19, 20}
      \/ Width \in {21, 22, 23, 24, 25, 26, 27, 28, 29, 30, 31, 32}
  BY WidthAssumption
<1>2. /\ Halves(8) /\ Halves(9) /\ Halves(10) /\ Halves(11) /\ Halves(12)
      /\ Halves(13) /\ Halves(14) /\ Halves(15) /\ Halves(16) /\ Halves(17)
      /\ Halves(18) /\ Halves(19) /\ Halves(20) /\ Halves(21) /\ Halves(22)
      /\ Halves(23) /\ Halves(24) /\ Halves(25) /\ Halves(26) /\ Halves(27)
      /\ Halves(28) /\ Halves(29) /\ Halves(30) /\ Halves(31) /\ Halves(32)
  BY DEF Halves
<1> QED BY <1>1, <1>2

\* int32(n) keeps a number of that width.
LEMMA Int32Fits ==
    ASSUME NEW n \in Int
    PROVE  Int32(n) \in (-(2 ^ (Width - 1))) .. (2 ^ (Width - 1) - 1)
<1> DEFINE p == 2 ^ (Width - 1)
           m == 2 ^ Width
<1>1. p \in Nat \ {0} /\ m = 2 * p
  BY PowersOfTwo DEF Halves
<1>2. Int32(n) = ((n + p) % m) - p
  BY DEF Int32
<1> HIDE DEF p, m
<1>3. (n + p) % m \in 0 .. m - 1
  BY <1>1
<1>4. Int32(n) \in (-p) .. (p - 1)
  BY <1>1, <1>2, <1>3
<1> QED BY <1>4 DEF p

\* What an environment may hold, variable by variable.
LEMMA SettingsOf ==
    ASSUME NEW e \in Environment
    PROVE  /\ e.HTTP_REQUEST_TIMEOUT \in {Unset, 0}
           /\ e.HTTP_SHUTDOWN_TIMEOUT \in {Unset, 0}
           /\ e.DB_MAX_CONNS \in {Unset, 0, 2 ^ Width + 2}
           /\ e.DB_MIN_CONNS \in {Unset, -1, 30}
           /\ e.HOLD_TTL \in {Unset, Bad, 30, 1200}
           /\ e.HOLD_SWEEP_INTERVAL \in {Unset, 0}
           /\ e.PAYMENT_WINDOW \in {Unset, 120, 1800}
<1> DEFINE A == {Unset, 0}
           B == {Unset, 0, 2 ^ Width + 2}
           C == {Unset, -1, 30}
           D == {Unset, Bad, 30, 1200}
           E == {Unset, 120, 1800}
           F == {Unset, "production", "staging"}
           G == {Unset, "other"}
           H == {Unset, "own"}
           I == {Unset, TRUE}
           O == {Unset, <<"*">>, <<"", "">>, <<"*", "site">>}
<1>0. e \in Settings
  BY DEF Environment
<1>1. Settings = [
    APP_ENV                : F,
    HTTP_REQUEST_TIMEOUT   : A,
    HTTP_SHUTDOWN_TIMEOUT  : A,
    DB_MAX_CONNS           : B,
    DB_MIN_CONNS           : C,
    DB_CONNECT_TIMEOUT     : A,
    HOLD_TTL               : D,
    HOLD_SWEEP_INTERVAL    : A,
    PAYMENT_WINDOW         : E,
    PAYMENT_PROVIDER       : G,
    PAYMENT_WEBHOOK_SECRET : H,
    PAYMENT_TEST_ENDPOINTS : I,
    SEED_DEMO_DATA         : I,
    CORS_ORIGINS           : O]
  BY DEF Settings
<1> HIDE DEF A, B, C, D, E, F, G, H, I, O
<1>2. /\ e.HTTP_REQUEST_TIMEOUT \in A /\ e.HTTP_SHUTDOWN_TIMEOUT \in A
      /\ e.DB_MAX_CONNS \in B /\ e.DB_MIN_CONNS \in C
      /\ e.HOLD_TTL \in D /\ e.HOLD_SWEEP_INTERVAL \in A /\ e.PAYMENT_WINDOW \in E
  BY <1>0, <1>1
<1> QED BY <1>2 DEF A, B, C, D, E

\* An environment, these or any other, in which what counts as a number or a
\* duration is one.
Numeric(e) ==
    /\ Get(e, "DB_MAX_CONNS", 20) \in Int
    /\ Get(e, "DB_MIN_CONNS", 2) \in Int
    /\ Get(e, "HOLD_TTL", 300) \in Int
    /\ Get(e, "HOLD_SWEEP_INTERVAL", 30) \in Int
    /\ Get(e, "PAYMENT_WINDOW", 600) \in Int

\* What Load makes of it: what cannot be used is replaced by a number.
LEMMA Read ==
    ASSUME NEW e \in Environment
    PROVE  /\ Numeric(e)
           /\ Get(e, "HTTP_REQUEST_TIMEOUT", 8) \in Nat
           /\ Get(e, "HTTP_SHUTDOWN_TIMEOUT", 15) \in Nat
<1>1. 2 ^ Width + 2 \in Int
  BY PowersOfTwo DEF Halves
<1>2. Get(e, "DB_MAX_CONNS", 20) \in Int
  BY <1>1, SettingsOf DEF Get
<1>3. /\ Get(e, "HTTP_REQUEST_TIMEOUT", 8) \in Nat
      /\ Get(e, "HTTP_SHUTDOWN_TIMEOUT", 15) \in Nat
      /\ Get(e, "DB_MIN_CONNS", 2) \in Int
      /\ Get(e, "HOLD_TTL", 300) \in Int
      /\ Get(e, "HOLD_SWEEP_INTERVAL", 30) \in Int
      /\ Get(e, "PAYMENT_WINDOW", 600) \in Int
  BY SettingsOf DEF Get
<1> QED BY <1>2, <1>3 DEF Numeric

\* WithSecret touches nothing but the secret, and only a missing one.
LEMMA SecretFilledIn ==
    ASSUME NEW e
    PROVE  /\ Load(e).cfg.env = Parsed(e).env
           /\ Load(e).cfg.requestTimeout = Parsed(e).requestTimeout
           /\ Load(e).cfg.shutdownAfter = Parsed(e).shutdownAfter
           /\ Load(e).cfg.maxConns = Parsed(e).maxConns
           /\ Load(e).cfg.minConns = Parsed(e).minConns
           /\ Load(e).cfg.holdTTL = Parsed(e).holdTTL
           /\ Load(e).cfg.sweepInterval = Parsed(e).sweepInterval
           /\ Load(e).cfg.paymentWindow = Parsed(e).paymentWindow
           /\ Load(e).cfg.testEndpoints = Parsed(e).testEndpoints
           /\ Load(e).cfg.seedDemoData = Parsed(e).seedDemoData
           /\ Load(e).cfg.corsOrigins = Parsed(e).corsOrigins
           /\ Parsed(e).webhookSecret # "" =>
                Load(e).cfg.webhookSecret = Parsed(e).webhookSecret
<1>1. Load(e).cfg = WithSecret(Parsed(e))
  BY DEF Load
<1>2. CASE Parsed(e).webhookSecret # ""
  BY <1>1, <1>2 DEF WithSecret
<1>3. CASE Parsed(e).webhookSecret = ""
  <2>1. WithSecret(Parsed(e)) = [Parsed(e) EXCEPT !.webhookSecret = "dev-webhook-secret"]
    BY <1>3 DEF WithSecret
  <2>2. DOMAIN Parsed(e) =
          {"env", "requestTimeout", "shutdownAfter", "maxConns", "minConns",
           "connectTimeout", "holdTTL", "sweepInterval", "paymentWindow", "provider",
           "webhookSecret", "testEndpoints", "seedDemoData", "corsOrigins"}
    BY DEF Parsed
  <2>3. \A f \in DOMAIN Parsed(e) : f # "webhookSecret" => Load(e).cfg[f] = Parsed(e)[f]
    BY <1>1, <2>1
  <2> HIDE DEF Parsed
  <2> QED BY <1>3, <2>2, <2>3
<1> QED BY <1>2, <1>3

\* The sizes of the pool fit their width, and the other settings are numbers.
LEMMA LoadedNumbers ==
    ASSUME NEW e, Numeric(e), NEW c, c = Load(e).cfg
    PROVE  /\ {c.maxConns, c.minConns} \subseteq
                (-(2 ^ (Width - 1))) .. (2 ^ (Width - 1) - 1)
           /\ c.maxConns \in Int /\ c.minConns \in Int
           /\ c.holdTTL \in Int /\ c.sweepInterval \in Int /\ c.paymentWindow \in Int
<1>1. /\ Parsed(e).maxConns = Int32(Get(e, "DB_MAX_CONNS", 20))
      /\ Parsed(e).minConns = Int32(Get(e, "DB_MIN_CONNS", 2))
      /\ Parsed(e).holdTTL = Get(e, "HOLD_TTL", 300)
      /\ Parsed(e).sweepInterval = Get(e, "HOLD_SWEEP_INTERVAL", 30)
      /\ Parsed(e).paymentWindow = Get(e, "PAYMENT_WINDOW", 600)
  BY DEF Parsed
<1>2. /\ c.maxConns = Parsed(e).maxConns /\ c.minConns = Parsed(e).minConns
      /\ c.holdTTL = Parsed(e).holdTTL /\ c.sweepInterval = Parsed(e).sweepInterval
      /\ c.paymentWindow = Parsed(e).paymentWindow
  BY SecretFilledIn
<1>3. /\ c.maxConns \in (-(2 ^ (Width - 1))) .. (2 ^ (Width - 1) - 1)
      /\ c.minConns \in (-(2 ^ (Width - 1))) .. (2 ^ (Width - 1) - 1)
  BY <1>1, <1>2, Int32Fits DEF Numeric
<1>4. 2 ^ (Width - 1) \in Nat
  BY PowersOfTwo DEF Halves
<1>5. c.maxConns \in Int /\ c.minConns \in Int
  BY <1>3, <1>4
<1>6. c.holdTTL \in Int /\ c.sweepInterval \in Int /\ c.paymentWindow \in Int
  BY <1>1, <1>2 DEF Numeric
<1> QED BY <1>3, <1>5, <1>6

\* What Load has nothing to say against.
LEMMA Accepted ==
    ASSUME NEW e, NEW c, c = Load(e).cfg, Load(e).problems = {}
    PROVE  /\ ~(c.minConns > c.maxConns)
           /\ ~(c.holdTTL < 60)
           /\ ~(c.paymentWindow < c.holdTTL)
           /\ c.env = "production" =>
                /\ c.webhookSecret = e["PAYMENT_WEBHOOK_SECRET"]
                /\ ~c.testEndpoints /\ ~c.seedDemoData /\ c.corsOrigins # <<"*">>
<1> DEFINE p == Parsed(e)
<1>1. RuleProblems(p) = {}
  BY DEF Load, Problems
<1>2. /\ ~(p.minConns > p.maxConns)
      /\ ~(p.holdTTL < 60)
      /\ ~(p.paymentWindow < p.holdTTL)
      /\ ProductionProblems(p) = {}
  BY <1>1 DEF RuleProblems
<1>3. p.env = "production" =>
        p.webhookSecret # "" /\ ~p.testEndpoints /\ ~p.seedDemoData /\ p.corsOrigins # <<"*">>
  BY <1>2 DEF ProductionProblems
<1>4. p.webhookSecret = Get(e, "PAYMENT_WEBHOOK_SECRET", "")
  BY DEF Parsed
<1>5. p.webhookSecret # "" => p.webhookSecret = e["PAYMENT_WEBHOOK_SECRET"]
  BY <1>4 DEF Get
<1> HIDE DEF p
<1>6. /\ c.env = p.env /\ c.minConns = p.minConns /\ c.maxConns = p.maxConns
      /\ c.holdTTL = p.holdTTL /\ c.paymentWindow = p.paymentWindow
      /\ c.testEndpoints = p.testEndpoints /\ c.seedDemoData = p.seedDemoData
      /\ c.corsOrigins = p.corsOrigins
      /\ p.webhookSecret # "" => c.webhookSecret = p.webhookSecret
  BY SecretFilledIn DEF p
<1> QED BY <1>2, <1>3, <1>5, <1>6

\* What NewContainer makes of it, whatever the environment: the pool has room for
\* a connection and for those it keeps, the sweeper's ticker accepts its interval
\* and a hold does not outlast the payment it is extended for; in production,
\* callbacks are verified with the operator's secret and cannot be simulated,
\* there is no demo data, and only the origins listed are let in.
THEOREM AcceptedIsSound ==
    ASSUME NEW e, Numeric(e), NEW c, c = Load(e).cfg, Load(e).problems = {}
    PROVE  /\ PoolOf(c).maxConns > 0
           /\ PoolOf(c).minConns \in 0 .. PoolOf(c).maxConns
           /\ Wired(c).ticker > 0
           /\ Wired(c).hold \in 1 .. Wired(c).window
           /\ c.env = "production" =>
                /\ Wired(c).secret = e["PAYMENT_WEBHOOK_SECRET"]
                /\ ~Wired(c).simulate /\ ~Wired(c).seed /\ ~Wired(c).anyOrigin
<1>1. /\ c.maxConns \in Int /\ c.minConns \in Int
      /\ c.holdTTL \in Int /\ c.sweepInterval \in Int /\ c.paymentWindow \in Int
  BY LoadedNumbers
<1>2. /\ ~(c.minConns > c.maxConns) /\ ~(c.holdTTL < 60) /\ ~(c.paymentWindow < c.holdTTL)
      /\ c.env = "production" =>
           /\ c.webhookSecret = e["PAYMENT_WEBHOOK_SECRET"]
           /\ ~c.testEndpoints /\ ~c.seedDemoData /\ c.corsOrigins # <<"*">>
  BY Accepted
<1>3. PoolOf(c).maxConns > 0 /\ PoolOf(c).minConns \in 0 .. PoolOf(c).maxConns
  BY <1>1, <1>2 DEF PoolOf, OrDefault, DriverMaxConns
<1>4. Wired(c).ticker > 0 /\ Wired(c).hold \in 1 .. Wired(c).window
  BY <1>1, <1>2 DEF Wired, OrDefault
<1>5. c.env = "production" =>
        /\ Wired(c).secret = e["PAYMENT_WEBHOOK_SECRET"]
        /\ ~Wired(c).simulate /\ ~Wired(c).seed /\ ~Wired(c).anyOrigin
  BY <1>2 DEF Wired
<1> QED BY <1>3, <1>4, <1>5

\* The pool has room, and the deadlines are numbers.
LEMMA LimitsFit ==
    ASSUME NEW e \in Environment
    PROVE  LimitsOf(Load(e).cfg) \in Limits
<1> DEFINE c == Load(e).cfg
<1>1. c.maxConns \in Int
  BY Read, LoadedNumbers
<1>2. c.requestTimeout \in Nat /\ c.shutdownAfter \in Nat
  <2>1. /\ Parsed(e).requestTimeout = Get(e, "HTTP_REQUEST_TIMEOUT", 8)
        /\ Parsed(e).shutdownAfter = Get(e, "HTTP_SHUTDOWN_TIMEOUT", 15)
    BY DEF Parsed
  <2> QED BY <2>1, SecretFilledIn, Read
<1>3. PoolOf(c).maxConns \in Nat \ {0}
  BY <1>1 DEF PoolOf, OrDefault, DriverMaxConns
<1> QED BY <1>2, <1>3 DEF LimitsOf, Limits

-----------------------------------------------------------------------------
(* What main does.                                                           *)

\* Main leaves the users of the pool where they are, and their limits as they
\* are while there are users.
LEMMA UsersKept ==
    ASSUME TypeOK, UserInv, UNCHANGED <<limits, at, conns, age>>
    PROVE  /\ UserInv'
           /\ limits' # Unset =>
                Free' >= 0 /\ age' \in [Requests -> 0 .. limits'.request + Grace]
           /\ at' \in [Users -> {"none", "idle", "handling", "waiting", "querying", "nested",
                                 "rollback", "done", "stopped"}]
           /\ conns' \in [Users -> 0 .. 2]
           /\ Running' = Running
<1>1. Holding' = Holding /\ Free' = Free /\ Running' = Running
  BY DEF Holding, Free, Running
<1>2. UserInv'
  BY <1>1 DEF UserInv
<1> QED BY <1>1, <1>2 DEF TypeOK

\* Steps of run that leave the configuration and the users alone.
LEMMA StartPreserves ==
    ASSUME IInv, Connect \/ Prepare \/ StartFails
    PROVE  IInv'
<1> USE DEF IInv
<1>1. UNCHANGED <<conf, signals, listener, drained, userVars>>
  BY DEF Connect, Prepare, StartFails, To, ReturnFrom
<1>2. /\ \/ /\ phase \in {"connect", "migrate", "seed"}
            /\ phase' \in {"migrate", "seed", "wire"}
            /\ pool' = "open" /\ UNCHANGED <<registered, ctxDone>>
         \/ /\ phase \in {"connect", "migrate", "seed"}
            /\ phase' = "exited" /\ registered' = FALSE /\ ctxDone' = TRUE
            /\ pool' \in {"none", "closed"}
  BY DEF Connect, Prepare, StartFails, To, ReturnFrom, PhaseInv
<1>3. /\ UserInv' /\ Running' = Running
      /\ limits' # Unset =>
           Free' >= 0 /\ age' \in [Requests -> 0 .. limits'.request + Grace]
  BY <1>1, UsersKept DEF conf, userVars
<1>4. TypeOK'
  BY <1>1, <1>2, <1>3 DEF TypeOK, conf, userVars
<1>5. PhaseInv'
  BY <1>1, <1>2 DEF PhaseInv, Starting, Leaving
<1>6. ConfigInv'
  BY <1>1, <1>2 DEF ConfigInv, conf, Starting, Leaving
<1>7. QuietInv' /\ ClockInv' /\ CloseInv'
  BY <1>1, <1>2, <1>3 DEF QuietInv, ClockInv, CloseInv, conf, userVars, Starting, Leaving, Users
<1>8. NothingCutOff' /\ PoolOutlivesUsers'
  BY <1>1, <1>2, <1>3
     DEF NothingCutOff, PoolOutlivesUsers, ConfigInv, QuietInv, UserInv, CloseInv, Starting,
         conf, userVars
<1> QED BY <1>3, <1>4, <1>5, <1>6, <1>7, <1>8

\* config.Load.
LEMMA LoadPreserves ==
    ASSUME IInv, LoadConfig
    PROVE  IInv'
<1> USE DEF IInv
<1>1. /\ phase = "load" /\ environ \in Environment /\ limits = Unset
      /\ cfg' = Load(environ).cfg /\ problems' = Load(environ).problems
      /\ UNCHANGED <<environ, parts, limits, ctxDone, signals, listener, drained, pool,
                     userVars>>
      /\ \/ phase' = "connect" /\ problems' = {} /\ registered' = TRUE
         \/ phase' = "exited" /\ registered' = FALSE
  BY DEF LoadConfig, ConfigInv, Starting
<1>2. UserInv' /\ Running' = Running
  BY <1>1, UsersKept DEF userVars
<1>3. cfg' # Unset => {cfg'.maxConns, cfg'.minConns} \subseteq
                         (-(2 ^ (Width - 1))) .. (2 ^ (Width - 1) - 1)
  BY <1>1, Read, LoadedNumbers
<1>4. TypeOK'
  BY <1>1, <1>3 DEF TypeOK, userVars
<1>5. PhaseInv'
  BY <1>1 DEF PhaseInv, Starting, Leaving
<1>6. ConfigInv'
  BY <1>1 DEF ConfigInv, Starting, Leaving
<1>7. QuietInv' /\ ClockInv' /\ CloseInv'
  BY <1>1, <1>2 DEF QuietInv, ClockInv, CloseInv, userVars, Starting, Leaving
<1>8. NothingCutOff' /\ PoolOutlivesUsers'
  BY <1>1
     DEF NothingCutOff, PoolOutlivesUsers, PhaseInv, QuietInv, UserInv, CloseInv, Starting,
         userVars
<1> QED BY <1>2, <1>4, <1>5, <1>6, <1>7, <1>8

\* The rest of NewContainer: the pool is given its size while nobody uses it.
LEMMA WirePreserves ==
    ASSUME IInv, Wire
    PROVE  IInv'
<1> USE DEF IInv
<1>1. /\ phase = "wire" /\ phase' = "ready"
      /\ parts' = Wired(cfg) /\ limits' = LimitsOf(cfg)
      /\ UNCHANGED <<environ, cfg, problems, registered, ctxDone, signals, listener, drained,
                     pool, userVars>>
  BY DEF Wire, LimitsOf
<1>2. environ \in Environment /\ cfg = Load(environ).cfg /\ limits' \in Limits
  BY <1>1, LimitsFit DEF ConfigInv, Starting
<1>3. /\ \A u \in Users : at[u] = "none" /\ conns[u] = 0
      /\ age = [r \in Requests |-> 0]
  BY <1>1 DEF QuietInv, UserInv, Starting, TypeOK
<1>4. Holding' = {} /\ {u \in Users : conns'[u] = 2} = {} /\ {u \in Users : conns'[u] >= 1} = {}
  BY <1>1, <1>3 DEF Holding, userVars
<1>5. Cardinality(Holding') = 0 /\ Free' = limits'.conns
  BY <1>2, <1>4, FS_EmptySet DEF Free, Limits
<1>6. UserInv'
  BY <1>1, <1>2, <1>5 DEF UserInv, userVars, Limits
<1>7. TypeOK'
  <2>1. age' \in [Requests -> 0 .. limits'.request + Grace]
    BY <1>1, <1>2, <1>3, BoundsAssumption DEF userVars, Limits
  <2> QED BY <1>1, <1>2, <1>5, <2>1 DEF TypeOK, userVars, Limits
<1>8. PhaseInv'
  BY <1>1 DEF PhaseInv, Starting, Leaving
<1>9. ConfigInv'
  BY <1>1, <1>2 DEF ConfigInv, Starting, Leaving
<1>10. QuietInv' /\ ClockInv' /\ CloseInv'
  BY <1>1 DEF QuietInv, ClockInv, CloseInv, userVars, Starting, Leaving
<1>11. NothingCutOff' /\ PoolOutlivesUsers'
  BY <1>1 DEF NothingCutOff, PoolOutlivesUsers, CloseInv, Starting, userVars
<1> QED BY <1>6, <1>7, <1>8, <1>9, <1>10, <1>11

\* The sweeper starts, with no connection.
LEMMA ServePreserves ==
    ASSUME IInv, Serve
    PROVE  IInv'
<1> USE DEF IInv
<1>1. /\ phase = "ready" /\ phase' = "serve"
      /\ at' = [at EXCEPT ![Sweeper] = "idle"]
      /\ environ' = Unset /\ cfg' = Unset
      /\ UNCHANGED <<limits, registered, ctxDone, signals, listener, drained, pool, conns, age,
                     cut, late, refused>>
  BY DEF Serve
<1>2. Sweeper \in Users /\ Requests \subseteq Users /\ Sweeper \notin Requests
  BY RequestsAssumption DEF Users
<1>3. /\ at' \in [Users -> {"none", "idle", "handling", "waiting", "querying", "nested",
                            "rollback", "done", "stopped"}]
      /\ at'[Sweeper] = "idle" /\ \A r \in Requests : at'[r] = at[r]
      /\ \A u \in Users : at[u] = "none"
      /\ Holding' = Holding /\ Free' = Free /\ Running' = Running
  BY <1>1, <1>2 DEF TypeOK, QuietInv, Starting, Holding, Free, Running
<1>4. UserInv'
  BY <1>1, <1>2, <1>3 DEF UserInv, Users
<1>5. TypeOK'
  BY <1>1, <1>3 DEF TypeOK
<1>6. PhaseInv'
  BY <1>1 DEF PhaseInv, Starting, Leaving
<1>7. ConfigInv'
  BY <1>1 DEF ConfigInv, Starting, Leaving
<1>8. QuietInv' /\ ClockInv' /\ CloseInv'
  BY <1>1, <1>3 DEF QuietInv, ClockInv, CloseInv, Starting, Leaving
<1>9. NothingCutOff' /\ PoolOutlivesUsers'
  BY <1>1 DEF NothingCutOff, PoolOutlivesUsers, CloseInv, Starting
<1> QED BY <1>4, <1>5, <1>6, <1>7, <1>8, <1>9

\* Server.Run up to the end of the drain.
LEMMA RunPreserves ==
    ASSUME IInv, ListenAndServe \/ ListenError \/ BeginShutdown
    PROVE  IInv'
<1> USE DEF IInv
<1>1. UNCHANGED <<conf, registered, ctxDone, signals, drained, pool, userVars>>
  BY DEF ListenAndServe, ListenError, BeginShutdown, To
<1>2. /\ phase = "serve"
      /\ \/ phase' = "serve" /\ listener = "none" /\ listener' \in {"up", "failed"}
         \/ phase' = "serve" /\ listener = "up" /\ listener' = "lost"
         \/ phase' = "stop" /\ listener \in {"failed", "lost"} /\ listener' = listener
         \/ phase' = "drain" /\ listener' = "down"
  BY DEF ListenAndServe, ListenError, BeginShutdown, To
<1>3. /\ UserInv' /\ Running' = Running
      /\ limits' # Unset =>
           Free' >= 0 /\ age' \in [Requests -> 0 .. limits'.request + Grace]
  BY <1>1, UsersKept DEF conf, userVars
<1>4. TypeOK'
  BY <1>1, <1>2, <1>3 DEF TypeOK, conf, userVars
<1>5. PhaseInv'
  BY <1>1, <1>2 DEF PhaseInv, Starting, Leaving
<1>6. ConfigInv'
  BY <1>1, <1>2 DEF ConfigInv, conf, Starting, Leaving
<1>7. listener \in {"none", "failed"} => Running = {}
  BY DEF QuietInv, Running
<1>8. QuietInv' /\ CloseInv'
  BY <1>1, <1>2, <1>3, <1>7 DEF QuietInv, CloseInv, userVars, Starting, Leaving
<1>9. ClockInv'
  <2>1. drained' = 0
    BY <1>1, <1>2 DEF ClockInv
  <2>2. limits' # Unset => \A r \in Running' \ late' : 0 <= age'[r]
    BY <1>1, <1>3 DEF TypeOK, ConfigInv, Limits, conf, userVars, Running
  <2> QED BY <1>2, <2>1, <2>2 DEF ClockInv, Starting
<1>10. NothingCutOff' /\ PoolOutlivesUsers'
  BY <1>1, <1>2, <1>3, <1>7
     DEF NothingCutOff, PoolOutlivesUsers, DrainCoversRequests, CloseInv, conf, userVars
<1> QED BY <1>3, <1>4, <1>5, <1>6, <1>8, <1>9, <1>10

\* The end of the drain: time is up only for requests that outlive their deadline
\* by more than their grace, and those are rolling back.
LEMMA DrainPreserves ==
    ASSUME IInv, Drained \/ ForceClose
    PROVE  IInv'
<1> USE DEF IInv
<1>1. /\ phase = "drain" /\ phase' = "stop"
      /\ UNCHANGED <<conf, registered, ctxDone, signals, listener, drained, pool, at, conns,
                     age, late, refused>>
      /\ \/ Running = {} /\ cut' = cut
         \/ drained >= limits.shutdown /\ cut' = Running
  BY DEF Drained, ForceClose, To, userVars
<1>2. /\ UserInv' /\ Running' = Running
      /\ limits' # Unset =>
           Free' >= 0 /\ age' \in [Requests -> 0 .. limits'.request + Grace]
  BY <1>1, UsersKept DEF conf
<1>3. Running \subseteq Requests
  BY DEF Running
<1>4. TypeOK'
  BY <1>1, <1>2, <1>3 DEF TypeOK, conf
<1>5. PhaseInv'
  BY <1>1 DEF PhaseInv, Starting, Leaving
<1>6. ConfigInv'
  BY <1>1 DEF ConfigInv, conf, Starting, Leaving
<1>7. QuietInv' /\ ClockInv' /\ CloseInv'
  BY <1>1, <1>2 DEF QuietInv, ClockInv, CloseInv, Starting, Leaving
<1>8. ASSUME limits # Unset, DrainCoversRequests
      PROVE  Running \subseteq cut' /\ cut' \subseteq late
  <2>1. limits \in Limits
    BY <1>8 DEF ConfigInv
  <2>2. \A r \in Running \ late : drained <= age[r] /\ age[r] \in 0 .. limits.request + Grace
    BY <1>1, <1>3, <1>8 DEF ClockInv, DrainCoversRequests, TypeOK
  <2>3. drained \in Nat /\ Grace \in Nat
    BY BoundsAssumption DEF TypeOK
  <2>4. drained >= limits.shutdown => Running \subseteq late
    BY <1>8, <2>1, <2>2, <2>3 DEF Limits, DrainCoversRequests
  <2>5. cut = {}
    BY <1>1 DEF CloseInv
  <2> QED BY <1>1, <2>4, <2>5
<1>9. NothingCutOff'
  BY <1>1, <1>2, <1>8 DEF NothingCutOff, DrainCoversRequests, conf
<1>10. PoolOutlivesUsers'
  BY <1>1 DEF PoolOutlivesUsers, CloseInv
<1> QED BY <1>2, <1>4, <1>5, <1>6, <1>7, <1>9, <1>10

\* The rest of run.
LEMMA ReturnPreserves ==
    ASSUME IInv, Stop \/ WaitForSweeper \/ PoolClosed
    PROVE  IInv'
<1> USE DEF IInv
<1>1. UNCHANGED <<conf, signals, listener, drained, userVars>>
  BY DEF Stop, WaitForSweeper, PoolClosed, To, ReturnFrom
<1>2. \/ /\ phase = "stop" /\ phase' = "wait"
         /\ registered' = FALSE /\ ctxDone' = TRUE /\ pool' = pool
      \/ /\ phase = "wait" /\ phase' = "close" /\ at[Sweeper] = "stopped"
         /\ UNCHANGED <<registered, ctxDone>> /\ pool' = "closing"
      \/ /\ phase = "close" /\ phase' = "exited" /\ \A u \in Users : conns[u] = 0
         /\ registered' = FALSE /\ ctxDone' = TRUE /\ pool' = "closed"
  BY DEF Stop, WaitForSweeper, PoolClosed, To, ReturnFrom
<1>3. /\ UserInv' /\ Running' = Running
      /\ limits' # Unset =>
           Free' >= 0 /\ age' \in [Requests -> 0 .. limits'.request + Grace]
  BY <1>1, UsersKept DEF conf, userVars
<1>4. TypeOK'
  BY <1>1, <1>2, <1>3 DEF TypeOK, conf, userVars
<1>5. PhaseInv'
  BY <1>1, <1>2 DEF PhaseInv, Starting, Leaving
<1>6. ConfigInv'
  BY <1>1, <1>2 DEF ConfigInv, conf, Starting, Leaving
<1>7. QuietInv' /\ ClockInv' /\ CloseInv'
  BY <1>1, <1>2, <1>3 DEF QuietInv, ClockInv, CloseInv, userVars, Starting, Leaving
<1>8. NothingCutOff'
  BY <1>1, <1>2, <1>3 DEF NothingCutOff, DrainCoversRequests, conf, userVars
<1>9. PoolOutlivesUsers'
  BY <1>1, <1>2 DEF PoolOutlivesUsers, userVars
<1> QED BY <1>3, <1>4, <1>5, <1>6, <1>7, <1>8, <1>9

\* A signal cancels the context, or kills a process that does not handle it: one
\* that is still being configured, or has stopped its server.
LEMMA SignalPreserves ==
    ASSUME IInv, Signal
    PROVE  IInv'
<1> USE DEF IInv
<1>1. /\ phase \notin {"exited", "killed"} /\ signals' = signals + 1 /\ signals < MaxSignals
      /\ UNCHANGED <<conf, registered, listener, drained, pool, userVars>>
      /\ \/ registered /\ ctxDone' = TRUE /\ phase' = phase
         \/ ~registered /\ ctxDone' = ctxDone /\ phase' = "killed"
  BY DEF Signal, Alive
<1>2. /\ UserInv' /\ Running' = Running
      /\ limits' # Unset =>
           Free' >= 0 /\ age' \in [Requests -> 0 .. limits'.request + Grace]
  BY <1>1, UsersKept DEF conf, userVars
<1>3. TypeOK'
  <2>1. signals' \in 0 .. MaxSignals
    BY <1>1, BoundsAssumption DEF TypeOK
  <2> QED BY <1>1, <1>2, <2>1 DEF TypeOK, conf, userVars
<1>4. PhaseInv'
  BY <1>1 DEF PhaseInv, Starting, Leaving
<1>5. ConfigInv'
  BY <1>1 DEF ConfigInv, conf, Starting, Leaving
<1>6. QuietInv' /\ ClockInv' /\ CloseInv'
  BY <1>1, <1>2 DEF QuietInv, ClockInv, CloseInv, conf, userVars, Starting, Leaving
<1>7. ~registered => phase \in {"load", "wait", "close"}
  BY <1>1 DEF PhaseInv, Starting, TypeOK
<1>8. NothingCutOff'
  BY <1>1, <1>2, <1>7
     DEF NothingCutOff, DrainCoversRequests, ConfigInv, Starting, conf, userVars
<1>9. PoolOutlivesUsers'
  BY <1>1 DEF PoolOutlivesUsers, userVars
<1> QED BY <1>2, <1>3, <1>4, <1>5, <1>6, <1>8, <1>9

-----------------------------------------------------------------------------
(* The users of the pool.                                                    *)

LEMMA UsersFinite ==
    /\ Sweeper \in Users /\ Requests \subseteq Users /\ Sweeper \notin Requests
    /\ \A u \in Users : u = Sweeper \/ u \in Requests
    /\ IsFiniteSet(Users)
<1>1. IsFiniteSet(Requests)
  BY RequestsAssumption
<1>2. IsFiniteSet(Requests \cup {Sweeper})
  BY <1>1, FS_AddElement
<1> QED BY <1>2, RequestsAssumption DEF Users

\* A connection is free unless it is held, if nobody holds two.
LEMMA ConnectionsHeld ==
    ASSUME NEW f, \A u \in Users : f[u] \in {0, 1}
    PROVE  /\ Cardinality({u \in Users : f[u] = 2}) = 0
           /\ IsFiniteSet({u \in Users : f[u] >= 1})
           /\ Cardinality({u \in Users : f[u] >= 1}) \in Nat
<1>1. {u \in Users : f[u] = 2} = {}
  OBVIOUS
<1>2. {u \in Users : f[u] >= 1} \subseteq Users
  OBVIOUS
<1>3. IsFiniteSet({u \in Users : f[u] >= 1})
  BY <1>2, UsersFinite, FS_Subset
<1> QED BY <1>1, <1>3, FS_EmptySet, FS_CardinalityType

\* A user takes a step of its own.
Moves(u, q) ==
    /\ Alive
    /\ at' = [at EXCEPT ![u] = q]
    /\ conns' = [conns EXCEPT ![u] = IF q \in Connected THEN 1 ELSE 0]
    /\ UNCHANGED <<mainVars, pool, age, cut, late>>

\* Where a step may start and end, and what it needs there.
MayMove(u, q) ==
    /\ at[u] \notin {"done", "stopped"}
    /\ u = Sweeper => at[u] # "none" /\ q \in {"idle", "waiting", "querying", "stopped"}
    /\ u \in Requests =>
         /\ q \in {"handling", "waiting", "querying", "nested", "rollback", "done"}
         /\ at[u] = "none" => listener \in {"up", "lost"}
    /\ q \in Connected => conns[u] = 1 \/ Free > 0
    /\ refused' = refused \/ (pool \in {"closing", "closed"} /\ refused' = refused \cup {u})

\* Whoever moves, the server has run.
LEMMA MovesWhileUp ==
    ASSUME IInv, NEW u \in Users, NEW q, Moves(u, q), MayMove(u, q)
    PROVE  /\ phase \in {"serve", "drain", "stop", "wait", "close"}
           /\ limits \in Limits
           /\ phase # "serve" /\ listener # "lost" => Running' \subseteq Running
           /\ listener \in {"none", "failed"} => u = Sweeper
<1> USE DEF IInv
<1>1. phase \in Starting \cup {"load"} => at[u] = "none" /\ listener = "none"
  BY DEF QuietInv, PhaseInv
<1>2. phase \in {"serve", "drain", "stop", "wait", "close"}
  BY <1>1, UsersFinite DEF Moves, MayMove, Alive, TypeOK, Starting
<1>3. limits \in Limits
  BY <1>2 DEF ConfigInv, Leaving
<1>4. listener \in {"none", "failed"} => u = Sweeper
  BY UsersFinite DEF QuietInv, MayMove
<1>5. ASSUME phase # "serve", listener # "lost" PROVE Running' \subseteq Running
  <2>1. listener # "up"
    BY <1>2, <1>5 DEF PhaseInv, Leaving
  <2>2. \A r \in Requests : at'[r] = IF r = u THEN q ELSE at[r]
    BY UsersFinite DEF Moves, TypeOK
  <2> QED BY <1>5, <2>1, <2>2 DEF Running, MayMove
<1> QED BY <1>2, <1>3, <1>4, <1>5

\* The users stay within the pool.
LEMMA MovesWithinPool ==
    ASSUME IInv, NEW u \in Users, NEW q, Moves(u, q), MayMove(u, q)
    PROVE  UserInv' /\ (limits' # Unset => Free' >= 0)
<1> USE DEF IInv
<1>1. limits \in Limits /\ limits' = limits
  BY MovesWhileUp DEF Moves, mainVars, conf
<1>2. /\ \A v \in Users : at'[v] = IF v = u THEN q ELSE at[v]
      /\ \A v \in Users \ {u} : conns'[v] = conns[v]
      /\ conns'[u] = IF q \in Connected THEN 1 ELSE 0
  BY DEF Moves, TypeOK
<1>3. /\ at'[Sweeper] \in {"none", "idle", "waiting", "querying", "stopped"}
      /\ \A r \in Requests :
           at'[r] \in {"none", "handling", "waiting", "querying", "nested", "rollback", "done"}
  BY <1>2, UsersFinite DEF UserInv, MayMove
<1>4. \A v \in Users : conns'[v] = IF at'[v] \in Connected THEN 1 ELSE 0
  BY <1>2 DEF UserInv
<1>5. /\ Free = limits.conns - Cardinality(Holding)
      /\ Cardinality(Holding) \in Nat /\ IsFiniteSet(Holding) /\ limits.conns \in Nat
  <2>1. \A v \in Users : conns[v] \in {0, 1}
    BY DEF UserInv
  <2>2. limits.conns \in Nat
    BY <1>1 DEF Limits
  <2>3. /\ Cardinality({v \in Users : conns[v] = 2}) = 0
        /\ IsFiniteSet({v \in Users : conns[v] >= 1})
        /\ Cardinality({v \in Users : conns[v] >= 1}) \in Nat
    BY <2>1, ConnectionsHeld
  <2> QED BY <2>2, <2>3 DEF Free, Holding
<1>6. limits # Unset => Cardinality(Holding) <= limits.conns
  BY DEF UserInv
<1>7. limits # Unset => Cardinality(Holding') <= limits.conns
  <2>1. CASE q \notin Connected
    <3>1. Holding' \subseteq Holding
      BY <1>2, <2>1 DEF Holding
    <3>2. Cardinality(Holding') <= Cardinality(Holding) /\ Cardinality(Holding') \in Nat
      BY <1>5, <3>1, FS_Subset, FS_CardinalityType
    <3> QED BY <1>5, <1>6, <3>2
  <2>2. CASE q \in Connected /\ conns[u] = 1
    <3>1. Holding' = Holding
      BY <1>2, <2>2 DEF Holding
    <3> QED BY <1>6, <3>1
  <2>3. CASE q \in Connected /\ Free > 0
    <3>1. Holding' = Holding \cup {u}
      BY <1>2, <2>3 DEF Holding
    <3>2. Cardinality(Holding') =
            IF u \in Holding THEN Cardinality(Holding) ELSE Cardinality(Holding) + 1
      BY <1>5, <3>1, FS_AddElement
    <3> QED BY <1>5, <2>3, <3>2
  <2> QED BY <2>1, <2>2, <2>3 DEF MayMove
<1>8. UserInv'
  BY <1>1, <1>3, <1>4, <1>7 DEF UserInv
<1>9. /\ Free' = limits'.conns - Cardinality(Holding')
      /\ Cardinality(Holding') \in Nat
  <2>1. \A v \in Users : conns'[v] \in {0, 1}
    BY <1>4
  <2>2. limits'.conns \in Nat
    BY <1>1, <1>5
  <2> QED BY <2>1, <2>2, ConnectionsHeld DEF Free, Holding
<1> QED BY <1>1, <1>5, <1>7, <1>8, <1>9

\* A step of a user keeps the invariant: time is up for no request, and a closed
\* pool turns away only what has been cut off.
LEMMA MovePreserves ==
    ASSUME IInv, NEW u \in Users, NEW q, Moves(u, q), MayMove(u, q)
    PROVE  IInv'
<1> USE DEF IInv
<1>1. /\ phase \in {"serve", "drain", "stop", "wait", "close"}
      /\ limits \in Limits
      /\ phase # "serve" /\ listener # "lost" => Running' \subseteq Running
      /\ listener \in {"none", "failed"} => u = Sweeper
  BY MovesWhileUp
<1>2. /\ UNCHANGED <<conf, phase, registered, ctxDone, signals, listener, drained, pool, age,
                     cut, late>>
      /\ \A v \in Users : at'[v] = IF v = u THEN q ELSE at[v]
  BY DEF Moves, mainVars, TypeOK
<1>3. UserInv' /\ (limits' # Unset => Free' >= 0)
  BY MovesWithinPool
<1>4. refused' \subseteq refused \cup {u}
  BY DEF MayMove
<1>5. TypeOK'
  <2>1. /\ at' \in [Users -> {"none", "idle", "handling", "waiting", "querying", "nested",
                              "rollback", "done", "stopped"}]
        /\ conns' \in [Users -> 0 .. 2]
    BY UsersFinite DEF TypeOK, Moves, MayMove
  <2> QED BY <1>2, <1>3, <1>4, <2>1 DEF TypeOK, conf
<1>6. PhaseInv'
  BY <1>2 DEF PhaseInv, Starting, Leaving
<1>7. ConfigInv'
  BY <1>2 DEF ConfigInv, conf, Starting, Leaving
<1>8. QuietInv'
  BY <1>1, <1>2, UsersFinite DEF QuietInv, Starting
<1>9. ClockInv'
  <2>1. phase = "drain" => Running' \subseteq Running
    BY <1>1 DEF PhaseInv
  <2> QED BY <1>2, <2>1 DEF ClockInv, conf, Starting
<1>10. /\ phase # "close" => refused' = refused
       /\ Sweeper \notin refused'
       /\ listener # "lost" => refused' \subseteq cut
  <2>1. pool \in {"closing", "closed"} => phase = "close"
    BY <1>1 DEF PhaseInv
  <2>2. Sweeper \notin refused /\ (listener # "lost" => refused \subseteq cut)
    BY DEF PoolOutlivesUsers
  <2>3. ASSUME pool \in {"closing", "closed"}
        PROVE  u # Sweeper /\ (listener # "lost" => u \in cut)
    <3>1. phase = "close" /\ at[Sweeper] = "stopped"
      BY <2>1, <2>3 DEF CloseInv
    <3>2. u \in Requests /\ at[u] # "done" /\ (listener # "lost" => at[u] # "none")
      BY <3>1, UsersFinite DEF MayMove, PhaseInv, Leaving
    <3> QED BY <3>1, <3>2, UsersFinite DEF CloseInv, Leaving, Running
  <2> QED BY <2>1, <2>2, <2>3 DEF MayMove
<1>11. CloseInv'
  <2>1. phase = "close" => u # Sweeper
    BY DEF CloseInv, MayMove
  <2> QED BY <1>1, <1>2, <1>10, <2>1, UsersFinite DEF CloseInv, Starting, Leaving
<1>12. NothingCutOff'
  BY <1>1, <1>2 DEF NothingCutOff, DrainCoversRequests, conf
<1>13. PoolOutlivesUsers'
  BY <1>1, <1>2, <1>10 DEF PoolOutlivesUsers
<1> QED BY <1>3, <1>5, <1>6, <1>7, <1>8, <1>9, <1>11, <1>12, <1>13

\* Every step of a request is such a step,
LEMMA RequestPreserves ==
    ASSUME IInv, NEW r \in Requests, Request(r)
    PROVE  IInv'
<1>1. r \in Users /\ r # Sweeper
  BY UsersFinite
<1>2. TypeOK /\ conns[r] = IF at[r] \in Connected THEN 1 ELSE 0
  BY <1>1 DEF IInv, UserInv
<1>3. \E q : Moves(r, q) /\ MayMove(r, q)
  <2> USE <1>1, <1>2
  <2>1. CASE Arrive(r)
    BY <2>1 DEF Arrive, Go, Moves, MayMove, TypeOK
  <2>2. CASE Ask(r)
    BY <2>2 DEF Ask, Go, Moves, MayMove, TypeOK
  <2>3. CASE Granted(r)
    <3>1. /\ Alive /\ at[r] = "waiting" /\ Free > 0
          /\ at' = [at EXCEPT ![r] = "querying"]
          /\ conns' = [conns EXCEPT ![r] = conns[r] + 1]
          /\ UNCHANGED <<mainVars, pool, age, cut, late, refused>>
      BY <2>3 DEF Granted, Go
    <3>2. conns[r] = 0 /\ conns[r] + 1 = 1
      BY <3>1
    <3>3. Moves(r, "querying") /\ MayMove(r, "querying")
      BY <3>1, <3>2 DEF Moves, MayMove
    <3> QED BY <3>3
  <2>4. CASE Refused(r)
    BY <2>4 DEF Refused, Go, Moves, MayMove, TypeOK
  <2>5. CASE JoinTx(r)
    BY <2>5 DEF JoinTx, Go, Moves, MayMove, TypeOK
  <2>6. CASE Release(r)
    BY <2>6 DEF Release, Releases, Go, Moves, MayMove, TypeOK
  <2>7. CASE GiveUp(r)
    BY <2>7 DEF GiveUp, Go, Moves, MayMove, TypeOK
  <2>8. CASE Respond(r)
    BY <2>8 DEF Respond, Go, Moves, MayMove, TypeOK
  <2>9. CASE RollBack(r)
    BY <2>9 DEF RollBack, Go, Moves, MayMove, TypeOK
  <2>10. CASE RolledBack(r)
    BY <2>10 DEF RolledBack, Releases, Go, Moves, MayMove, TypeOK
  <2> QED BY <2>1, <2>2, <2>3, <2>4, <2>5, <2>6, <2>7, <2>8, <2>9, <2>10 DEF Request
<1> QED BY <1>1, <1>3, MovePreserves

\* and so is every step of the sweeper.
LEMMA SweepPreserves ==
    ASSUME IInv, Sweep
    PROVE  IInv'
<1>1. Sweeper \in Users /\ Sweeper \notin Requests
  BY UsersFinite
<1>2. TypeOK /\ conns[Sweeper] = IF at[Sweeper] \in Connected THEN 1 ELSE 0
  BY <1>1 DEF IInv, UserInv
<1>3. \E q : Moves(Sweeper, q) /\ MayMove(Sweeper, q)
  <2> USE <1>1, <1>2
  <2>1. CASE StartSweep
    BY <2>1 DEF StartSweep, Go, Moves, MayMove, TypeOK
  <2>2. CASE Granted(Sweeper)
    <3>1. /\ Alive /\ at[Sweeper] = "waiting" /\ Free > 0
          /\ at' = [at EXCEPT ![Sweeper] = "querying"]
          /\ conns' = [conns EXCEPT ![Sweeper] = conns[Sweeper] + 1]
          /\ UNCHANGED <<mainVars, pool, age, cut, late, refused>>
      BY <2>2 DEF Granted, Go
    <3>2. conns[Sweeper] = 0 /\ conns[Sweeper] + 1 = 1
      BY <3>1
    <3>3. Moves(Sweeper, "querying") /\ MayMove(Sweeper, "querying")
      BY <3>1, <3>2 DEF Moves, MayMove
    <3> QED BY <3>3
  <2>3. CASE Refused(Sweeper)
    BY <2>3 DEF Refused, Go, Moves, MayMove, TypeOK
  <2>4. CASE EndSweep
    BY <2>4 DEF EndSweep, Go, Moves, MayMove, TypeOK
  <2>5. CASE StopSweeping
    BY <2>5 DEF StopSweeping, Go, Moves, MayMove, TypeOK
  <2> QED BY <2>1, <2>2, <2>3, <2>4, <2>5 DEF Sweep
<1> QED BY <1>1, <1>3, MovePreserves

\* Time passes only as long as every handler that is not rolling back can still be
\* within its grace, and for the drain as fast as for the requests.
LEMMA TickPreserves ==
    ASSUME IInv, Tick
    PROVE  IInv'
<1> USE DEF IInv
<1>1. /\ phase \notin {"exited", "killed"}
      /\ UNCHANGED <<conf, phase, registered, ctxDone, signals, listener, pool, at, conns, cut,
                     refused>>
      /\ late' = late \cup {r \in Running : Overrun(r)}
      /\ age' = [r \in Requests |-> IF r \in Running \ late' /\ limits.request > 0
                                    THEN age[r] + Second ELSE age[r]]
      /\ \/ phase = "drain" /\ drained' = drained + Second
         \/ drained' = drained
  BY DEF Tick, Alive
<1>2. phase \in {"serve", "drain", "stop", "wait", "close"}
  <2>1. Running # {} \/ phase = "drain"
    BY DEF Tick
  <2>2. phase \notin Starting \cup {"load"}
    BY <2>1, UsersFinite DEF QuietInv, Running, Starting
  <2> QED BY <1>1, <2>2 DEF TypeOK, Starting
<1>3. limits \in Limits /\ limits' = limits
  BY <1>1, <1>2 DEF ConfigInv, Leaving, conf
<1>4. Running \subseteq Requests /\ Running' = Running /\ Holding' = Holding /\ Free' = Free
  BY <1>1, <1>3 DEF Running, Holding, Free
<1>5. Second \in Nat \ {0} /\ Grace \in Nat \ {0} /\ limits.request \in Nat
  BY <1>3, BoundsAssumption DEF Limits
<1>6. ASSUME limits # Unset PROVE age' \in [Requests -> 0 .. limits.request + Grace]
  <2>1. \A r \in Requests : age[r] \in 0 .. limits.request + Grace
    BY <1>6 DEF TypeOK
  <2>2. \A r \in Running \ late' : limits.request > 0 => age[r] + Second <= limits.request + Grace
    BY <1>1, <1>5, <2>1, <1>4 DEF Overrun
  <2>3. \A r \in Requests : age'[r] \in 0 .. limits.request + Grace
    BY <1>1, <1>5, <2>1, <2>2
  <2> QED BY <1>1, <2>3
<1>7. UserInv'
  BY <1>1, <1>4, <1>3 DEF UserInv
<1>8. TypeOK'
  <2>1. drained' \in Nat
    BY <1>1, <1>5 DEF TypeOK
  <2> QED BY <1>1, <1>3, <1>4, <1>6, <2>1 DEF TypeOK, conf
<1>9. PhaseInv'
  BY <1>1 DEF PhaseInv, Starting, Leaving
<1>10. ConfigInv'
  BY <1>1 DEF ConfigInv, conf, Starting, Leaving
<1>11. QuietInv'
  BY <1>1, <1>2 DEF QuietInv, Starting
<1>12. ClockInv'
  <2>1. ASSUME phase = "drain", limits # Unset, limits.request > 0, NEW r \in Running \ late'
        PROVE  drained' <= age'[r]
    <3>1. drained <= age[r] /\ age'[r] = age[r] + Second
      BY <1>1, <1>4, <2>1 DEF ClockInv
    <3>2. drained \in Nat /\ age[r] \in Nat
      BY <1>4, <1>5, <2>1 DEF TypeOK
    <3> QED BY <1>1, <1>5, <3>1, <3>2
  <2> QED BY <1>1, <1>2, <1>3, <1>4, <2>1 DEF ClockInv, Starting
<1>13. CloseInv'
  BY <1>1, <1>4 DEF CloseInv, Starting, Leaving
<1>14. NothingCutOff'
  BY <1>1, <1>3, <1>4 DEF NothingCutOff, DrainCoversRequests
<1>15. PoolOutlivesUsers'
  BY <1>1 DEF PoolOutlivesUsers
<1> QED BY <1>7, <1>8, <1>9, <1>10, <1>11, <1>12, <1>13, <1>14, <1>15

-----------------------------------------------------------------------------
(* The theorems.                                                             *)

LEMMA InitInv == Init => IInv
<1> SUFFICES ASSUME Init PROVE IInv
  OBVIOUS
<1> USE DEF Init
<1>1. /\ \A u \in Users : at[u] = "none" /\ conns[u] = 0
      /\ at \in [Users -> {"none", "idle", "handling", "waiting", "querying", "nested",
                           "rollback", "done", "stopped"}]
      /\ conns \in [Users -> 0 .. 2]
      /\ Running = {}
  BY UsersFinite DEF Running
<1>2. TypeOK
  <2>1. 0 \in 0 .. MaxSignals
    BY BoundsAssumption
  <2>2. cfg = Unset /\ limits = Unset /\ environ \in Environment
    OBVIOUS
  <2> QED BY <1>1, <2>1, <2>2 DEF TypeOK
<1>3. PhaseInv /\ ConfigInv
  BY DEF PhaseInv, ConfigInv, Starting, Leaving
<1>4. UserInv
  BY <1>1, UsersFinite DEF UserInv
<1>5. QuietInv /\ ClockInv /\ CloseInv
  BY <1>1, UsersFinite DEF QuietInv, ClockInv, CloseInv, Starting, Leaving
<1>6. NothingCutOff /\ PoolOutlivesUsers
  BY DEF NothingCutOff, PoolOutlivesUsers
<1> QED BY <1>2, <1>3, <1>4, <1>5, <1>6 DEF IInv

LEMMA NextInv == IInv /\ [Next]_vars => IInv'
<1> SUFFICES ASSUME IInv, [Next]_vars PROVE IInv'
  OBVIOUS
<1>1. ASSUME Main PROVE IInv'
  BY <1>1, LoadPreserves, StartPreserves, WirePreserves, ServePreserves, RunPreserves,
     DrainPreserves, ReturnPreserves DEF Main
<1>2. ASSUME UNCHANGED vars PROVE IInv'
  <2>1. /\ UNCHANGED <<conf, phase, registered, ctxDone, signals, listener, drained, pool, at,
                       conns, age, cut, late, refused>>
        /\ Free' = Free /\ Running' = Running /\ Holding' = Holding
    BY <1>2 DEF vars, mainVars, userVars, conf, Free, Running, Holding
  <2>2. TypeOK' /\ PhaseInv' /\ ConfigInv' /\ UserInv'
    BY <2>1 DEF IInv, TypeOK, PhaseInv, ConfigInv, UserInv, conf
  <2>3. QuietInv' /\ ClockInv' /\ CloseInv' /\ NothingCutOff' /\ PoolOutlivesUsers'
    BY <2>1 DEF IInv, QuietInv, ClockInv, CloseInv, NothingCutOff, DrainCoversRequests,
                PoolOutlivesUsers, conf
  <2> QED BY <2>2, <2>3 DEF IInv
<1> QED BY <1>1, <1>2, SweepPreserves, TickPreserves, SignalPreserves, RequestPreserves DEF Next

\* Whatever the environment, the requests, the signals and the database do.
THEOREM Invariance == Spec => []IInv
BY InitInv, NextInv, PTL DEF Spec

\* Every variable has its type: the sizes of the pool that are read with int32
\* fit, and no more connections are handed out than the pool has.
THEOREM TypeCorrect == Spec => []TypeOK
BY Invariance, PTL DEF IInv

\* In production, what NewContainer wires verifies callbacks with the operator's
\* secret, cannot simulate one, holds no demo data and answers only the origins
\* listed (the rules of Load, and WithSecret's place after them).
THEOREM HardenedInProduction == Spec => []ProductionIsHardened
<1>1. IInv => ProductionIsHardened
  <2> SUFFICES ASSUME IInv, phase = "ready" PROVE ProductionIsHardened
    BY DEF ProductionIsHardened
  <2>1. /\ environ \in Environment /\ cfg = Load(environ).cfg /\ Load(environ).problems = {}
        /\ parts = Wired(cfg)
    BY DEF IInv, ConfigInv, Starting
  <2> QED BY <2>1, Read, AcceptedIsSound DEF ProductionIsHardened
<1> QED BY Invariance, <1>1, PTL

\* Whatever Load accepts can be run: the pool has room, the ticker has an interval
\* and a hold does not outlast the payment window.
THEOREM AcceptedCanRun == Spec => []PartsCanRun
<1>1. IInv => PartsCanRun
  <2> SUFFICES ASSUME IInv, phase = "ready" PROVE PartsCanRun
    BY DEF PartsCanRun
  <2>1. /\ environ \in Environment /\ cfg = Load(environ).cfg /\ Load(environ).problems = {}
        /\ parts = Wired(cfg) /\ limits = LimitsOf(cfg)
    BY DEF IInv, ConfigInv, Starting
  <2>2. /\ PoolOf(cfg).maxConns > 0
        /\ PoolOf(cfg).minConns \in 0 .. PoolOf(cfg).maxConns
        /\ Wired(cfg).ticker > 0 /\ Wired(cfg).hold \in 1 .. Wired(cfg).window
    BY <2>1, Read, AcceptedIsSound
  <2> QED BY <2>1, <2>2 DEF PartsCanRun, LimitsOf
<1> QED BY Invariance, <1>1, PTL

\* Shutdown waits long enough for every request that has a deadline and whose
\* rollback, if it needs one, is answered by then, and none of those is left when Run
\* returns (server.go:41), unless it returns because its listener was lost.
THEOREM DeploysCutNothing == Spec => []NothingCutOff
BY Invariance, PTL DEF IInv

\* The pool is closed when the sweeper has stopped and no request needs it any more
\* that was not cut off, a lost listener excepted, and run never returns without
\* having closed it.
THEOREM PoolClosedLast == Spec => []PoolOutlivesUsers
BY Invariance, PTL DEF IInv

\* When no connection is free, somebody who is not waiting for one has one.
THEOREM PoolMovesOn == Spec => []PoolNotWedged
<1>1. IInv => PoolNotWedged
  <2> SUFFICES ASSUME IInv, limits # Unset, Free = 0
               PROVE  \E u \in Users : conns[u] > 0 /\ at[u] # "waiting"
    BY DEF PoolNotWedged
  <2>1. limits.conns \in Nat \ {0}
    BY DEF IInv, ConfigInv, Limits
  <2>2. \A u \in Users : conns[u] = IF at[u] \in Connected THEN 1 ELSE 0
    BY DEF IInv, UserInv
  <2>3. Holding # {}
    <3> SUFFICES ASSUME Holding = {} PROVE FALSE
      OBVIOUS
    <3>1. Cardinality({u \in Users : conns[u] = 2}) = 0
      BY <2>2, ConnectionsHeld
    <3>2. Cardinality({u \in Users : conns[u] >= 1}) = 0
      BY FS_EmptySet DEF Holding
    <3> QED BY <2>1, <3>1, <3>2 DEF Free
  <2>4. PICK u \in Users : conns[u] >= 1
    BY <2>3 DEF Holding
  <2> QED BY <2>2, <2>4
<1> QED BY Invariance, <1>1, PTL
=============================================================================
