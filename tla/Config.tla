------------------------------- MODULE Config -------------------------------
(***************************************************************************)
(* What the process makes of its environment: config.Load, and what the     *)
(* parts wired by NewContainer make of the configuration.  Durations are in *)
(* seconds.  Variables that are only parsed and handed on are left out.     *)
(***************************************************************************)
EXTENDS Integers, Sequences

CONSTANTS
    Unset, \* the variable is not set, or empty
    Bad,   \* it is set to something its parser refuses
    Width  \* bits of the pool's integers (32 in the program)

ASSUME WidthAssumption == Width \in 8 .. 32

\* What an operator may set.
Settings == [
    APP_ENV                : {Unset, "production", "staging"},
    HTTP_REQUEST_TIMEOUT   : {Unset, 0},
    HTTP_SHUTDOWN_TIMEOUT  : {Unset, 0},
    DB_MAX_CONNS           : {Unset, 0, 2 ^ Width + 2},
    DB_MIN_CONNS           : {Unset, -1, 30},
    DB_CONNECT_TIMEOUT     : {Unset, 0},
    HOLD_TTL               : {Unset, Bad, 30, 1200},
    HOLD_SWEEP_INTERVAL    : {Unset, 0},
    PAYMENT_WINDOW         : {Unset, 120, 1800},
    PAYMENT_PROVIDER       : {Unset, "other"},
    PAYMENT_WEBHOOK_SECRET : {Unset, "own"},
    PAYMENT_TEST_ENDPOINTS : {Unset, TRUE},
    SEED_DEMO_DATA         : {Unset, TRUE},
    CORS_ORIGINS           : {Unset, <<"*">>, <<"", "">>, <<"*", "site">>}]

Timeouts == {"HTTP_REQUEST_TIMEOUT", "HTTP_SHUTDOWN_TIMEOUT"}

\* Load compares the timeouts with nothing, so they are set only where nothing
\* else is, but for the size of the pool.
Environment ==
    {e \in Settings : \/ \A k \in Timeouts : e[k] = Unset
                     \/ \A k \in DOMAIN e \ Timeouts : k = "DB_MAX_CONNS" \/ e[k] = Unset}

-----------------------------------------------------------------------------
(* config.Load                                                               *)

\* getEnv, getDuration, getInt, getBool: what cannot be parsed is reported and
\* replaced by the default.
Get(e, key, default) == IF e[key] \in {Unset, Bad} THEN default ELSE e[key]

\* getList
Origins(e) ==
    LET named == SelectSeq(Get(e, "CORS_ORIGINS", << >>), LAMBDA o : o # "")
    IN  IF named = << >> THEN <<"*">> ELSE named

Int32(n) == ((n + 2 ^ (Width - 1)) % 2 ^ Width) - 2 ^ (Width - 1)

Env(e) == Get(e, "APP_ENV", "development")

Parsed(e) == [
    env            |-> Env(e),
    requestTimeout |-> Get(e, "HTTP_REQUEST_TIMEOUT", 8),
    shutdownAfter  |-> Get(e, "HTTP_SHUTDOWN_TIMEOUT", 15),
    maxConns       |-> Int32(Get(e, "DB_MAX_CONNS", 20)),
    minConns       |-> Int32(Get(e, "DB_MIN_CONNS", 2)),
    connectTimeout |-> Get(e, "DB_CONNECT_TIMEOUT", 10),
    holdTTL        |-> Get(e, "HOLD_TTL", 300),
    sweepInterval  |-> Get(e, "HOLD_SWEEP_INTERVAL", 30),
    paymentWindow  |-> Get(e, "PAYMENT_WINDOW", 600),
    provider       |-> Get(e, "PAYMENT_PROVIDER", "mock"),
    webhookSecret  |-> Get(e, "PAYMENT_WEBHOOK_SECRET", ""),
    testEndpoints  |-> Get(e, "PAYMENT_TEST_ENDPOINTS", Env(e) = "development"),
    seedDemoData   |-> Get(e, "SEED_DEMO_DATA", Env(e) = "development"),
    corsOrigins    |-> Origins(e)]

\* What must not be on, or missing, in production.
ProductionProblems(c) ==
    IF c.env # "production" THEN {}
    ELSE {k \in {"PAYMENT_WEBHOOK_SECRET"} : c.webhookSecret = ""}
         \cup {k \in {"PAYMENT_TEST_ENDPOINTS"} : c.testEndpoints}
         \cup {k \in {"SEED_DEMO_DATA"} : c.seedDemoData}
         \cup {k \in {"CORS_ORIGINS"} : c.corsOrigins = <<"*">>}

RuleProblems(c) ==
    {k \in {"APP_ENV"} : c.env \notin {"development", "production"}}
    \cup {k \in {"DB_MIN_CONNS"} : c.minConns > c.maxConns}
    \cup {k \in {"HOLD_TTL"} : c.holdTTL < 60}
    \cup {k \in {"PAYMENT_WINDOW"} : c.paymentWindow < c.holdTTL}
    \cup {k \in {"PAYMENT_PROVIDER"} : c.provider # "mock"}
    \cup ProductionProblems(c)

Unparsed(e) == {k \in DOMAIN e : e[k] = Bad}

\* Everything that is wrong, in one report.
Problems(e, c) == Unparsed(e) \cup RuleProblems(c)

WithSecret(c) ==
    IF c.webhookSecret = "" THEN [c EXCEPT !.webhookSecret = "dev-webhook-secret"] ELSE c

SecretFirst(e) == LET c == WithSecret(Parsed(e)) IN [cfg |-> c, problems |-> Problems(e, c)]

\* The configuration, and what is wrong with it: production is refused before
\* the secret of development is filled in.
Load(e) == LET c == Parsed(e) IN [cfg |-> WithSecret(c), problems |-> Problems(e, c)]

-----------------------------------------------------------------------------
(* NewContainer                                                              *)

\* The driver's own pool size.
DriverMaxConns == 4

OrDefault(n, default) == IF n > 0 THEN n ELSE default

TakenLiterally(c) == [maxConns |-> c.maxConns, minConns |-> c.minConns]

\* Connect: the sizes of the pool.
PoolOf(c) ==
    [maxConns |-> OrDefault(c.maxConns, DriverMaxConns),
     minConns |-> OrDefault(c.minConns, 0)]

\* What NewBooking, NewPayment, NewHoldExpirer, the provider, CORS and NewRouter
\* are given and make of it.
Wired(c) ==
    [hold      |-> OrDefault(c.holdTTL, 300),
     window    |-> OrDefault(c.paymentWindow, 600),
     ticker    |-> OrDefault(c.sweepInterval, 30),
     secret    |-> c.webhookSecret,
     seed      |-> c.seedDemoData,
     simulate  |-> c.testEndpoints,
     anyOrigin |-> c.corsOrigins = <<"*">>]
=============================================================================
