-------------------------- MODULE RequestPipeline --------------------------
(***************************************************************************)
(* One HTTP request on its way through the middleware chain, the mux, a     *)
(* handler and its use case calls, and back.  Requests share nothing here   *)
(* (the buckets they do share are RateLimiter), so one is enough.  A layer  *)
(* sees the request going in, the answer coming out, or a panic passing.    *)
(***************************************************************************)
EXTENDS Integers, Sequences

CONSTANTS
    None,
    TestEndpoints, \* PAYMENT_TEST_ENDPOINTS, with the mock gateway (there is no other)
    StaticDir,     \* STATIC_DIR is set
    HasTimeout     \* HTTP_REQUEST_TIMEOUT is positive

ASSUME SwitchAssumption == {TestEndpoints, StaticDir, HasTimeout} \subseteq BOOLEAN

LayersSwapped == <<"RequestID", "Recover", "AccessLog", "SecurityHeaders", "CORS", "Metrics",
                   "RateLimit", "MaxBody", "Timeout", "Identify">>

\* NewRouter's chain, outermost first.
Layers == <<"RequestID", "Recover", "AccessLog", "Metrics", "SecurityHeaders", "CORS",
            "RateLimit", "MaxBody", "Timeout", "Identify">>

Inside == Len(Layers) + 1
LayerOf(name) == CHOOSE i \in DOMAIN Layers : Layers[i] = name

\* What a handler is made of: does it need a caller, what it reads, whether a
\* header or query parameter is checked, its calls, and its answers once they have
\* succeeded.  The two lists of showtimes are one.
Endpoint(auth, body, params, calls, answers) ==
    [auth |-> auth, body |-> body, params |-> params, calls |-> calls, answers |-> answers]

\* http.FileServer: a file, a part of it, a redirect to its directory, or what a
\* condition, a range, a missing or a forbidden file makes of it.
FileAnswers == {200, 206, 301, 304, 403, 404, 412, 416, 500}

Handler == [
    movies    |-> Endpoint(FALSE, "none", FALSE, <<"ListMovies">>, {200}),
    movie     |-> Endpoint(FALSE, "none", FALSE, <<"GetMovie">>, {200}),
    showtimes |-> Endpoint(FALSE, "none", FALSE, <<"ListShowtimes">>, {200}),
    seats     |-> Endpoint(FALSE, "none", FALSE, <<"SeatMap">>, {200}),
    create    |-> Endpoint(TRUE,  "json", TRUE,  <<"HoldSeats">>, {201}),
    list      |-> Endpoint(TRUE,  "none", TRUE,  <<"ListForUser">>, {200}),
    booking   |-> Endpoint(TRUE,  "none", FALSE, <<"Get">>, {200}),
    cancel    |-> Endpoint(TRUE,  "none", FALSE, <<"CancelBooking">>, {200}),
    checkout  |-> Endpoint(TRUE,  "none", FALSE, <<"StartCheckout">>, {201}),
    payment   |-> Endpoint(TRUE,  "none", FALSE, <<"GetPayment">>, {200}),
    webhook   |-> Endpoint(FALSE, "raw",  FALSE, <<"HandleWebhook">>, {200}),
    simulate  |-> Endpoint(TRUE,  "json", FALSE,
                           <<"GetPayment", "BuildEvent", "HandleWebhook", "GetPayment">>, {200}),
    healthz   |-> Endpoint(FALSE, "none", FALSE, << >>, {200}),
    metrics   |-> Endpoint(FALSE, "none", FALSE, << >>, {200, 500}),
    readyz    |-> Endpoint(FALSE, "none", FALSE, <<"Ping">>, {200}),
    static    |-> Endpoint(FALSE, "none", FALSE, << >>, FileAnswers)]

\* The routes the mux knows.
Routes == DOMAIN Handler \ ((IF TestEndpoints THEN {} ELSE {"simulate"})
                            \cup (IF StaticDir THEN {} ELSE {"static"}))

\* Errors a use case call may return, by the sentinel they wrap.
Errors == [
    ListMovies    |-> {"other"},
    GetMovie      |-> {"validation", "notFound", "other"},
    ListShowtimes |-> {"notFound", "other"},
    SeatMap       |-> {"notFound", "other"},
    HoldSeats     |-> {"validation", "notFound", "seatUnavailable", "state", "other"},
    ListForUser   |-> {"validation", "other"},
    Get           |-> {"notFound", "other"},
    CancelBooking |-> {"notFound", "state", "provider", "other"},
    StartCheckout |-> {"validation", "notFound", "state", "expired", "inProgress", "provider", "other"},
    GetPayment    |-> {"notFound", "other"},
    BuildEvent    |-> {"other"},
    HandleWebhook |-> {"unverified", "validation", "notFound", "state", "other"},
    Ping          |-> {"down"}]

\* Calls that run a transaction of their own (WithTx).
Transactional == {"HoldSeats", "CancelBooking", "HandleWebhook"}

\* What a call that is cut short by its context returns: the gateway's error
\* is wrapped, the probe has its own answer, anything else is unexpected.
CutShort(call) ==
    (IF call = "Ping" THEN {"down"} ELSE {"other"})
    \cup (Errors[call] \cap {"provider"})

\* writeDomainError, also for ErrUnauthorized, which no call returns; "down" is the
\* readiness probe's own answer.
StatusOf == [
    validation |-> 400, notFound |-> 404, seatUnavailable |-> 409, inProgress |-> 409,
    expired |-> 410, state |-> 409, unauthorized |-> 403, unverified |-> 401,
    provider |-> 502, other |-> 500, down |-> 503]

\* Every status the chain, the mux and the handlers answer with.
Statuses == {200, 201, 204, 206, 301, 304, 307, 400, 401, 403, 404, 405, 409, 410, 412, 413,
             415, 416, 429, 500, 502, 503}

ASSUME NoneAssumption == None \notin Statuses

Request == [method : {"OPTIONS", "right", "wrong"},
            route  : DOMAIN Handler \cup {"unknown"},
            id     : {"none", "given", "long"},
            user   : {"none", "given", "long"},
            body   : {"none", "good", "media", "big", "bad"},
            params : {"good", "bad"}]

VARIABLES
    req,     \* the request
    at, dir, \* the layer it is at, and which way it goes
    stage,   \* inside the handler
    ctx,     \* values and deadline of the request's context
    results, \* of the calls made so far
    wire,    \* status the client was sent
    rec,     \* status recorders, None until WriteHeader
    logged, counted, \* status in the access log and in http_requests_total
    lines    \* request ids of the log lines written

answerVars == <<wire, rec>>
reportVars == <<logged, counted, lines>>
vars == <<req, at, dir, stage, ctx, results, answerVars, reportVars>>

-----------------------------------------------------------------------------
(* Writing an answer.                                                        *)

Recorders == {"AccessLog", "Metrics"}

KeepFirst(x, s) == IF x = None THEN s ELSE x

\* WriteHeader as it reaches the client through the recorders of the layers
\* around layer i; the first status counts everywhere.
WriteHeader(i, s) ==
    /\ wire' = KeepFirst(wire, s)
    /\ rec' = [l \in Recorders |-> IF LayerOf(l) < i THEN KeepFirst(rec[l], s) ELSE rec[l]]

\* Layer i answers by itself and lets nobody further in see the request.
TurnBack(i, s) ==
    /\ WriteHeader(i, s)
    /\ dir' = "out" /\ at' = i - 1

\* The id a layer's context carries.
IdAt(i) == IF i > LayerOf("RequestID") THEN ctx.id ELSE "none"

LogLine(i) == lines' = lines \cup {IdAt(i)}

-----------------------------------------------------------------------------
(* The layers, going in.                                                     *)

Entering(name) == dir = "in" /\ at \in DOMAIN Layers /\ Layers[at] = name

GoIn == at' = at + 1 /\ UNCHANGED dir

\* An inbound id of reasonable length is kept and echoed.
RequestID ==
    /\ Entering("RequestID")
    /\ ctx' = [ctx EXCEPT !.id = IF req.id = "given" THEN "given" ELSE "new"]
    /\ GoIn
    /\ UNCHANGED <<req, stage, results, answerVars, reportVars>>

\* A preflight is answered here.
CORS ==
    /\ Entering("CORS")
    /\ IF req.method = "OPTIONS" THEN TurnBack(at, 204) ELSE GoIn /\ UNCHANGED answerVars
    /\ UNCHANGED <<req, stage, ctx, results, reportVars>>

\* RateLimiter says which; here both can happen.
RateLimit ==
    /\ Entering("RateLimit")
    /\ TurnBack(at, 429) \/ (GoIn /\ UNCHANGED answerVars)
    /\ UNCHANGED <<req, stage, ctx, results, reportVars>>

NoDeadline ==
    /\ Entering("Timeout")
    /\ GoIn
    /\ UNCHANGED <<req, stage, ctx, results, answerVars, reportVars>>

Timeout ==
    /\ Entering("Timeout")
    /\ ctx' = [ctx EXCEPT !.deadline = HasTimeout]
    /\ GoIn
    /\ UNCHANGED <<req, stage, results, answerVars, reportVars>>

Identify ==
    /\ Entering("Identify")
    /\ IF req.user = "long"
       THEN TurnBack(at, 400) /\ UNCHANGED ctx
       ELSE GoIn /\ ctx' = [ctx EXCEPT !.user = req.user] /\ UNCHANGED answerVars
    /\ UNCHANGED <<req, stage, results, reportVars>>

\* Layers that only wrap the writer, the body or the headers, or look at what
\* comes out.
PassIn ==
    /\ \E name \in {"Recover", "AccessLog", "Metrics", "SecurityHeaders", "MaxBody"} : Entering(name)
    /\ GoIn
    /\ UNCHANGED <<req, stage, ctx, results, answerVars, reportVars>>

-----------------------------------------------------------------------------
(* The mux and the handler.                                                  *)

Handling(s) == dir = "in" /\ at = Inside /\ stage = s

Answer(s) == TurnBack(Inside, s) /\ UNCHANGED <<req, stage, ctx, results, reportVars>>

Step(s) == stage' = s /\ UNCHANGED <<req, at, dir, ctx, results, answerVars, reportVars>>

NoUserNeeded == FALSE

\* RequireUser, around the routes that are somebody's own.
UserMissing == Handler[req.route].auth /\ ctx.user = "none"

Routed == req.route \in Routes /\ req.method = "right"

\* The mux's own answers.  The static files claim every path, but only for GET; a
\* path that is not clean is redirected, and "*" is none.
Unrouted == (IF req.route \in Routes THEN {405} ELSE {404, 307, 400})
            \cup (IF StaticDir THEN {404, 405} ELSE {})

\* The mux picks the handler by path and method.
Mux ==
    /\ Handling("mux")
    /\ \/ ~Routed /\ \E s \in Unrouted : Answer(s)
       \/ Routed /\ UserMissing /\ Answer(401)
       \/ Routed /\ ~UserMissing /\ Step("read")

Faults == [media |-> 415, big |-> 413, bad |-> 400, none |-> 400]

\* decodeJSON; the webhook takes any body it can read, and a simulation none.
ReadBody ==
    /\ Handling("read")
    /\ LET wants == Handler[req.route].body IN
         \/ /\ wants = "json" /\ req.body \in DOMAIN Faults
            /\ ~(req.route = "simulate" /\ req.body = "none")
            /\ Answer(Faults[req.body])
         \/ wants = "raw" /\ req.body = "big" /\ Answer(400)
         \/ /\ \/ wants = "none" \/ req.body = "good"
               \/ wants = "raw" /\ req.body # "big"
               \/ req.route = "simulate" /\ req.body = "none"
            /\ Step("params")

\* The length of the idempotency key; the limit of a list.
CheckParams ==
    /\ Handling("params")
    /\ IF Handler[req.route].params /\ req.params = "bad" THEN Answer(400) ELSE Step("call")

Calls == Handler[req.route].calls

Returned(result) == results' = Append(results, result)

IgnoreError(e) ==
    /\ Returned(e)
    /\ UNCHANGED <<req, at, dir, stage, ctx, answerVars, reportVars>>

\* An error ends the handler.  Errors no sentinel names, and the gateway's, are
\* logged.
Fail(e) ==
    /\ Returned(e)
    /\ TurnBack(Inside, StatusOf[e])
    /\ IF e \in {"other", "provider"} THEN LogLine(Inside) ELSE UNCHANGED lines
    /\ UNCHANGED <<req, stage, ctx, logged, counted>>

NextCall == Calls[Len(results) + 1]

InCall == Handling("call") /\ Len(results) < Len(Calls)

\* The next call of the handler returns: what it promised, or one of its errors.
CallReturns ==
    /\ InCall
    /\ \/ Returned("ok") /\ UNCHANGED <<req, at, dir, stage, ctx, answerVars, reportVars>>
       \/ \E e \in Errors[NextCall] : Fail(e)

\* It gives up because its context has ended, which ends the query it is at.
CallGivesUp ==
    /\ InCall
    /\ ctx.ended \/ NextCall = "Ping"
    /\ \E e \in CutShort(NextCall) : Fail(e)

\* Between two queries of its transaction it fails, or panics, or finds its context
\* ended, and rolls back under context.WithoutCancel.
RollBack == InCall /\ NextCall \in Transactional /\ Step("rollback")

RollingBack == Handling("rollback")

\* The database has answered.  A panic goes on from here too.
RolledBack ==
    /\ RollingBack
    /\ \E e \in Errors[NextCall] \cup CutShort(NextCall) : Fail(e)

\* Every call is back; a booking made or called off is also logged.
Respond ==
    /\ Handling("call") /\ Len(results) = Len(Calls)
    /\ \E s \in Handler[req.route].answers : TurnBack(Inside, s)
    /\ IF req.route \in {"create", "cancel"} THEN LogLine(Inside) ELSE UNCHANGED lines
    /\ UNCHANGED <<req, stage, ctx, results, logged, counted>>

\* The deadline passes, or the client hangs up.
ContextEnds ==
    /\ ~ctx.ended /\ (ctx.deadline \/ at = Inside)
    /\ ctx' = [ctx EXCEPT !.ended = TRUE]
    /\ UNCHANGED <<req, at, dir, stage, results, answerVars, reportVars>>

\* A bug, in a layer that Recover guards or in a handler that has not answered
\* yet.  (http.ErrAbortHandler, which Recover passes on, is raised by nothing here.)
Panic ==
    /\ dir = "in" /\ at > LayerOf("Recover")
    /\ dir' = "panic" /\ at' = at - 1
    /\ UNCHANGED <<req, stage, ctx, results, answerVars, reportVars>>

-----------------------------------------------------------------------------
(* The layers, coming out.                                                   *)

Leaving(name) == dir = "out" /\ at \in DOMAIN Layers /\ Layers[at] = name

GoOut == at' = at - 1

\* The recorder's status is 200 until something is written.
Seen(name) == IF rec[name] = None THEN 200 ELSE rec[name]

Metrics ==
    /\ Leaving("Metrics")
    /\ counted' = Seen("Metrics")
    /\ GoOut
    /\ UNCHANGED <<req, dir, stage, ctx, results, answerVars, logged, lines>>

AccessLog ==
    /\ Leaving("AccessLog")
    /\ logged' = Seen("AccessLog")
    /\ LogLine(at)
    /\ GoOut
    /\ UNCHANGED <<req, dir, stage, ctx, results, answerVars, counted>>

PassOut ==
    /\ \E name \in {"Identify", "Timeout", "MaxBody", "RateLimit", "CORS", "SecurityHeaders",
                    "Recover", "RequestID"} : Leaving(name)
    /\ GoOut
    /\ UNCHANGED <<req, dir, stage, ctx, results, answerVars, reportVars>>

Panicking == dir = "panic" /\ at \in DOMAIN Layers

Recover ==
    /\ Panicking /\ Layers[at] = "Recover"
    /\ TurnBack(at, 500)
    /\ LogLine(at)
    /\ UNCHANGED <<req, stage, ctx, results, logged, counted>>

\* Every other layer is skipped, whatever it would have done on the way out.
Unwind ==
    /\ Panicking /\ Layers[at] # "Recover"
    /\ GoOut
    /\ UNCHANGED <<req, dir, stage, ctx, results, answerVars, reportVars>>

-----------------------------------------------------------------------------
Init ==
    /\ req \in Request
    /\ at = 1 /\ dir = "in" /\ stage = "mux"
    /\ ctx = [id |-> "none", user |-> "none", deadline |-> FALSE, ended |-> FALSE]
    /\ results = << >>
    /\ wire = None
    /\ rec = [l \in Recorders |-> None]
    /\ logged = None /\ counted = None /\ lines = {}

\* Steps that depend on nobody else.
Run == \/ RequestID \/ CORS \/ RateLimit \/ Timeout \/ Identify \/ PassIn
       \/ Mux \/ ReadBody \/ CheckParams \/ CallGivesUp \/ Respond
       \/ Metrics \/ AccessLog \/ PassOut \/ Recover \/ Unwind

Next == Run \/ CallReturns \/ RollBack \/ RolledBack \/ ContextEnds \/ Panic

Spec == Init /\ [][Next]_vars

\* The server runs its handlers and its timers (ReadBody is bounded by the
\* read timeout); whether a call or a rollback returns by itself is up to the
\* database and the gateway.
FairSpec == Spec /\ WF_vars(Run) /\ WF_vars(ctx.deadline /\ ContextEnds)

-----------------------------------------------------------------------------
(* Properties.                                                               *)

Over == at = 0

\* Every variable has its type.
TypeOK ==
    /\ req \in Request
    /\ at \in 0 .. Inside /\ dir \in {"in", "out", "panic"}
    /\ stage \in {"mux", "read", "params", "call", "rollback"}
    /\ ctx \in [id : {"none", "given", "new"}, user : {"none", "given"},
                deadline : BOOLEAN, ended : BOOLEAN]
    /\ results \in Seq({"ok"} \cup DOMAIN StatusOf)
    /\ wire \in Statuses \cup {None}
    /\ rec \in [Recorders -> Statuses \cup {None}]
    /\ {logged, counted} \subseteq Statuses \cup {None}
    /\ lines \subseteq {"none", "given", "new"}

\* Whichever layer answers, and whichever way the request takes, the access log
\* and the metrics report the status the client was sent.  Only a request that
\* panicked may be missing from them: "a panic in any layer below is still caught"
\* and becomes a 500, "and every request gets an id before anything logs"
\* (router.go:79).
ReportsMatchWire ==
    /\ "none" \notin lines
    /\ Over => \/ wire # None /\ logged = wire /\ counted = wire
               \/ wire = 500 /\ logged = None /\ counted = None

\* A use case is called only for a request that every layer and check before it
\* has let through: with a caller where the route is somebody's own, with a
\* body and parameters that were accepted, on a route that is switched on.
OnlyAdmittedCalls ==
    results # << >> =>
        /\ Routed /\ req.user # "long"
        /\ Handler[req.route].auth => ctx.user = "given"
        /\ Handler[req.route].params => req.params = "good"
        /\ Handler[req.route].body = "json" => req.body \in {"good", "none"}

\* A success is reported only when every call of the handler returned one, and
\* nothing is called after a failure: so the gateway stops redelivering an event
\* (a 200 of the webhook) only when it was processed, and a simulated callback
\* is not delivered for a payment the caller may not see.
SuccessMeansDone ==
    /\ \A i \in DOMAIN results : results[i] # "ok" => i = Len(results)
    /\ (Over /\ wire \in {200, 201}) =>
         \A i \in DOMAIN Calls : i \in DOMAIN results /\ results[i] = "ok"

\* With the request timeout set every request is answered in the end, although the
\* database may answer none of its queries and the gateway nothing at all; the one
\* thing that can hold a handler for good is a rollback the database leaves
\* unanswered, which has no deadline (db.go:123).
EveryRequestEnds == <>Over \/ <>[]RollingBack

\* AccessLog "records one structured line per request" (middleware.go:124), and
\* http_requests_total counts "total HTTP requests" (metrics.go:38).
OneLinePerRequest == Over => logged # None /\ counted # None
=============================================================================
