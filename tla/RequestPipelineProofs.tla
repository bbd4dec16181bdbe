----------------------- MODULE RequestPipelineProofs -----------------------
(***************************************************************************)
(* Proofs about RequestPipeline: what the logs and metrics report, which    *)
(* requests reach a use case, and what a success means, whichever layers    *)
(* answer, panic or run out of time.                                        *)
(***************************************************************************)
EXTENDS RequestPipeline, TLAPS

-----------------------------------------------------------------------------
(* The inductive invariant.                                                  *)

\* The handler is at its calls, or one of them at its rollback.
CallStages == {"call", "rollback"}
USE DEF CallStages

\* Nothing is written on the way in or while a panic passes.  On the way out the
\* status of the client is the recorders' too, each layer reports it as it is
\* passed, and only a recovered panic has skipped them.
ReportInv ==
    /\ dir # "in" \/ at > LayerOf("RequestID") => ctx.id # "none"
    /\ "none" \notin lines
    /\ dir \in {"in", "panic"} =>
         /\ wire = None /\ logged = None /\ counted = None
         /\ \A l \in Recorders : rec[l] = None
    /\ dir = "in" => at >= LayerOf("RequestID")
    /\ dir = "panic" => at >= LayerOf("Recover") /\ at < Inside
    /\ dir = "out" =>
         \/ /\ at < LayerOf("Recover")
            /\ wire = 500 /\ logged = None /\ counted = None
         \/ /\ wire # None /\ \A l \in Recorders : rec[l] = wire
            /\ logged = IF at < LayerOf("AccessLog") THEN wire ELSE None
            /\ counted = IF at < LayerOf("Metrics") THEN wire ELSE None

\* What has been checked by the time the request has come this far.
AdmitInv ==
    /\ dir = "in" /\ at = Inside => req.user # "long" /\ ctx.user = req.user
    /\ stage # "mux" =>
         /\ dir = "in" => at = Inside
         /\ Routed /\ req.user # "long"
         /\ Handler[req.route].auth => ctx.user = "given"
    /\ stage \in {"params"} \cup CallStages /\ Handler[req.route].body = "json" =>
         req.body \in {"good", "none"}
    /\ stage \in CallStages /\ Handler[req.route].params => req.params = "good"
    /\ results # << >> => stage \in CallStages

\* A failure ends the handler, only a handler that is through its calls answers with
\* success, and it is a call that rolls back.
DoneInv ==
    /\ dir = "in" /\ stage = "rollback" => Len(results) < Len(Calls)
    /\ \A i \in DOMAIN results : results[i] # "ok" => i = Len(results) /\ dir # "in"
    /\ wire \in {200, 201} =>
         \A i \in DOMAIN Calls : i \in DOMAIN results /\ results[i] = "ok"

\* The inductive invariant.
IInv == TypeOK /\ ReportInv /\ AdmitInv /\ DoneInv

-----------------------------------------------------------------------------
(* The tables.                                                               *)

\* The chain, layer by layer.
LEMMA LayerList ==
    /\ DOMAIN Layers = 1 .. 10 /\ Len(Layers) = 10 /\ Inside = 11
    /\ Layers[1] = "RequestID" /\ Layers[2] = "Recover" /\ Layers[3] = "AccessLog"
    /\ Layers[4] = "Metrics" /\ Layers[5] = "SecurityHeaders" /\ Layers[6] = "CORS"
    /\ Layers[7] = "RateLimit" /\ Layers[8] = "MaxBody" /\ Layers[9] = "Timeout"
    /\ Layers[10] = "Identify"
BY DEF Layers, Inside

\* A layer has one place in the chain.
LEMMA LayerIsAt ==
    ASSUME NEW i \in 1 .. 10, NEW name, Layers[i] = name
    PROVE  LayerOf(name) = i
<1>1. \A j \in DOMAIN Layers : Layers[j] = name <=> j = i
  BY LayerList
<1> QED BY <1>1, LayerList DEF LayerOf

\* The layers whose order the invariant is about.
LEMMA LayerPositions ==
    /\ LayerOf("RequestID") = 1 /\ LayerOf("Recover") = 2 /\ LayerOf("AccessLog") = 3
    /\ LayerOf("Metrics") = 4
BY LayerList, LayerIsAt

\* Where the request is when a layer acts.
LEMMA EnteringAt ==
    /\ Entering("RequestID") => at = 1 /\ dir = "in"
    /\ Entering("CORS") => at = 6 /\ dir = "in"
    /\ Entering("RateLimit") => at = 7 /\ dir = "in"
    /\ Entering("Timeout") => at = 9 /\ dir = "in"
    /\ Entering("Identify") => at = 10 /\ dir = "in"
    /\ \A name \in {"Recover", "AccessLog", "Metrics", "SecurityHeaders", "MaxBody"} :
         Entering(name) => at \in {2, 3, 4, 5, 8} /\ dir = "in"
BY LayerList DEF Entering

\* Where it is on the way out.
LEMMA LeavingAt ==
    /\ Leaving("AccessLog") => at = 3 /\ dir = "out"
    /\ Leaving("Metrics") => at = 4 /\ dir = "out"
    /\ \A name \in {"Identify", "Timeout", "MaxBody", "RateLimit", "CORS", "SecurityHeaders",
                    "Recover", "RequestID"} :
         Leaving(name) => at \in 1 .. 10 \ {3, 4} /\ dir = "out"
BY LayerList DEF Leaving

\* No error is answered with the status of a success.
LEMMA ErrorStatuses ==
    /\ DOMAIN StatusOf = {"validation", "notFound", "seatUnavailable", "inProgress", "expired",
                          "state", "unauthorized", "unverified", "provider", "other", "down"}
    /\ \A e \in DOMAIN StatusOf : StatusOf[e] \in Statuses \ {200, 201, 204}
    /\ "ok" \notin DOMAIN StatusOf
BY DEF StatusOf, Statuses

\* Every error a call can return has a status.
LEMMA ErrorsHaveStatuses ==
    ASSUME NEW c \in DOMAIN Errors
    PROVE  Errors[c] \subseteq DOMAIN StatusOf /\ CutShort(c) \subseteq DOMAIN StatusOf
BY ErrorStatuses DEF Errors, CutShort

\* The routes call what the table of errors knows.
LEMMA HandlerTyped ==
    ASSUME NEW r \in DOMAIN Handler
    PROVE  /\ Handler[r].body \in {"none", "json", "raw"}
           /\ Handler[r].answers \subseteq Statuses
           /\ Handler[r].calls \in Seq(DOMAIN Errors)
<1>1. /\ {200} \subseteq Statuses /\ {201} \subseteq Statuses /\ {200, 500} \subseteq Statuses
      /\ FileAnswers \subseteq Statuses
  BY DEF FileAnswers, Statuses
<1>2. DOMAIN Errors = {"ListMovies", "GetMovie", "ListShowtimes", "SeatMap", "HoldSeats",
                       "ListForUser", "Get", "CancelBooking", "StartCheckout", "GetPayment",
                       "BuildEvent", "HandleWebhook", "Ping"}
  BY DEF Errors
<1>3. Handler[r].body \in {"none", "json", "raw"}
  BY DEF Handler, Endpoint
<1>4. Handler[r].answers \subseteq Statuses
  <2>1. r \notin {"metrics", "static"} =>
          Handler[r].answers = {200} \/ Handler[r].answers = {201}
    BY DEF Handler, Endpoint
  <2>2. Handler.static.answers = FileAnswers /\ Handler.metrics.answers = {200, 500}
    BY DEF Handler, Endpoint
  <2> QED BY <1>1, <2>1, <2>2
<1>5. Handler[r].calls \in Seq(DOMAIN Errors)
  <2>1. CASE r = "simulate"
    <3>1. Handler[r].calls = <<"GetPayment", "BuildEvent", "HandleWebhook", "GetPayment">>
      BY <2>1 DEF Handler, Endpoint
    <3>2. \A c, d, e \in DOMAIN Errors : <<c, d, e, c>> \in Seq(DOMAIN Errors)
      OBVIOUS
    <3> QED BY <1>2, <3>1, <3>2
  <2>2. CASE r \in {"healthz", "metrics", "static"}
    <3>1. Handler[r].calls = << >>
      BY <2>2 DEF Handler, Endpoint
    <3> QED BY <3>1
  <2>3. CASE r \notin {"healthz", "metrics", "static", "simulate"}
    <3>1. \E c \in DOMAIN Errors : Handler[r].calls = <<c>>
      <4>1. \A q \in {"movies", "movie", "showtimes", "seats"} :
              \E c \in {"ListMovies", "GetMovie", "ListShowtimes", "SeatMap"} :
                Handler[q].calls = <<c>>
        BY DEF Handler, Endpoint
      <4>2. \A q \in {"create", "list", "booking", "cancel"} :
              \E c \in {"HoldSeats", "ListForUser", "Get", "CancelBooking"} :
                Handler[q].calls = <<c>>
        BY DEF Handler, Endpoint
      <4>3. \A q \in {"checkout", "payment", "webhook", "readyz"} :
              \E c \in {"StartCheckout", "GetPayment", "HandleWebhook", "Ping"} :
                Handler[q].calls = <<c>>
        BY DEF Handler, Endpoint
      <4>4. r \in {"movies", "movie", "showtimes", "seats", "create", "list", "booking",
                   "cancel", "checkout", "payment", "webhook", "readyz"}
        BY <2>3 DEF Handler
      <4> QED BY <1>2, <4>1, <4>2, <4>3, <4>4
    <3> QED BY <3>1
  <2> QED BY <2>1, <2>2, <2>3
<1> QED BY <1>3, <1>4, <1>5

\* Nor is a body that cannot be read.
LEMMA FaultStatuses ==
    /\ DOMAIN Faults = {"media", "big", "bad", "none"}
    /\ \A b \in DOMAIN Faults : Faults[b] \in Statuses \ {200, 201, 204}
BY DEF Faults, Statuses

-----------------------------------------------------------------------------
(* What the steps have in common.                                            *)

\* No use case has been called before the request has reached its handler.
LEMMA OnTheWayIn ==
    ASSUME IInv, dir = "in", at # Inside
    PROVE  stage = "mux" /\ results = << >>
BY DEF IInv, AdmitInv, TypeOK

\* A layer lets the request through.
LEMMA GoesIn ==
    ASSUME IInv, dir = "in", at \in 1 .. 10, GoIn,
           ctx' \in [id : {"given", "new"}, user : {"none", "given"}, deadline : BOOLEAN,
                     ended : BOOLEAN],
           at = 10 => req.user # "long" /\ ctx'.user = req.user,
           UNCHANGED <<req, stage, results, answerVars, reportVars>>
    PROVE  IInv'
<1>1. /\ at' = at + 1 /\ dir' = "in" /\ stage' = "mux" /\ results' = << >>
      /\ UNCHANGED <<req, wire, rec, logged, counted, lines>>
  BY OnTheWayIn, LayerList DEF GoIn, answerVars, reportVars
<1>2. TypeOK'
  BY <1>1, LayerList DEF IInv, TypeOK
<1>3. ReportInv'
  BY <1>1, LayerPositions DEF IInv, ReportInv
<1>4. AdmitInv'
  BY <1>1, LayerList DEF AdmitInv
<1>5. DoneInv'
  <2>1. wire' = None
    BY <1>1 DEF IInv, ReportInv
  <2> QED BY <1>1, <2>1, NoneAssumption DEF DoneInv, Statuses
<1> QED BY <1>2, <1>3, <1>4, <1>5 DEF IInv

\* A layer inside both recorders answers, or the handler does.
LEMMA TurnsBack ==
    ASSUME IInv, dir = "in", at \in 5 .. 11, NEW s \in Statuses, TurnBack(at, s),
           UNCHANGED <<req, stage, ctx, logged, counted>>, at > 1 => ctx.id # "none",
           lines' \subseteq {"given", "new"},
           results' \in Seq({"ok"} \cup DOMAIN StatusOf),
           results' # << >> => stage \in CallStages,
           \A i \in DOMAIN results' : results'[i] # "ok" => i = Len(results'),
           s \in {200, 201} =>
             \A i \in DOMAIN Calls : i \in DOMAIN results' /\ results'[i] = "ok"
    PROVE  IInv'
<1>1. /\ dir' = "out" /\ at' = at - 1 /\ wire' = s
      /\ rec' \in [Recorders -> Statuses] /\ \A l \in Recorders : rec'[l] = s
  BY LayerPositions DEF TurnBack, WriteHeader, KeepFirst, IInv, ReportInv, Recorders
<1>2. TypeOK'
  BY <1>1, LayerList DEF IInv, TypeOK
<1>3. ReportInv'
  <2>1. logged = None /\ counted = None /\ s # None /\ ctx.id # "none"
    BY NoneAssumption DEF IInv, ReportInv
  <2> QED BY <1>1, <2>1, LayerPositions DEF ReportInv
<1>4. AdmitInv'
  BY <1>1 DEF IInv, AdmitInv, Routed
<1>5. DoneInv'
  BY <1>1 DEF DoneInv, Calls
<1> QED BY <1>2, <1>3, <1>4, <1>5 DEF IInv

\* The answer passes a layer, or a panic does: nothing more is decided.
LEMMA GoesOut ==
    ASSUME IInv, at \in 1 .. 11, at' = at - 1,
           \/ dir = "out" /\ dir' = "out"
           \/ dir \in {"in", "panic"} /\ dir' = "panic" /\ at > LayerOf("Recover"),
           UNCHANGED <<req, stage, ctx, results, answerVars>>,
           lines' \subseteq {"given", "new"},
           logged' = IF dir = "out" /\ at = LayerOf("AccessLog")
                     THEN Seen("AccessLog") ELSE logged,
           counted' = IF dir = "out" /\ at = LayerOf("Metrics")
                      THEN Seen("Metrics") ELSE counted
    PROVE  IInv'
<1>1. UNCHANGED <<wire, rec>>
  BY DEF answerVars
<1>2. TypeOK'
  BY <1>1, LayerList DEF IInv, TypeOK, Recorders, Seen, Statuses
<1>3. ReportInv'
  BY <1>1, LayerPositions, LayerList DEF IInv, ReportInv, Recorders, Seen
<1>4. AdmitInv'
  BY DEF IInv, AdmitInv, Routed
<1>5. DoneInv'
  BY <1>1 DEF IInv, DoneInv, Calls
<1> QED BY <1>2, <1>3, <1>4, <1>5 DEF IInv

\* The handler goes on to its next stage, or a call of it has succeeded.
LEMMA GoesOn ==
    ASSUME IInv, dir = "in", at = Inside, UNCHANGED <<req, at, dir, ctx, answerVars, reportVars>>,
           stage' \in {"read", "params"} \cup CallStages, results' \in Seq({"ok"}),
           results' # << >> => stage' \in CallStages,
           Routed, Handler[req.route].auth => ctx.user = "given",
           stage' \in {"params"} \cup CallStages /\ Handler[req.route].body = "json" =>
             req.body \in {"good", "none"},
           stage' \in CallStages /\ Handler[req.route].params => req.params = "good",
           stage' = "rollback" => Len(results') < Len(Calls)
    PROVE  IInv'
<1>1. UNCHANGED <<wire, rec, logged, counted, lines>>
  BY DEF answerVars, reportVars
<1>2. results' \in Seq({"ok"} \cup DOMAIN StatusOf) /\ \A i \in DOMAIN results' : results'[i] = "ok"
  OBVIOUS
<1>3. TypeOK'
  BY <1>1, <1>2 DEF IInv, TypeOK
<1>4. ReportInv'
  BY <1>1 DEF IInv, ReportInv
<1>5. AdmitInv'
  BY DEF IInv, AdmitInv, Routed
<1>6. DoneInv'
  <2>1. wire' = None
    BY <1>1 DEF IInv, ReportInv
  <2>2. Calls' = Calls
    BY DEF Calls
  <2> QED BY <1>2, <2>1, <2>2, NoneAssumption DEF DoneInv, Statuses
<1> QED BY <1>3, <1>4, <1>5, <1>6 DEF IInv

\* The context of everything inside RequestID carries an id.
LEMMA LogLineHasId ==
    ASSUME IInv, NEW i \in 2 .. 11, ctx.id # "none"
    PROVE  LogLine(i) => lines' \subseteq {"given", "new"}
<1>1. IdAt(i) \in {"given", "new"}
  BY LayerPositions DEF IdAt, IInv, TypeOK
<1> QED BY <1>1 DEF LogLine, IInv, TypeOK, ReportInv

\* So do the lines written so far.
LEMMA LinesHaveIds == IInv => lines \subseteq {"given", "new"}
BY DEF IInv, TypeOK, ReportInv

-----------------------------------------------------------------------------
(* Every action preserves the invariant.                                     *)

\* Going in: the layers.

LEMMA RequestIDPreserves == ASSUME IInv, RequestID PROVE IInv'
<1>1. at = 1 /\ dir = "in" /\ GoIn /\ UNCHANGED <<req, stage, results, answerVars, reportVars>>
  BY EnteringAt DEF RequestID
<1>2. ctx' \in [id : {"given", "new"}, user : {"none", "given"}, deadline : BOOLEAN,
                ended : BOOLEAN]
  BY DEF RequestID, IInv, TypeOK
<1> QED BY <1>1, <1>2, GoesIn

\* Past RequestID the context has an id.
LEMMA ContextHasId ==
    ASSUME IInv, dir # "in" \/ at > 1
    PROVE  ctx \in [id : {"given", "new"}, user : {"none", "given"}, deadline : BOOLEAN,
                    ended : BOOLEAN]
BY LayerPositions DEF IInv, TypeOK, ReportInv

LEMMA PassInPreserves == ASSUME IInv, PassIn PROVE IInv'
<1>1. at \in {2, 3, 4, 5, 8} /\ dir = "in"
  BY EnteringAt DEF PassIn
<1> QED BY <1>1, ContextHasId, GoesIn DEF PassIn

LEMMA TimeoutPreserves == ASSUME IInv, Timeout PROVE IInv'
<1>1. at = 9 /\ dir = "in" /\ GoIn /\ UNCHANGED <<req, stage, results, answerVars, reportVars>>
  BY EnteringAt DEF Timeout
<1>2. ctx' \in [id : {"given", "new"}, user : {"none", "given"}, deadline : BOOLEAN,
                ended : BOOLEAN]
  BY <1>1, ContextHasId, SwitchAssumption DEF Timeout
<1> QED BY <1>1, <1>2, GoesIn

\* A layer that lets through or turns back.
LEMMA LayerTurnsBack ==
    ASSUME IInv, dir = "in", at \in 5 .. 10, NEW s \in Statuses \ {200, 201}, TurnBack(at, s),
           UNCHANGED <<req, stage, ctx, results, reportVars>>
    PROVE  IInv'
<1>1. results' = << >> /\ ctx.id # "none" /\ lines' \subseteq {"given", "new"}
  BY OnTheWayIn, LayerList, ContextHasId, LinesHaveIds DEF reportVars
<1> QED BY <1>1, TurnsBack DEF reportVars

LEMMA CORSPreserves == ASSUME IInv, CORS PROVE IInv'
<1>1. at = 6 /\ dir = "in" /\ UNCHANGED <<req, stage, ctx, results, reportVars>>
  BY EnteringAt DEF CORS
<1>2. CASE TurnBack(at, 204)
  BY <1>1, <1>2, LayerTurnsBack DEF Statuses
<1>3. CASE GoIn /\ UNCHANGED answerVars
  BY <1>1, <1>3, ContextHasId, GoesIn
<1> QED BY <1>2, <1>3 DEF CORS

LEMMA RateLimitPreserves == ASSUME IInv, RateLimit PROVE IInv'
<1>1. at = 7 /\ dir = "in" /\ UNCHANGED <<req, stage, ctx, results, reportVars>>
  BY EnteringAt DEF RateLimit
<1>2. CASE TurnBack(at, 429)
  BY <1>1, <1>2, LayerTurnsBack DEF Statuses
<1>3. CASE GoIn /\ UNCHANGED answerVars
  BY <1>1, <1>3, ContextHasId, GoesIn
<1> QED BY <1>2, <1>3 DEF RateLimit

LEMMA IdentifyPreserves == ASSUME IInv, Identify PROVE IInv'
<1>1. at = 10 /\ dir = "in" /\ UNCHANGED <<req, stage, results, reportVars>>
  BY EnteringAt DEF Identify
<1>2. CASE TurnBack(at, 400) /\ UNCHANGED ctx
  BY <1>1, <1>2, LayerTurnsBack DEF Statuses
<1>3. CASE /\ GoIn /\ ctx' = [ctx EXCEPT !.user = req.user] /\ UNCHANGED answerVars
           /\ req.user # "long"
  <2>1. req.user \in {"none", "given"}
    BY <1>3 DEF IInv, TypeOK, Request
  <2>2. /\ ctx' \in [id : {"given", "new"}, user : {"none", "given"}, deadline : BOOLEAN,
                     ended : BOOLEAN]
        /\ ctx'.user = req.user
    BY <1>1, <1>3, <2>1, ContextHasId
  <2> QED BY <1>1, <1>3, <2>2, GoesIn
<1> QED BY <1>2, <1>3 DEF Identify

\* The handler answers without having called anything.
LEMMA Answers ==
    ASSUME IInv, dir = "in", at = Inside, stage \notin CallStages,
           NEW s \in Statuses \ {200, 201}, Answer(s)
    PROVE  IInv'
<1>1. results' = << >> /\ ctx.id # "none" /\ lines' \subseteq {"given", "new"}
  BY LayerList, ContextHasId, LinesHaveIds DEF Answer, reportVars, IInv, AdmitInv
<1> QED BY <1>1, LayerList, TurnsBack DEF Answer, reportVars

LEMMA MuxPreserves == ASSUME IInv, Mux PROVE IInv'
<1>1. dir = "in" /\ at = Inside /\ stage = "mux"
  BY DEF Mux, Handling
<1>2. CASE \E s \in Unrouted \cup {401} : Answer(s)
  BY <1>1, <1>2, Answers DEF Unrouted, Statuses
<1>3. CASE Routed /\ ~UserMissing /\ Step("read")
  <2>1. Handler[req.route].auth => ctx.user = "given"
    BY <1>1, <1>3 DEF UserMissing, IInv, TypeOK
  <2>2. results' = << >>
    BY <1>1, <1>3 DEF Step, IInv, AdmitInv
  <2> QED BY <1>1, <1>3, <2>1, <2>2, GoesOn DEF Step
<1> QED BY <1>2, <1>3 DEF Mux

\* A check of the handler is passed.
LEMMA CheckPassed ==
    ASSUME IInv, dir = "in", at = Inside, stage # "mux", stage \notin CallStages,
           NEW s \in {"params", "call"}, Step(s),
           Handler[req.route].body = "json" => req.body \in {"good", "none"},
           s = "call" /\ Handler[req.route].params => req.params = "good"
    PROVE  IInv'
<1>1. Routed /\ (Handler[req.route].auth => ctx.user = "given") /\ results' = << >>
  BY DEF IInv, AdmitInv, Step
<1> QED BY <1>1, GoesOn DEF Step

LEMMA ReadBodyPreserves == ASSUME IInv, ReadBody PROVE IInv'
<1>1. dir = "in" /\ at = Inside /\ stage = "read"
  BY DEF ReadBody, Handling
<1>2. CASE \E b \in DOMAIN Faults : Answer(Faults[b])
  BY <1>1, <1>2, Answers, FaultStatuses
<1>3. CASE Answer(400)
  BY <1>1, <1>3, Answers DEF Statuses
<1>4. CASE Step("params") /\ (Handler[req.route].body = "json" => req.body \in {"good", "none"})
  BY <1>1, <1>4, CheckPassed
<1> QED BY <1>2, <1>3, <1>4 DEF ReadBody

LEMMA CheckParamsPreserves == ASSUME IInv, CheckParams PROVE IInv'
<1>1. /\ dir = "in" /\ at = Inside /\ stage = "params"
      /\ Handler[req.route].body = "json" => req.body \in {"good", "none"}
  BY DEF CheckParams, Handling, IInv, AdmitInv
<1>2. CASE Answer(400)
  BY <1>1, <1>2, Answers DEF Statuses
<1>3. CASE Step("call") /\ (Handler[req.route].params => req.params = "good")
  <2>1. req.params \in {"good", "bad"}
    BY DEF IInv, TypeOK, Request
  <2> QED BY <1>1, <1>3, <2>1, CheckPassed
<1>4. \/ Handler[req.route].params => req.params = "good"
      \/ Handler[req.route].params /\ req.params = "bad"
  BY DEF IInv, TypeOK, Request
<1> QED BY <1>2, <1>3, <1>4 DEF CheckParams

\* The handler's calls so far have all succeeded, and it has another to make.
LEMMA Calling ==
    ASSUME IInv, Handling("call") \/ RollingBack
    PROVE  /\ dir = "in" /\ at = Inside /\ stage \in CallStages /\ ctx.id # "none"
           /\ results \in Seq({"ok"}) /\ \A i \in DOMAIN results : results[i] = "ok"
           /\ Len(results) < Len(Calls) => NextCall \in DOMAIN Errors
<1>1. dir = "in" /\ at = Inside /\ stage \in CallStages /\ ctx.id # "none"
  BY ContextHasId, LayerList DEF Handling, RollingBack
<1>2. \A i \in DOMAIN results : results[i] = "ok"
  BY <1>1 DEF IInv, DoneInv
<1>3. results \in Seq({"ok"})
  BY <1>2 DEF IInv, TypeOK
<1>4. Calls \in Seq(DOMAIN Errors)
  BY <1>1, HandlerTyped DEF Calls, IInv, AdmitInv, Routed, Routes
<1>5. Len(results) < Len(Calls) => NextCall \in DOMAIN Errors
  BY <1>3, <1>4 DEF NextCall
<1> QED BY <1>1, <1>2, <1>3, <1>5

\* A call's error ends the handler with its status.
LEMMA Fails ==
    ASSUME IInv, Handling("call") \/ RollingBack, NEW e \in DOMAIN StatusOf, Fail(e)
    PROVE  IInv'
<1>1. lines' \subseteq {"given", "new"}
  BY LayerList, Calling, LogLineHasId, LinesHaveIds DEF Fail
<1>2. /\ results' \in Seq({"ok"} \cup DOMAIN StatusOf)
      /\ \A i \in DOMAIN results' : results'[i] # "ok" => i = Len(results')
  BY Calling DEF Fail, Returned
<1>3. StatusOf[e] \in Statuses \ {200, 201}
  BY ErrorStatuses
<1> QED BY <1>1, <1>2, <1>3, Calling, LayerList, TurnsBack DEF Fail

LEMMA CallReturnsPreserves == ASSUME IInv, CallReturns PROVE IInv'
<1>1. Handling("call") /\ NextCall \in DOMAIN Errors
  BY Calling DEF CallReturns, InCall
<1>2. CASE \E e \in Errors[NextCall] : Fail(e)
  BY <1>1, <1>2, ErrorsHaveStatuses, Fails
<1>3. CASE Returned("ok") /\ UNCHANGED <<req, at, dir, stage, ctx, answerVars, reportVars>>
  <2>1. results' \in Seq({"ok"}) /\ stage' \in CallStages
    BY <1>1, <1>3, Calling DEF Returned
  <2>2. /\ Routed /\ (Handler[req.route].auth => ctx.user = "given")
        /\ Handler[req.route].body = "json" => req.body \in {"good", "none"}
        /\ Handler[req.route].params => req.params = "good"
    BY <1>1, Calling DEF IInv, AdmitInv
  <2>3. stage' = "call" /\ results' # << >>
    BY <1>1, <1>3, Calling DEF Handling, Returned
  <2> QED BY <1>1, <1>3, <2>1, <2>2, <2>3, Calling, GoesOn
<1> QED BY <1>2, <1>3 DEF CallReturns

LEMMA CallGivesUpPreserves == ASSUME IInv, CallGivesUp PROVE IInv'
<1>1. Handling("call") /\ NextCall \in DOMAIN Errors
  BY Calling DEF CallGivesUp, InCall
<1> QED BY <1>1, ErrorsHaveStatuses, Fails DEF CallGivesUp

LEMMA RollBackPreserves == ASSUME IInv, RollBack PROVE IInv'
<1>1. /\ Handling("call") /\ stage' = "rollback"
      /\ UNCHANGED <<req, at, dir, ctx, results, answerVars, reportVars>>
  BY DEF RollBack, InCall, Step
<1>2. /\ Routed /\ (Handler[req.route].auth => ctx.user = "given")
      /\ Handler[req.route].body = "json" => req.body \in {"good", "none"}
      /\ Handler[req.route].params => req.params = "good"
  BY <1>1, Calling DEF IInv, AdmitInv
<1>3. Len(results') < Len(Calls)
  BY <1>1 DEF RollBack, InCall
<1> QED BY <1>1, <1>2, <1>3, Calling, GoesOn

LEMMA RolledBackPreserves == ASSUME IInv, RolledBack PROVE IInv'
<1>1. PICK e \in Errors[NextCall] \cup CutShort(NextCall) : Fail(e)
  BY DEF RolledBack
<1>2. Len(results) < Len(Calls)
  BY DEF RolledBack, RollingBack, Handling, IInv, DoneInv
<1>3. e \in DOMAIN StatusOf
  BY <1>2, Calling, ErrorsHaveStatuses DEF RolledBack
<1> QED BY <1>1, <1>3, Fails DEF RolledBack

LEMMA RespondPreserves == ASSUME IInv, Respond PROVE IInv'
<1>1. /\ Handling("call") /\ Len(results) = Len(Calls)
      /\ \E s \in Handler[req.route].answers : TurnBack(at, s)
      /\ UNCHANGED <<req, stage, ctx, results, logged, counted>>
  BY Calling DEF Respond
<1>2. lines' \subseteq {"given", "new"}
  BY <1>1, LayerList, Calling, LogLineHasId, LinesHaveIds DEF Respond
<1>3. Handler[req.route].answers \subseteq Statuses /\ Calls \in Seq(DOMAIN Errors)
  BY <1>1, Calling, HandlerTyped DEF Calls, IInv, AdmitInv, Routed, Routes
<1>4. \A i \in DOMAIN Calls : i \in DOMAIN results /\ results[i] = "ok"
  BY <1>1, <1>3, Calling
<1>5. results' \in Seq({"ok"} \cup DOMAIN StatusOf)
  BY <1>1 DEF IInv, TypeOK
<1>6. results' # << >> => stage \in CallStages
  BY <1>1, Calling
<1>7. PICK s \in Statuses : TurnBack(at, s)
  BY <1>1, <1>3
<1>8. \A i \in DOMAIN results' : results'[i] # "ok" => i = Len(results')
  BY <1>1, Calling
<1> QED BY <1>1, <1>2, <1>4, <1>5, <1>6, <1>7, <1>8, Calling, LayerList, TurnsBack

\* The deadline, a hang-up, a bug.

LEMMA ContextEndsPreserves == ASSUME IInv, ContextEnds PROVE IInv'
<1>1. /\ UNCHANGED <<req, at, dir, stage, results, wire, rec, logged, counted, lines>>
      /\ ctx'.id = ctx.id /\ ctx'.user = ctx.user
      /\ ctx' \in [id : {"none", "given", "new"}, user : {"none", "given"},
                   deadline : BOOLEAN, ended : BOOLEAN]
  BY DEF ContextEnds, answerVars, reportVars, IInv, TypeOK
<1>2. TypeOK'
  BY <1>1 DEF IInv, TypeOK
<1>3. ReportInv'
  BY <1>1 DEF IInv, ReportInv
<1>4. AdmitInv'
  BY <1>1 DEF IInv, AdmitInv, Routed
<1>5. DoneInv'
  BY <1>1 DEF IInv, DoneInv, Calls
<1> QED BY <1>2, <1>3, <1>4, <1>5 DEF IInv

LEMMA PanicPreserves == ASSUME IInv, Panic PROVE IInv'
<1>1. at \in 1 .. 11 /\ at > LayerOf("Recover") /\ at' = at - 1 /\ dir = "in" /\ dir' = "panic"
  BY LayerPositions, LayerList DEF Panic, IInv, TypeOK
<1> QED BY <1>1, LinesHaveIds, GoesOut DEF Panic, reportVars

LEMMA UnwindPreserves == ASSUME IInv, Unwind PROVE IInv'
<1>1. at \in 1 .. 11 /\ at > LayerOf("Recover") /\ at' = at - 1 /\ dir = "panic"
  BY LayerPositions, LayerList DEF Unwind, Panicking, GoOut, IInv, ReportInv
<1> QED BY <1>1, LinesHaveIds, GoesOut DEF Unwind, reportVars

\* Coming out.

LEMMA PassOutPreserves == ASSUME IInv, PassOut PROVE IInv'
<1>1. at \in 1 .. 10 \ {3, 4} /\ dir = "out"
  BY LeavingAt DEF PassOut
<1> QED BY <1>1, LayerPositions, LinesHaveIds, GoesOut DEF PassOut, GoOut, reportVars

LEMMA MetricsPreserves == ASSUME IInv, Metrics PROVE IInv'
<1>1. at = 4 /\ dir = "out"
  BY LeavingAt DEF Metrics
<1> QED BY <1>1, LayerPositions, LinesHaveIds, GoesOut DEF Metrics, GoOut

LEMMA AccessLogPreserves == ASSUME IInv, AccessLog PROVE IInv'
<1>1. at = 3 /\ dir = "out"
  BY LeavingAt DEF AccessLog
<1>2. lines' \subseteq {"given", "new"}
  BY <1>1, ContextHasId, LogLineHasId DEF AccessLog
<1> QED BY <1>1, <1>2, LayerPositions, GoesOut DEF AccessLog, GoOut

\* A panic left nothing written, so the client gets the 500 and nobody reports.
LEMMA RecoverPreserves == ASSUME IInv, Recover PROVE IInv'
<1>1. at = 2 /\ dir = "panic"
  BY LayerList DEF Recover, Panicking
<1>2. lines' \subseteq {"given", "new"} /\ ctx.id # "none"
  BY <1>1, ContextHasId, LogLineHasId DEF Recover
<1>3. /\ at' = 1 /\ dir' = "out" /\ wire' = 500 /\ rec' \in [Recorders -> {None}]
      /\ UNCHANGED <<req, stage, ctx, results, logged, counted>>
      /\ logged = None /\ counted = None
  BY <1>1, LayerPositions DEF Recover, TurnBack, WriteHeader, KeepFirst, IInv, ReportInv,
     Recorders
<1>4. TypeOK'
  BY <1>2, <1>3, LayerList DEF IInv, TypeOK, Statuses
<1>5. ReportInv'
  BY <1>2, <1>3, LayerPositions DEF ReportInv
<1>6. AdmitInv'
  BY <1>3 DEF IInv, AdmitInv, Routed
<1>7. DoneInv'
  BY <1>3 DEF IInv, DoneInv
<1> QED BY <1>4, <1>5, <1>6, <1>7 DEF IInv

-----------------------------------------------------------------------------
(* The invariant is inductive, and what follows.                             *)

\* A request has just arrived.
LEMMA InitInv == Init => IInv
<1> SUFFICES ASSUME Init PROVE IInv
  OBVIOUS
<1>1. TypeOK
  BY LayerList DEF Init, TypeOK
<1>2. ReportInv
  BY LayerPositions DEF Init, ReportInv
<1>3. AdmitInv
  BY LayerList DEF Init, AdmitInv
<1>4. DoneInv
  BY NoneAssumption DEF Init, DoneInv, Statuses
<1> QED BY <1>1, <1>2, <1>3, <1>4 DEF IInv

\* Whatever it does next.
LEMMA NextInv == IInv /\ [Next]_vars => IInv'
<1> SUFFICES ASSUME IInv, [Next]_vars PROVE IInv'
  OBVIOUS
<1>1. CASE Run
  BY <1>1, RequestIDPreserves, CORSPreserves, RateLimitPreserves, TimeoutPreserves,
     IdentifyPreserves, PassInPreserves, MuxPreserves, ReadBodyPreserves,
     CheckParamsPreserves, CallGivesUpPreserves, RespondPreserves, MetricsPreserves,
     AccessLogPreserves, PassOutPreserves, RecoverPreserves, UnwindPreserves DEF Run
<1>2. CASE CallReturns \/ RollBack \/ RolledBack \/ ContextEnds \/ Panic
  BY <1>2, CallReturnsPreserves, RollBackPreserves, RolledBackPreserves,
     ContextEndsPreserves, PanicPreserves
<1>3. CASE UNCHANGED vars
  <2>1. UNCHANGED <<req, at, dir, stage, ctx, results, wire, rec, logged, counted, lines>>
    BY <1>3 DEF vars, answerVars, reportVars
  <2>2. TypeOK' /\ ReportInv'
    BY <2>1 DEF IInv, TypeOK, ReportInv
  <2>3. AdmitInv' /\ DoneInv'
    BY <2>1 DEF IInv, AdmitInv, DoneInv, Calls, Routed
  <2> QED BY <2>2, <2>3 DEF IInv
<1> QED BY <1>1, <1>2, <1>3 DEF Next

\* Whatever the request, the layers, the calls and their failures.
THEOREM Invariance == Spec => []IInv
BY InitInv, NextInv, PTL DEF Spec

\* Every variable has its type; in particular no status but those of the middleware,
\* the mux, the file server, the handlers and writeDomainError is ever sent, and
\* every one of them is seen by the recorders as it was sent.
THEOREM TypeCorrect == Spec => []TypeOK
BY Invariance, PTL DEF IInv

\* The access log and the metrics report the status the client was sent
\* (statusRecorder, Instrument and AccessLog), but for a panic, which skips both
\* and is a 500; every line that is written carries a request id.
THEOREM ReportsAreTrue == Spec => []ReportsMatchWire
<1>1. IInv => ReportsMatchWire
  <2> SUFFICES ASSUME IInv PROVE ReportsMatchWire
    OBVIOUS
  <2>1. Over => dir = "out"
    BY LayerPositions DEF Over, IInv, TypeOK, ReportInv, AdmitInv
  <2> QED BY <2>1, LayerPositions DEF Over, ReportsMatchWire, IInv, ReportInv
<1> QED BY Invariance, <1>1, PTL

\* No use case is called for a request that Identify, RequireUser, decodeJSON or
\* the checks of the parameters would turn back.
THEOREM CallsAreAdmitted == Spec => []OnlyAdmittedCalls
<1>1. IInv => OnlyAdmittedCalls
  BY DEF IInv, AdmitInv, OnlyAdmittedCalls
<1> QED BY Invariance, <1>1, PTL

\* A handler stops at its first error and answers with success only after its
\* last call: a 200 of the webhook means the event was processed.
THEOREM SuccessIsReal == Spec => []SuccessMeansDone
<1>1. IInv => SuccessMeansDone
  BY DEF IInv, DoneInv, SuccessMeansDone
<1> QED BY Invariance, <1>1, PTL
=============================================================================
