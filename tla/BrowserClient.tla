--------------------------- MODULE BrowserClient ---------------------------
(***************************************************************************)
(* The page of the demo: what script.js remembers, its requests, whose      *)
(* answers come in any order or not at all, its two intervals, and the user *)
(* clicking.  The server behind it is reduced to what the page can tell     *)
(* (SeatHold and Checkout are the server); its clock, which ticks several  *)
(* times in a second, is the page's.                                        *)
(***************************************************************************)
EXTENDS Integers, FiniteSets, Sequences

CONSTANTS
    Showtimes,
    Seats,         \* of the hall they share
    Contested,     \* showtimes other users take seats of
    None, Failed,
    Wires,         \* bound on the requests out at one time
    PollWires,     \* the same for those of the intervals
    HoldTTL, PaymentWindow,
    Second,        \* the ticks of the clock in a second
    MaxTime, MaxBookings, MaxPays \* bounds: the clock, bookings, payments of each

ASSUME WindowAssumption ==
    {HoldTTL, PaymentWindow, Second} \subseteq Nat \ {0} /\ HoldTTL <= PaymentWindow

VARIABLES
    selectedShowtime, selectedSeats, booking, payment,
    ticking,     \* timerInterval is set
    panel,       \* the side panel is drawn
    expiredSaid, \* booking of which the panel says "Hold expired"
    grid,        \* seat map drawn last
    wire,        \* requests out, with their answers once there is one
    bookings,    \* server: this user's bookings
    taken,       \* server: seats claimed by other users
    now

panelVars  == <<booking, payment, ticking, panel, expiredSaid>>
pageVars   == <<selectedShowtime, selectedSeats, panelVars, grid>>
serverVars == <<bookings, taken, now>>
vars == <<pageVars, wire, serverVars>>

-----------------------------------------------------------------------------
(* Requests.                                                                 *)

Call(kind, of) == [kind |-> kind, of |-> of, reply |-> None]

\* fetchSeats
Fetch(s) == IF s = None THEN None ELSE Call("seats", s)

Send(w, call) == wire[w] = None /\ wire' = [wire EXCEPT ![w] = call]

\* With less than two seconds left.
RunsOutEarly(b) == b # None /\ b.status = "held" /\ b.until # 0 /\ b.until - now < 2 * Second

\* updateTimer: the countdown is drawn for a held booking and has run out, for of the
\* seconds left only whole ones count.
RunsOut(b) == b # None /\ b.status = "held" /\ b.until # 0 /\ b.until - now < Second

\* renderSidePanel, which ends with updateTimer.
Render(b, p, t) ==
    /\ panel' = TRUE
    /\ IF RunsOut(b)
       THEN booking' = None /\ payment' = None /\ ticking' = FALSE /\ expiredSaid' = b.id
       ELSE booking' = b /\ payment' = p /\ ticking' = t /\ expiredSaid' = None

-----------------------------------------------------------------------------
(* The user, and the intervals.                                              *)

\* What is on the page can be clicked once a showtime is selected.
Shown == selectedShowtime # None /\ panel
ShownStatus == IF Shown /\ booking # None THEN booking.status ELSE "none"

SelectMovie ==
    /\ selectedShowtime' = None /\ selectedSeats' = {} /\ panel' = FALSE
    /\ UNCHANGED <<booking, payment, ticking, expiredSaid, grid, wire, serverVars>>

SelectShowtime(w, s) ==
    /\ selectedShowtime' = s /\ selectedSeats' = {}
    /\ Render(None, None, FALSE)
    /\ Send(w, Fetch(s))
    /\ UNCHANGED <<grid, serverVars>>

\* A seat drawn as available while there was no booking.
ToggleSeat(w, x) ==
    /\ Shown /\ grid # None /\ grid.clickable /\ grid.seats[x] = "available"
    /\ selectedSeats' = IF x \in selectedSeats THEN selectedSeats \ {x} ELSE selectedSeats \cup {x}
    /\ Render(booking, payment, ticking)
    /\ Send(w, Fetch(selectedShowtime))
    /\ UNCHANGED <<selectedShowtime, grid, serverVars>>

\* Each click has an Idempotency-Key of its own.
HoldSeats(w) ==
    /\ Shown /\ booking = None /\ selectedSeats # {}
    /\ Len(bookings) + Cardinality({v \in Wires : wire[v] # None /\ wire[v].kind = "hold"}) < MaxBookings
    /\ Send(w, Call("hold", [show |-> selectedShowtime, seats |-> selectedSeats]))
    /\ UNCHANGED <<pageVars, serverVars>>

ReleaseBooking(w) ==
    /\ ShownStatus \in {"held", "confirmed"}
    /\ Send(w, Call("release", booking.id))
    /\ UNCHANGED <<pageVars, serverVars>>

StartCheckout(w) ==
    /\ ShownStatus = "held" /\ payment = None
    /\ Len(bookings[booking.id].pays) < MaxPays
    /\ Send(w, Call("checkout", booking.id))
    /\ UNCHANGED <<pageVars, serverVars>>

SimulatePayment(w, outcome) ==
    /\ ShownStatus = "held" /\ payment # None
    /\ Send(w, Call(outcome, payment.id))
    /\ UNCHANGED <<pageVars, serverVars>>

Reset(w) ==
    /\ ShownStatus \notin {"none", "held"}
    /\ selectedSeats' = {}
    /\ Render(None, None, FALSE)
    /\ Send(w, Fetch(selectedShowtime))
    /\ UNCHANGED <<selectedShowtime, grid, serverVars>>

UpdateTimer(w) ==
    /\ ticking /\ panel /\ RunsOut(booking)
    /\ Render(booking, payment, ticking)
    /\ wire[w] = None /\ wire' = [wire EXCEPT ![w] = Fetch(selectedShowtime)]
    /\ UNCHANGED <<selectedShowtime, selectedSeats, grid, serverVars>>

PollOnce(w) ==
    /\ selectedShowtime # None /\ grid = None
    /\ Send(w, Fetch(selectedShowtime))
    /\ UNCHANGED <<pageVars, serverVars>>

Poll(w) ==
    /\ selectedShowtime # None
    /\ Send(w, Fetch(selectedShowtime))
    /\ UNCHANGED <<pageVars, serverVars>>

-----------------------------------------------------------------------------
(* Answers.                                                                  *)

Answered(w, kinds) == wire[w] # None /\ wire[w].kind \in kinds /\ wire[w].reply \notin {None, Failed}

Reply(w) == wire[w].reply

\* The handler makes another call in its turn, or none; a hold that has just run
\* out fetches the seats.
Then(w, call) ==
    wire' = [wire EXCEPT ![w] = IF expiredSaid' \notin {None, expiredSaid}
                                THEN Fetch(selectedShowtime) ELSE call]

\* Drawing the grid without a showtime fails.
GotSeats(w) ==
    /\ Answered(w, {"seats"})
    /\ grid' = IF selectedShowtime = None THEN None
               ELSE [of |-> wire[w].of, seats |-> Reply(w), clickable |-> booking = None]
    /\ wire' = [wire EXCEPT ![w] = None]
    /\ UNCHANGED <<selectedShowtime, selectedSeats, panelVars, serverVars>>

Held(w) ==
    /\ Answered(w, {"hold"})
    /\ selectedSeats' = {}
    /\ Render(Reply(w), None, TRUE)
    /\ Then(w, Fetch(selectedShowtime))
    /\ UNCHANGED <<selectedShowtime, grid, serverVars>>

Released(w) ==
    /\ Answered(w, {"release"})
    /\ Render(None, None, FALSE)
    /\ Then(w, Fetch(selectedShowtime))
    /\ UNCHANGED <<selectedShowtime, selectedSeats, grid, serverVars>>

CheckedOut(w) ==
    /\ Answered(w, {"checkout"})
    /\ Render(booking, Reply(w), ticking)
    /\ Then(w, None)
    /\ UNCHANGED <<selectedShowtime, selectedSeats, grid, serverVars>>

\* The booking is asked for again, by the id of whatever is the booking now; with
\* none that fails.
Simulated(w) ==
    /\ Answered(w, {"success", "failure"})
    /\ IF booking = None
       THEN Render(None, Reply(w), ticking) /\ Then(w, None)
       ELSE /\ payment' = Reply(w)
            /\ wire' = [wire EXCEPT ![w] = Call("get", booking.id)]
            /\ UNCHANGED <<booking, ticking, panel, expiredSaid>>
    /\ UNCHANGED <<selectedShowtime, selectedSeats, grid, serverVars>>

GotBooking(w) ==
    /\ Answered(w, {"get"})
    /\ Render(Reply(w), payment, ticking /\ Reply(w).status # "confirmed")
    /\ Then(w, Fetch(selectedShowtime))
    /\ UNCHANGED <<selectedShowtime, selectedSeats, grid, serverVars>>

\* catch: a message, except for the seats.
CallFailed(w) ==
    /\ wire[w] # None /\ wire[w].reply = Failed
    /\ IF wire[w].kind = "seats"
       THEN wire' = [wire EXCEPT ![w] = None] /\ UNCHANGED panelVars
       ELSE /\ Render(booking, payment, ticking)
            /\ Then(w, IF wire[w].kind = "hold" THEN Fetch(selectedShowtime) ELSE None)
    /\ UNCHANGED <<selectedShowtime, selectedSeats, grid, serverVars>>

-----------------------------------------------------------------------------
(* The server.                                                               *)

Lapsed(b) == bookings[b].status = "held" /\ now >= bookings[b].until
HoldsNow(b) == bookings[b].status \in {"held", "confirmed"} /\ ~Lapsed(b)

Mine(s) == UNION {bookings[b].seats : b \in {c \in DOMAIN bookings : bookings[c].show = s /\ HoldsNow(c)}}

\* SeatMap; what others hold and what they bought need no telling apart.
SeatMap(s) == [x \in Seats |-> IF <<s, x>> \in taken THEN "other"
                               ELSE IF x \in Mine(s) THEN "mine" ELSE "available"]

\* toBookingResponse of what Booking.Get reports; until is 0 for no expires_at.
Report(b) == [id |-> b, status |-> IF Lapsed(b) THEN "expired" ELSE bookings[b].status,
              until |-> bookings[b].until]

Answer(w, reply) == wire' = [wire EXCEPT ![w].reply = reply]

Asked(w, kind) == wire[w] # None /\ wire[w].kind = kind /\ wire[w].reply = None

End(b, s) == [bookings EXCEPT ![b].status = s, ![b].until = 0]

ReleaseLapsed(s) ==
    [b \in DOMAIN bookings |-> IF bookings[b].show = s /\ Lapsed(b) THEN End(b, "expired")[b]
                               ELSE bookings[b]]

ServeRead(w) ==
    /\ \/ Asked(w, "seats") /\ Answer(w, SeatMap(wire[w].of))
       \/ Asked(w, "get") /\ Answer(w, Report(wire[w].of))
    /\ UNCHANGED <<pageVars, serverVars>>

ServeHold(w) ==
    /\ Asked(w, "hold")
    /\ LET s == wire[w].of.show
           X == wire[w].of.seats
       IN  IF \E x \in X : <<s, x>> \in taken \/ x \in Mine(s)
           THEN Answer(w, Failed) /\ UNCHANGED bookings
           ELSE /\ bookings' = Append(ReleaseLapsed(s),
                                      [show |-> s, seats |-> X, status |-> "held",
                                       until |-> now + HoldTTL, pays |-> << >>])
                /\ Answer(w, [id |-> Len(bookings) + 1, status |-> "held", until |-> now + HoldTTL])
    /\ UNCHANGED <<pageVars, taken, now>>

OpenPays(b) == {i \in DOMAIN bookings[b].pays : bookings[b].pays[i] = "pending"}

ServeRelease(w) ==
    /\ Asked(w, "release")
    /\ LET b == wire[w].of IN
         IF bookings[b].status \in {"held", "confirmed"}
         THEN /\ bookings' = [End(b, "cancelled") EXCEPT
                                ![b].pays = [i \in DOMAIN @ |-> CASE @[i] = "pending" -> "cancelled"
                                                                  [] @[i] = "succeeded" -> "refunded"
                                                                  [] OTHER -> @[i]]]
              /\ Answer(w, "ok")
         ELSE Answer(w, Failed) /\ UNCHANGED bookings
    /\ UNCHANGED <<pageVars, taken, now>>

Later(t, u) == IF t < u THEN u ELSE t

ServeCheckout(w) ==
    /\ Asked(w, "checkout")
    /\ LET b == wire[w].of IN
         IF bookings[b].status # "held" \/ Lapsed(b)
         THEN Answer(w, Failed) /\ UNCHANGED bookings
         ELSE IF OpenPays(b) # {}
         THEN /\ \E i \in OpenPays(b) : Answer(w, [id |-> <<b, i>>, status |-> "pending"])
              /\ UNCHANGED bookings
         ELSE /\ bookings' = [bookings EXCEPT ![b].until = Later(@, now + PaymentWindow),
                                              ![b].pays = Append(@, "pending")]
              /\ Answer(w, [id |-> <<b, Len(bookings[b].pays) + 1>>, status |-> "pending"])
    /\ UNCHANGED <<pageVars, taken, now>>

\* SimulateProviderCallback: a payment that is already settled refuses a success.
ServeSimulate(w) ==
    /\ \E kind \in {"success", "failure"} :
         /\ Asked(w, kind)
         /\ LET b == wire[w].of[1]
                i == wire[w].of[2]
                Pays(s) == [bookings EXCEPT ![b].pays[i] = s]
                Says(s) == Answer(w, [id |-> <<b, i>>, status |-> s])
            IN  \/ /\ bookings[b].pays[i] = "pending" /\ kind = "failure"
                   /\ bookings' = Pays("failed") /\ Says("failed")
                \/ /\ bookings[b].pays[i] = "pending" /\ kind = "success"
                   /\ IF bookings[b].status = "held"
                      THEN /\ bookings' = [Pays("succeeded") EXCEPT ![b].status = "confirmed",
                                                                    ![b].until = 0]
                           /\ Says("succeeded")
                      ELSE bookings' = Pays("refunded") /\ Says("refunded")
                \/ /\ bookings[b].pays[i] # "pending"
                   /\ IF kind = "failure" \/ bookings[b].pays[i] = "succeeded"
                      THEN Says(bookings[b].pays[i])
                      ELSE Answer(w, Failed)
                   /\ UNCHANGED bookings
    /\ UNCHANGED <<pageVars, taken, now>>

\* The request or its answer is lost, or the server refuses it for a reason of
\* its own.
Lose(w) ==
    /\ wire[w] # None /\ wire[w].reply # Failed
    /\ Answer(w, Failed)
    /\ UNCHANGED <<pageVars, serverVars>>

OthersTake(s, x) ==
    /\ <<s, x>> \notin taken /\ x \notin Mine(s)
    /\ taken' = taken \cup {<<s, x>>}
    /\ bookings' = ReleaseLapsed(s)
    /\ UNCHANGED <<pageVars, wire, now>>

OthersLeave(s, x) ==
    /\ <<s, x>> \in taken
    /\ taken' = taken \ {<<s, x>>}
    /\ UNCHANGED <<pageVars, wire, bookings, now>>

Sweep(b) ==
    /\ Lapsed(b)
    /\ bookings' = End(b, "expired")
    /\ UNCHANGED <<pageVars, wire, taken, now>>

\* The clock is read once there is a booking.
Tick ==
    /\ now < MaxTime /\ bookings # << >>
    /\ now' = now + 1
    /\ UNCHANGED <<pageVars, wire, bookings, taken>>

-----------------------------------------------------------------------------
Init ==
    /\ selectedShowtime = None /\ selectedSeats = {}
    /\ booking = None /\ payment = None /\ ticking = FALSE /\ panel = FALSE /\ expiredSaid = None
    /\ grid = None
    /\ wire = [w \in Wires \cup PollWires |-> None]
    /\ bookings = << >> /\ taken = {} /\ now = 1

User(w) ==
    \/ \E s \in Showtimes : SelectShowtime(w, s)
    \/ \E x \in Seats : ToggleSeat(w, x)
    \/ HoldSeats(w) \/ ReleaseBooking(w) \/ StartCheckout(w) \/ Reset(w)
    \/ \E outcome \in {"success", "failure"} : SimulatePayment(w, outcome)

Receive(w) == \/ GotSeats(w) \/ Held(w) \/ Released(w) \/ CheckedOut(w) \/ Simulated(w)
              \/ GotBooking(w) \/ CallFailed(w)

Serve(w) == \/ ServeRead(w) \/ ServeHold(w) \/ ServeRelease(w) \/ ServeCheckout(w)
            \/ ServeSimulate(w)

Next ==
    \/ SelectMovie \/ Tick
    \/ \E w \in Wires : User(w)
    \/ \E w \in Wires \cup PollWires : UpdateTimer(w)
    \/ \E w \in PollWires : Poll(w)
    \/ \E w \in Wires \cup PollWires : Serve(w) \/ Receive(w) \/ Lose(w)
    \/ \E s \in Contested, x \in Seats : OthersTake(s, x) \/ OthersLeave(s, x)
    \/ \E b \in DOMAIN bookings : Sweep(b)

Spec == Init /\ [][Next]_vars

\* The interval fires, every call ends one way or another, and now and then a
\* poll reaches the server, and an answer the page ("a transient poll failure",
\* script.js:180).
FairSpec ==
    /\ Spec
    /\ \A w \in Wires \cup PollWires : WF_vars(Serve(w)) /\ WF_vars(Receive(w))
    /\ \A w \in PollWires : WF_vars(Poll(w)) /\ SF_vars(ServeRead(w)) /\ SF_vars(GotSeats(w))

-----------------------------------------------------------------------------
(* Properties.                                                               *)

BookingStatus == {"held", "confirmed", "cancelled", "expired"}
PayStatus == {"pending", "succeeded", "failed", "cancelled", "refunded"}

\* Every variable has its type; a deadline, in the tables and on the page, is that
\* of a hold.
TypeOK ==
    /\ selectedShowtime \in Showtimes \cup {None} /\ selectedSeats \subseteq Seats
    /\ \A b \in DOMAIN bookings :
         /\ bookings[b].show \in Showtimes /\ bookings[b].seats \subseteq Seats
         /\ bookings[b].status \in BookingStatus
         /\ (bookings[b].until # 0) <=> (bookings[b].status = "held")
         /\ bookings[b].pays \in Seq(PayStatus)
    /\ booking # None =>
         /\ booking.id \in DOMAIN bookings
         /\ booking.status \in BookingStatus
         /\ (booking.status \in {"confirmed", "cancelled"} => booking.until = 0)
    /\ payment = None \/ payment.status \in PayStatus
    /\ {ticking, panel} \subseteq BOOLEAN
    /\ expiredSaid = None \/ expiredSaid \in DOMAIN bookings
    /\ grid = None \/ grid.seats \in [Seats -> {"available", "mine", "other"}]
    /\ taken \subseteq Showtimes \X Seats /\ now \in 1 .. MaxTime

\* What the server holds for another second at least, or for good.
HoldsOn(b) ==
    /\ HoldsNow(b)
    /\ bookings[b].status = "held" => bookings[b].until - now >= Second

\* The countdown never gives up a booking for which no checkout was started while
\* the server holds its seats for a second more (script.js:499 rounds the seconds
\* left down), however late or out of order answers come.
CountdownIsHonest ==
    expiredSaid # None => (bookings[expiredSaid].pays = << >> => ~HoldsOn(expiredSaid))

\* "Other people's holds show up without a reload" (script.js:518): a seat that
\* somebody else keeps is drawn as such in the end on a page that stays with its
\* showtime, although polls fail and answers overtake each other.
GridCatchesUp ==
    \A s \in Showtimes, x \in Seats :
        <>[](selectedShowtime = s /\ <<s, x>> \in taken)
            => <>[](grid # None /\ grid.of = s /\ grid.seats[x] = "other")

\* "Hold expired" (script.js:507) is said of a booking whose seats are no longer
\* held: PAYMENT_WINDOW is "how long seats stay held during checkout"
\* (config.go:70).
HoldExpiredMeansExpired == expiredSaid # None => ~HoldsNow(expiredSaid)

\* "The user can retry payment until the hold lapses on its own" (usecase/payment.go:247):
\* while the booking shown is held and nothing is under way, Pay starts a payment
\* or Complete can still complete the one there is.
DeclinedCanRetry ==
    (ShownStatus = "held" /\ HoldsNow(booking.id) /\ \A w \in DOMAIN wire : wire[w] = None)
        => payment = None \/ payment.status \in {"pending", "succeeded"}
=============================================================================
