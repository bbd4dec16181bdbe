------------------------ MODULE BrowserClientProofs ------------------------
(***************************************************************************)
(* Proofs about BrowserClient: whatever overtakes what between the page and *)
(* the server, the countdown gives up no booking a second or more before    *)
(* the server does, unless a checkout has moved its deadline.               *)
(***************************************************************************)
EXTENDS BrowserClient, SequenceTheorems, TLAPS

-----------------------------------------------------------------------------
(* The inductive invariant.                                                  *)

AllWires == Wires \cup PollWires

Booking == [show   : Showtimes,
            seats  : SUBSET Seats,
            status : BookingStatus,
            until  : Nat,
            pays   : Seq(PayStatus)]

\* What a report says of a deadline is still so in the tables B, as long as the
\* booking is held and no checkout was started.
Faithful(B, r) ==
    /\ r.id \in DOMAIN B
    /\ (r.status = "held" /\ B[r.id].status = "held" /\ B[r.id].pays = << >>) =>
         r.until = B[r.id].until

\* A payment there is.
Refers(B, p) == p[1] \in DOMAIN B /\ p[2] \in DOMAIN B[p[1]].pays

\* A request the page has made, and the answer it may have.
Sound(B, c) ==
    /\ c = [kind |-> c.kind, of |-> c.of, reply |-> c.reply]
    /\ c.kind = "hold" => c.of.show \in Showtimes /\ c.of.seats \in SUBSET Seats
    /\ c.kind \in {"release", "checkout", "get"} => c.of \in DOMAIN B
    /\ c.kind \in {"success", "failure"} => Refers(B, c.of)
    /\ c.reply \notin {None, Failed} =>
         /\ c.kind \in {"hold", "get"} => Faithful(B, c.reply)
         /\ c.kind \in {"checkout", "success", "failure"} => Refers(B, c.reply.id)

WireInv ==
    /\ wire = [w \in AllWires |-> wire[w]]
    /\ \A w \in AllWires : wire[w] # None => Sound(bookings, wire[w])

\* Bookings are confirmed by payments.
ServerInv ==
    /\ bookings \in Seq(Booking) /\ now \in Nat
    /\ \A b \in DOMAIN bookings : bookings[b].status = "confirmed" => bookings[b].pays # << >>

PanelInv ==
    /\ booking # None => Faithful(bookings, booking)
    /\ payment # None => Refers(bookings, payment.id)
    /\ expiredSaid # None => expiredSaid \in DOMAIN bookings

ChoiceInv ==
    /\ selectedShowtime # None => selectedShowtime \in Showtimes
    /\ selectedSeats \in SUBSET Seats

IInv == ServerInv /\ ChoiceInv /\ PanelInv /\ WireInv /\ CountdownIsHonest

-----------------------------------------------------------------------------
(* Tables.                                                                   *)

\* The tables B have become C: what is there stays, what is held without a
\* checkout has kept its deadline, and only a payment confirms.
Advances(B, C) ==
    /\ DOMAIN B \subseteq DOMAIN C
    /\ \A b \in DOMAIN B :
         /\ DOMAIN B[b].pays \subseteq DOMAIN C[b].pays
         /\ C[b].pays = << >> =>
              /\ B[b].pays = << >>
              /\ C[b].status = "held" => B[b].status = "held" /\ B[b].until = C[b].until

\* Then what was true of them before still is.
LEMMA AdvanceKeeps ==
    ASSUME NEW B, NEW C, Advances(B, C)
    PROVE  /\ \A r : Faithful(B, r) => Faithful(C, r)
           /\ \A p : Refers(B, p) => Refers(C, p)
           /\ \A c : Sound(B, c) => Sound(C, c)
<1>1. \A r : Faithful(B, r) => Faithful(C, r)
  BY DEF Advances, Faithful
<1>2. \A p : Refers(B, p) => Refers(C, p)
  BY DEF Advances, Refers
<1>3. \A x : x \in DOMAIN B => x \in DOMAIN C
  BY DEF Advances
<1>4. \A c : Sound(B, c) => Sound(C, c)
  BY <1>1, <1>2, <1>3 DEF Sound
<1> QED BY <1>1, <1>2, <1>4

\* A table with as many rows.
LEMMA TableOf ==
    ASSUME NEW B \in Seq(Booking), NEW C, C = [c \in DOMAIN B |-> C[c]],
           \A c \in DOMAIN B : C[c] \in Booking
    PROVE  C \in Seq(Booking) /\ DOMAIN C = DOMAIN B
<1>1. Len(B) \in Nat /\ DOMAIN B = 1 .. Len(B)
  BY LenProperties
<1>2. C \in [1 .. Len(B) -> Booking]
  BY <1>1
<1> QED BY <1>1, <1>2

\* A table in which one row changes.
LEMMA RowChanges ==
    ASSUME NEW B \in Seq(Booking), NEW b \in DOMAIN B, NEW row \in Booking
    PROVE  LET C == [B EXCEPT ![b] = row]
           IN  /\ C \in Seq(Booking) /\ DOMAIN C = DOMAIN B
               /\ C[b] = row /\ \A c \in DOMAIN B \ {b} : C[c] = B[c]
<1> DEFINE C == [B EXCEPT ![b] = row]
<1>1. Len(B) \in Nat /\ DOMAIN B = 1 .. Len(B) /\ \A c \in DOMAIN B : B[c] \in Booking
  BY LenProperties, ElementOfSeq
<1>2. DOMAIN C = DOMAIN B /\ C[b] = row /\ \A c \in DOMAIN B \ {b} : C[c] = B[c]
  BY <1>1
<1>3. C = [c \in DOMAIN B |-> C[c]]
  BY <1>1
<1> HIDE DEF C
<1>4. \A c \in DOMAIN B : C[c] \in Booking
  BY <1>1, <1>2
<1>5. C \in Seq(Booking)
  BY <1>3, <1>4, TableOf
<1> QED BY <1>2, <1>5 DEF C

\* A row that is neither held nor confirmed any more, and keeps its payments.
LEMMA RowEnds ==
    ASSUME NEW row \in Booking, NEW s \in {"cancelled", "expired"}
    PROVE  LET over == [row EXCEPT !.status = s, !.until = 0]
           IN  /\ over \in Booking /\ over.status = s /\ over.until = 0
               /\ over.pays = row.pays
BY DEF Booking, BookingStatus

LEMMA EndEffect ==
    ASSUME bookings \in Seq(Booking), NEW b \in DOMAIN bookings,
           NEW s \in {"cancelled", "expired"}
    PROVE  /\ End(b, s) \in Seq(Booking) /\ DOMAIN End(b, s) = DOMAIN bookings
           /\ End(b, s)[b] \in Booking
           /\ End(b, s)[b].status = s /\ End(b, s)[b].until = 0
           /\ End(b, s)[b].pays = bookings[b].pays
           /\ \A c \in DOMAIN bookings \ {b} : End(b, s)[c] = bookings[c]
<1> DEFINE over == [bookings[b] EXCEPT !.status = s, !.until = 0]
<1>1. bookings[b] \in Booking
  BY LenProperties, ElementOfSeq
<1>2. /\ over \in Booking /\ over.status = s /\ over.until = 0
      /\ over.pays = bookings[b].pays
  BY <1>1, RowEnds
<1>3. End(b, s) = [bookings EXCEPT ![b] = over]
  BY <1>1 DEF End
<1> HIDE DEF over
<1> QED BY <1>2, <1>3, RowChanges

LEMMA ReleaseEffect ==
    ASSUME bookings \in Seq(Booking), NEW s
    PROVE  LET C == ReleaseLapsed(s)
           IN  /\ C \in Seq(Booking) /\ DOMAIN C = DOMAIN bookings
               /\ \A c \in DOMAIN bookings :
                    \/ C[c] = bookings[c]
                    \/ C[c].status = "expired" /\ C[c].pays = bookings[c].pays
<1> DEFINE C == ReleaseLapsed(s)
<1>1. C = [c \in DOMAIN bookings |-> C[c]]
  BY DEF ReleaseLapsed
<1>2. \A c \in DOMAIN bookings :
        \/ C[c] = bookings[c]
        \/ C[c] = End(c, "expired")[c]
  BY DEF ReleaseLapsed
<1>3. \A c \in DOMAIN bookings : bookings[c] \in Booking
  BY LenProperties, ElementOfSeq
<1> HIDE DEF C
<1>4. \A c \in DOMAIN bookings : C[c] \in Booking
  BY <1>2, <1>3, EndEffect
<1>5. C \in Seq(Booking) /\ DOMAIN C = DOMAIN bookings
  BY <1>1, <1>4, TableOf
<1>6. \A c \in DOMAIN bookings :
        \/ C[c] = bookings[c]
        \/ C[c].status = "expired" /\ C[c].pays = bookings[c].pays
  BY <1>2, EndEffect
<1> QED BY <1>5, <1>6 DEF C

-----------------------------------------------------------------------------
(* The page.                                                                 *)

\* What goes out, or comes in its place, is sound.
LEMMA WirePut ==
    ASSUME WireInv, NEW w \in AllWires, NEW c, wire' = [wire EXCEPT ![w] = c],
           c # None => Sound(bookings, c), bookings' = bookings
    PROVE  WireInv'
<1>1. wire' = [v \in AllWires |-> IF v = w THEN c ELSE wire[v]]
  BY DEF WireInv
<1>2. wire' = [v \in AllWires |-> wire'[v]]
  BY <1>1
<1>3. \A v \in AllWires : wire'[v] # None => Sound(bookings', wire'[v])
  BY <1>1 DEF WireInv
<1> QED BY <1>2, <1>3 DEF WireInv

LEMMA CallIsSound ==
    /\ \A s : Fetch(s) # None => Sound(bookings, Fetch(s))
    /\ \A o : o.show \in Showtimes /\ o.seats \in SUBSET Seats =>
                Sound(bookings, Call("hold", o))
    /\ \A b \in DOMAIN bookings :
         /\ Sound(bookings, Call("release", b)) /\ Sound(bookings, Call("checkout", b))
         /\ Sound(bookings, Call("get", b))
    /\ \A p : Refers(bookings, p) =>
                Sound(bookings, Call("success", p)) /\ Sound(bookings, Call("failure", p))
BY DEF Sound, Call, Fetch

\* Drawing the panel gives up only a booking the server gives up within a second, or
\* one whose deadline has moved.
LEMMA RenderKeeps ==
    ASSUME IInv, NEW b, NEW p, NEW t, Render(b, p, t),
           b # None => Faithful(bookings, b),
           p # None => Refers(bookings, p.id),
           UNCHANGED <<bookings, now>>
    PROVE  PanelInv' /\ CountdownIsHonest'
<1>1. CASE RunsOut(b)
  <2>1. /\ booking' = None /\ payment' = None /\ expiredSaid' = b.id
        /\ Faithful(bookings, b) /\ b.status = "held" /\ b.until - now < Second
    BY <1>1 DEF Render, RunsOut
  <2>2. bookings[b.id].pays = << >> => ~HoldsOn(b.id)
    <3> SUFFICES ASSUME bookings[b.id].pays = << >>, HoldsOn(b.id) PROVE FALSE
      OBVIOUS
    <3>1. bookings[b.id].status = "held"
      BY <2>1 DEF HoldsOn, HoldsNow, Faithful, IInv, ServerInv
    <3>2. bookings[b.id].until - now < Second
      BY <2>1, <3>1 DEF Faithful
    <3>3. bookings[b.id].until \in Nat /\ now \in Nat /\ Second \in Nat
      <4>1. b.id \in DOMAIN bookings /\ bookings \in Seq(Booking) /\ now \in Nat
        BY <2>1 DEF Faithful, IInv, ServerInv
      <4>2. bookings[b.id] \in Booking
        BY <4>1, LenProperties, ElementOfSeq
      <4> QED BY <4>1, <4>2, WindowAssumption DEF Booking
    <3> QED BY <3>1, <3>2, <3>3 DEF HoldsOn
  <2> QED BY <2>1, <2>2 DEF PanelInv, CountdownIsHonest, Faithful, HoldsOn, HoldsNow, Lapsed
<1>2. CASE ~RunsOut(b)
  BY <1>2 DEF Render, PanelInv, CountdownIsHonest
<1> QED BY <1>1, <1>2

\* What a step of the page alone has to show.
LEMMA PagePreserves ==
    ASSUME IInv, UNCHANGED serverVars, ChoiceInv', PanelInv', CountdownIsHonest', WireInv'
    PROVE  IInv'
BY DEF IInv, ServerInv, serverVars

LEMMA PanelKept ==
    ASSUME IInv, UNCHANGED <<booking, payment, expiredSaid, bookings, now>>
    PROVE  PanelInv' /\ CountdownIsHonest'
BY DEF IInv, PanelInv, CountdownIsHonest, HoldsOn, HoldsNow, Lapsed

\* The user clicks.
LEMMA UserPreserves ==
    ASSUME IInv, NEW w \in AllWires, User(w)
    PROVE  IInv'
<1> USE DEF IInv
<1>1. ASSUME NEW s \in Showtimes, SelectShowtime(w, s) PROVE IInv'
  <2>1. /\ selectedShowtime' = s /\ selectedSeats' = {} /\ Render(None, None, FALSE)
        /\ wire' = [wire EXCEPT ![w] = Fetch(s)] /\ UNCHANGED serverVars
    BY <1>1 DEF SelectShowtime, Send
  <2>2. PanelInv' /\ CountdownIsHonest'
    BY <2>1, RenderKeeps DEF serverVars
  <2>3. WireInv'
    BY <2>1, WirePut, CallIsSound DEF serverVars
  <2>4. ChoiceInv'
    BY <2>1 DEF ChoiceInv
  <2> QED BY <2>1, <2>2, <2>3, <2>4, PagePreserves
<1>2. ASSUME NEW x \in Seats, ToggleSeat(w, x) PROVE IInv'
  <2>1. /\ UNCHANGED selectedShowtime
        /\ selectedSeats' \in {selectedSeats \ {x}, selectedSeats \cup {x}}
        /\ Render(booking, payment, ticking)
        /\ wire' = [wire EXCEPT ![w] = Fetch(selectedShowtime)] /\ UNCHANGED serverVars
    BY <1>2 DEF ToggleSeat, Send
  <2>2. PanelInv' /\ CountdownIsHonest'
    BY <2>1, RenderKeeps DEF serverVars, PanelInv
  <2>3. WireInv'
    BY <2>1, WirePut, CallIsSound DEF serverVars
  <2>4. ChoiceInv'
    BY <2>1 DEF ChoiceInv
  <2> QED BY <2>1, <2>2, <2>3, <2>4, PagePreserves
<1>3. ASSUME Reset(w) PROVE IInv'
  <2>1. /\ UNCHANGED selectedShowtime /\ selectedSeats' = {} /\ Render(None, None, FALSE)
        /\ wire' = [wire EXCEPT ![w] = Fetch(selectedShowtime)] /\ UNCHANGED serverVars
    BY <1>3 DEF Reset, Send
  <2>2. PanelInv' /\ CountdownIsHonest'
    BY <2>1, RenderKeeps DEF serverVars
  <2>3. WireInv'
    BY <2>1, WirePut, CallIsSound DEF serverVars
  <2>4. ChoiceInv'
    BY <2>1 DEF ChoiceInv
  <2> QED BY <2>1, <2>2, <2>3, <2>4, PagePreserves
<1>4. ASSUME \/ HoldSeats(w) \/ ReleaseBooking(w) \/ StartCheckout(w)
             \/ \E outcome \in {"success", "failure"} : SimulatePayment(w, outcome)
      PROVE  IInv'
  <2>1. UNCHANGED <<pageVars, serverVars>>
    BY <1>4 DEF HoldSeats, ReleaseBooking, StartCheckout, SimulatePayment
  <2>2. \E c : wire' = [wire EXCEPT ![w] = c] /\ Sound(bookings, c)
    <3>1. CASE HoldSeats(w)
      <4> DEFINE o == [show |-> selectedShowtime, seats |-> selectedSeats]
      <4>1. o.show \in Showtimes /\ o.seats \in SUBSET Seats
        BY <3>1 DEF HoldSeats, Shown, ChoiceInv
      <4> QED BY <3>1, <4>1, CallIsSound DEF HoldSeats, Send
    <3>2. CASE ReleaseBooking(w)
      <4>1. booking.id \in DOMAIN bookings
        BY <3>2 DEF ReleaseBooking, ShownStatus, PanelInv, Faithful
      <4> QED BY <3>2, <4>1, CallIsSound DEF ReleaseBooking, Send
    <3>3. CASE StartCheckout(w)
      <4>1. booking.id \in DOMAIN bookings
        BY <3>3 DEF StartCheckout, ShownStatus, PanelInv, Faithful
      <4> QED BY <3>3, <4>1, CallIsSound DEF StartCheckout, Send
    <3>4. ASSUME NEW outcome \in {"success", "failure"}, SimulatePayment(w, outcome)
          PROVE  \E c : wire' = [wire EXCEPT ![w] = c] /\ Sound(bookings, c)
      <4>1. Refers(bookings, payment.id)
        BY <3>4 DEF SimulatePayment, PanelInv
      <4> QED BY <3>4, <4>1, CallIsSound DEF SimulatePayment, Send
    <3> QED BY <1>4, <3>1, <3>2, <3>3, <3>4
  <2>3. WireInv'
    BY <2>1, <2>2, WirePut DEF serverVars
  <2>4. PanelInv' /\ CountdownIsHonest'
    BY <2>1, PanelKept DEF pageVars, panelVars, serverVars
  <2>5. ChoiceInv'
    BY <2>1 DEF ChoiceInv, pageVars
  <2> QED BY <2>1, <2>3, <2>4, <2>5, PagePreserves
<1> QED BY <1>1, <1>2, <1>3, <1>4 DEF User

\* The intervals fire, and the user goes back to the movies.
LEMMA TimersPreserve ==
    ASSUME IInv, SelectMovie \/ \E w \in AllWires : UpdateTimer(w) \/ Poll(w)
    PROVE  IInv'
<1> USE DEF IInv
<1>1. ASSUME SelectMovie PROVE IInv'
  <2>1. ChoiceInv' /\ PanelInv' /\ CountdownIsHonest' /\ WireInv'
    BY <1>1, PanelKept DEF SelectMovie, ChoiceInv, WireInv, serverVars
  <2> QED BY <1>1, <2>1, PagePreserves DEF SelectMovie
<1>2. ASSUME NEW w \in AllWires, UpdateTimer(w) PROVE IInv'
  <2>1. /\ UNCHANGED <<selectedShowtime, selectedSeats, serverVars>>
        /\ Render(booking, payment, ticking)
        /\ wire' = [wire EXCEPT ![w] = Fetch(selectedShowtime)]
    BY <1>2 DEF UpdateTimer
  <2>2. PanelInv' /\ CountdownIsHonest'
    BY <2>1, RenderKeeps DEF serverVars, PanelInv
  <2>3. WireInv'
    BY <2>1, WirePut, CallIsSound DEF serverVars
  <2>4. ChoiceInv'
    BY <2>1 DEF ChoiceInv
  <2> QED BY <2>1, <2>2, <2>3, <2>4, PagePreserves
<1>3. ASSUME NEW w \in AllWires, Poll(w) PROVE IInv'
  <2>1. UNCHANGED <<pageVars, serverVars>> /\ wire' = [wire EXCEPT ![w] = Fetch(selectedShowtime)]
    BY <1>3 DEF Poll, Send
  <2>2. WireInv'
    BY <2>1, WirePut, CallIsSound DEF serverVars
  <2>3. ChoiceInv' /\ PanelInv' /\ CountdownIsHonest'
    BY <2>1, PanelKept DEF ChoiceInv, pageVars, panelVars, serverVars
  <2> QED BY <2>1, <2>2, <2>3, PagePreserves
<1> QED BY <1>1, <1>2, <1>3

\* Answers come in, in any order.
LEMMA ReceivePreserves ==
    ASSUME IInv, NEW w \in AllWires, Receive(w)
    PROVE  IInv'
<1> USE DEF IInv
<1>1. wire[w] # None => Sound(bookings, wire[w])
  BY DEF WireInv
<1>2. \A kinds : Answered(w, kinds) =>
        /\ wire[w].kind \in kinds
        /\ wire[w].kind \in {"hold", "get"} => Faithful(bookings, Reply(w))
        /\ wire[w].kind \in {"checkout", "success", "failure"} => Refers(bookings, Reply(w).id)
  BY <1>1 DEF Answered, Reply, Sound
<1>3. ASSUME GotSeats(w) PROVE IInv'
  <2>1. /\ UNCHANGED <<selectedShowtime, selectedSeats, panelVars, serverVars>>
        /\ wire' = [wire EXCEPT ![w] = None]
    BY <1>3 DEF GotSeats
  <2>2. WireInv'
    BY <2>1, WirePut DEF serverVars
  <2>3. ChoiceInv' /\ PanelInv' /\ CountdownIsHonest'
    BY <2>1, PanelKept DEF ChoiceInv, panelVars, serverVars
  <2> QED BY <2>1, <2>2, <2>3, PagePreserves
<1>4. ASSUME NEW c, Then(w, c), c # None => Sound(bookings, c), bookings' = bookings
      PROVE  WireInv'
  BY <1>4, WirePut, CallIsSound DEF Then
<1>5. ASSUME Held(w) PROVE IInv'
  <2>1. /\ UNCHANGED <<selectedShowtime, serverVars>> /\ selectedSeats' = {}
        /\ Render(Reply(w), None, TRUE) /\ Then(w, Fetch(selectedShowtime))
        /\ Faithful(bookings, Reply(w))
    BY <1>2, <1>5 DEF Held
  <2>2. PanelInv' /\ CountdownIsHonest'
    BY <2>1, RenderKeeps DEF serverVars
  <2>3. WireInv'
    BY <1>4, <2>1, CallIsSound DEF serverVars
  <2>4. ChoiceInv'
    BY <2>1 DEF ChoiceInv
  <2> QED BY <2>1, <2>2, <2>3, <2>4, PagePreserves
<1>6. ASSUME Released(w) PROVE IInv'
  <2>1. /\ UNCHANGED <<selectedShowtime, selectedSeats, serverVars>>
        /\ Render(None, None, FALSE) /\ Then(w, Fetch(selectedShowtime))
    BY <1>6 DEF Released
  <2>2. PanelInv' /\ CountdownIsHonest'
    BY <2>1, RenderKeeps DEF serverVars
  <2>3. WireInv'
    BY <1>4, <2>1, CallIsSound DEF serverVars
  <2>4. ChoiceInv'
    BY <2>1 DEF ChoiceInv
  <2> QED BY <2>1, <2>2, <2>3, <2>4, PagePreserves
<1>7. ASSUME CheckedOut(w) PROVE IInv'
  <2>1. /\ UNCHANGED <<selectedShowtime, selectedSeats, serverVars>>
        /\ Render(booking, Reply(w), ticking) /\ Then(w, None)
        /\ Refers(bookings, Reply(w).id)
    BY <1>2, <1>7 DEF CheckedOut
  <2>2. PanelInv' /\ CountdownIsHonest'
    BY <2>1, RenderKeeps DEF serverVars, PanelInv
  <2>3. WireInv'
    BY <1>4, <2>1 DEF serverVars
  <2>4. ChoiceInv'
    BY <2>1 DEF ChoiceInv
  <2> QED BY <2>1, <2>2, <2>3, <2>4, PagePreserves
<1>8. ASSUME Simulated(w) PROVE IInv'
  <2>1. /\ UNCHANGED <<selectedShowtime, selectedSeats, serverVars>>
        /\ Refers(bookings, Reply(w).id)
    BY <1>2, <1>8 DEF Simulated
  <2>2. CASE booking = None
    <3>1. Render(None, Reply(w), ticking) /\ Then(w, None)
      BY <1>8, <2>2 DEF Simulated
    <3>2. PanelInv' /\ CountdownIsHonest'
      BY <2>1, <3>1, RenderKeeps DEF serverVars
    <3>3. WireInv'
      BY <1>4, <2>1, <3>1 DEF serverVars
    <3>4. ChoiceInv'
      BY <2>1 DEF ChoiceInv
    <3> QED BY <2>1, <3>2, <3>3, <3>4, PagePreserves
  <2>3. CASE booking # None
    <3>1. /\ payment' = Reply(w) /\ wire' = [wire EXCEPT ![w] = Call("get", booking.id)]
          /\ UNCHANGED <<booking, expiredSaid>>
      BY <1>8, <2>3 DEF Simulated
    <3>2. booking.id \in DOMAIN bookings
      BY <2>3 DEF PanelInv, Faithful
    <3>3. WireInv'
      BY <2>1, <3>1, <3>2, WirePut, CallIsSound DEF serverVars
    <3>4. ChoiceInv' /\ PanelInv' /\ CountdownIsHonest'
      BY <2>1, <3>1
         DEF ChoiceInv, PanelInv, CountdownIsHonest, HoldsOn, HoldsNow, Lapsed, serverVars
    <3> QED BY <2>1, <3>3, <3>4, PagePreserves
  <2> QED BY <2>2, <2>3
<1>9. ASSUME GotBooking(w) PROVE IInv'
  <2>1. /\ UNCHANGED <<selectedShowtime, selectedSeats, serverVars>>
        /\ Render(Reply(w), payment, ticking /\ Reply(w).status # "confirmed")
        /\ Then(w, Fetch(selectedShowtime)) /\ Faithful(bookings, Reply(w))
    BY <1>2, <1>9 DEF GotBooking
  <2>2. PanelInv' /\ CountdownIsHonest'
    BY <2>1, RenderKeeps DEF serverVars, PanelInv
  <2>3. WireInv'
    BY <1>4, <2>1, CallIsSound DEF serverVars
  <2>4. ChoiceInv'
    BY <2>1 DEF ChoiceInv
  <2> QED BY <2>1, <2>2, <2>3, <2>4, PagePreserves
<1>10. ASSUME CallFailed(w) PROVE IInv'
  <2>1. /\ UNCHANGED <<selectedShowtime, selectedSeats, serverVars>>
        /\ \/ wire' = [wire EXCEPT ![w] = None] /\ UNCHANGED panelVars
           \/ Render(booking, payment, ticking) /\ Then(w, Fetch(selectedShowtime))
           \/ Render(booking, payment, ticking) /\ Then(w, None)
    BY <1>10 DEF CallFailed
  <2>2. PanelInv' /\ CountdownIsHonest'
    BY <2>1, RenderKeeps, PanelKept DEF serverVars, panelVars, PanelInv
  <2>3. WireInv'
    BY <1>4, <2>1, WirePut, CallIsSound DEF serverVars
  <2>4. ChoiceInv'
    BY <2>1 DEF ChoiceInv
  <2> QED BY <2>1, <2>2, <2>3, <2>4, PagePreserves
<1> QED BY <1>3, <1>5, <1>6, <1>7, <1>8, <1>9, <1>10 DEF Receive

-----------------------------------------------------------------------------
(* The server.                                                               *)

\* An answer that is true of the tables as they are then is sound.
LEMMA AnswerKeeps ==
    ASSUME IInv, NEW w \in AllWires, wire[w] # None, NEW reply, Answer(w, reply),
           Advances(bookings, bookings'),
           reply \notin {None, Failed} =>
             /\ wire[w].kind \in {"hold", "get"} => Faithful(bookings', reply)
             /\ wire[w].kind \in {"checkout", "success", "failure"} => Refers(bookings', reply.id)
    PROVE  WireInv'
<1> DEFINE c == [wire[w] EXCEPT !.reply = reply]
<1>1. Sound(bookings', wire[w])
  BY AdvanceKeeps DEF IInv, WireInv
<1>2. /\ c.kind = wire[w].kind /\ c.of = wire[w].of /\ c.reply = reply
      /\ c = [kind |-> c.kind, of |-> c.of, reply |-> c.reply]
  BY <1>1 DEF Sound
<1>3. wire' = [v \in AllWires |-> IF v = w THEN c ELSE wire[v]]
  BY DEF Answer, IInv, WireInv
<1> HIDE DEF c
<1>4. Sound(bookings', c)
  BY <1>1, <1>2 DEF Sound
<1>5. \A v \in AllWires : wire[v] # None => Sound(bookings', wire[v])
  BY AdvanceKeeps DEF IInv, WireInv
<1>6. wire' = [v \in AllWires |-> wire'[v]]
  BY <1>3
<1> QED BY <1>3, <1>4, <1>5, <1>6 DEF WireInv

\* What a step of the server has to show.
LEMMA ServerPreserves ==
    ASSUME IInv, UNCHANGED <<pageVars, now>>,
           bookings' \in Seq(Booking), Advances(bookings, bookings'),
           \A b \in DOMAIN bookings' :
             bookings'[b].status = "confirmed" => bookings'[b].pays # << >>,
           WireInv'
    PROVE  IInv'
<1> USE DEF IInv
<1>1. ServerInv' /\ ChoiceInv'
  BY DEF ServerInv, ChoiceInv, pageVars
<1>2. PanelInv'
  <2>1. DOMAIN bookings \subseteq DOMAIN bookings'
    BY DEF Advances
  <2> QED BY <2>1, AdvanceKeeps DEF PanelInv, pageVars, panelVars
<1>3. CountdownIsHonest'
  <2> SUFFICES ASSUME expiredSaid # None, bookings'[expiredSaid].pays = << >>,
                      HoldsOn(expiredSaid)'
               PROVE  FALSE
    BY DEF CountdownIsHonest, pageVars, panelVars
  <2>1. expiredSaid \in DOMAIN bookings /\ expiredSaid' = expiredSaid /\ now' = now
    BY DEF PanelInv, pageVars, panelVars
  <2>2. /\ bookings'[expiredSaid].status = "held" /\ ~(now >= bookings'[expiredSaid].until)
        /\ bookings'[expiredSaid].until - now >= Second
    BY <2>1 DEF HoldsOn, HoldsNow, Lapsed, Advances
  <2>3. /\ bookings[expiredSaid].pays = << >> /\ bookings[expiredSaid].status = "held"
        /\ bookings[expiredSaid].until = bookings'[expiredSaid].until
    BY <2>1, <2>2 DEF Advances
  <2> QED BY <2>2, <2>3 DEF CountdownIsHonest, HoldsOn, HoldsNow, Lapsed
<1> QED BY <1>1, <1>2, <1>3

\* Nothing is written.
LEMMA NothingAdvances == Advances(bookings, bookings)
BY DEF Advances

LEMMA ReadPreserves ==
    ASSUME IInv, NEW w \in AllWires, ServeRead(w) \/ Lose(w)
    PROVE  IInv'
<1> USE DEF IInv
<1>1. UNCHANGED <<pageVars, serverVars>> /\ wire[w] # None
  BY DEF ServeRead, Lose, Asked
<1>2. Advances(bookings, bookings')
  BY <1>1, NothingAdvances DEF serverVars
<1>3. WireInv'
  <2>1. CASE Lose(w)
    BY <1>1, <1>2, <2>1, AnswerKeeps DEF Lose
  <2>2. CASE Asked(w, "seats") /\ Answer(w, SeatMap(wire[w].of))
    BY <1>1, <1>2, <2>2, AnswerKeeps DEF Asked
  <2>3. CASE Asked(w, "get") /\ Answer(w, Report(wire[w].of))
    <3>1. wire[w].of \in DOMAIN bookings
      BY <2>3 DEF Asked, WireInv, Sound
    <3>2. Faithful(bookings', Report(wire[w].of))
      BY <1>1, <3>1 DEF Faithful, Report, serverVars
    <3> QED BY <1>1, <1>2, <2>3, <3>2, AnswerKeeps DEF Asked
  <2> QED BY <2>1, <2>2, <2>3 DEF ServeRead
<1> QED BY <1>1, <1>2, <1>3, ServerPreserves DEF ServerInv, serverVars

\* Holds that have lapsed go, and a booking is added.
LEMMA HoldPreserves ==
    ASSUME IInv, NEW w \in AllWires, ServeHold(w)
    PROVE  IInv'
<1> USE DEF IInv
<1> DEFINE s == wire[w].of.show
           X == wire[w].of.seats
           row == [show |-> s, seats |-> X, status |-> "held", until |-> now + HoldTTL,
                   pays |-> << >>]
           reply == [id |-> Len(bookings) + 1, status |-> "held", until |-> now + HoldTTL]
           R == ReleaseLapsed(s)
<1>1. /\ UNCHANGED <<pageVars, now>> /\ wire[w] # None /\ wire[w].kind = "hold"
      /\ \/ Answer(w, Failed) /\ bookings' = bookings
         \/ Answer(w, reply) /\ bookings' = Append(R, row)
  BY DEF ServeHold, Asked
<1>2. s \in Showtimes /\ X \in SUBSET Seats
  BY <1>1 DEF WireInv, Sound
<1>3. row \in Booking /\ row.status = "held" /\ row.until = now + HoldTTL
  BY <1>2, WindowAssumption DEF Booking, BookingStatus, ServerInv
<1>4. /\ R \in Seq(Booking) /\ DOMAIN R = DOMAIN bookings
      /\ \A c \in DOMAIN bookings :
           \/ R[c] = bookings[c]
           \/ R[c].status = "expired" /\ R[c].pays = bookings[c].pays
  BY ReleaseEffect DEF ServerInv
<1>5. CASE Answer(w, Failed) /\ bookings' = bookings
  <2>1. Advances(bookings, bookings')
    BY <1>5, NothingAdvances
  <2>2. WireInv'
    BY <1>1, <1>5, <2>1, AnswerKeeps
  <2> QED BY <1>1, <1>5, <2>1, <2>2, ServerPreserves DEF ServerInv
<1>6. CASE Answer(w, reply) /\ bookings' = Append(R, row)
  <2> HIDE DEF row, R, reply
  <2>1. /\ Len(R) = Len(bookings) /\ Len(R) \in Nat
        /\ DOMAIN R = 1 .. Len(R)
    BY <1>4, LenProperties DEF ServerInv
  <2>2. /\ bookings' \in Seq(Booking)
        /\ DOMAIN bookings' = 1 .. Len(R) + 1
        /\ \A c \in 1 .. Len(R) : bookings'[c] = R[c]
        /\ bookings'[Len(R) + 1] = row
    BY <1>3, <1>4, <1>6, <2>1, AppendProperties, LenProperties
  <2>3. \A c \in DOMAIN bookings' : c \in DOMAIN bookings \/ c = Len(R) + 1
    BY <1>4, <2>1, <2>2
  <2>4. Advances(bookings, bookings')
    BY <1>4, <2>1, <2>2 DEF Advances
  <2>5. \A b \in DOMAIN bookings' :
          bookings'[b].status = "confirmed" => bookings'[b].pays # << >>
    BY <1>3, <1>4, <2>1, <2>2, <2>3 DEF ServerInv
  <2>6. Faithful(bookings', reply)
    <3>1. reply.id = Len(R) + 1 /\ reply.until = now + HoldTTL
      BY <2>1 DEF reply
    <3>2. reply.id \in DOMAIN bookings'
      BY <2>1, <2>2, <3>1
    <3> QED BY <1>3, <2>2, <3>1, <3>2 DEF Faithful
  <2>7. WireInv'
    BY <1>1, <1>6, <2>4, <2>6, AnswerKeeps
  <2> QED BY <1>1, <2>2, <2>4, <2>5, <2>7, ServerPreserves
<1> QED BY <1>1, <1>5, <1>6

\* A row whose payments change, one for one.
LEMMA PaysChange ==
    ASSUME NEW pays \in Seq(PayStatus), NEW F, F = [i \in DOMAIN pays |-> F[i]],
           \A i \in DOMAIN pays : F[i] \in PayStatus
    PROVE  /\ F \in Seq(PayStatus) /\ DOMAIN F = DOMAIN pays
           /\ F = << >> <=> pays = << >>
<1>1. Len(pays) \in Nat /\ DOMAIN pays = 1 .. Len(pays)
  BY LenProperties
<1>2. F \in [1 .. Len(pays) -> PayStatus]
  BY <1>1
<1>3. F \in Seq(PayStatus) /\ DOMAIN F = DOMAIN pays /\ Len(F) = Len(pays)
  BY <1>1, <1>2
<1> QED BY <1>3, EmptySeq

\* The booking and its seats are given back, its payments with it.
LEMMA ReleasePreserves ==
    ASSUME IInv, NEW w \in AllWires, ServeRelease(w)
    PROVE  IInv'
<1> USE DEF IInv
<1> DEFINE b == wire[w].of
           D == End(b, "cancelled")
           F == [i \in DOMAIN D[b].pays |->
                   CASE D[b].pays[i] = "pending" -> "cancelled"
                     [] D[b].pays[i] = "succeeded" -> "refunded"
                     [] OTHER -> D[b].pays[i]]
           row == [D[b] EXCEPT !.pays = F]
<1>1. /\ UNCHANGED <<pageVars, now>> /\ wire[w] # None /\ wire[w].kind = "release"
      /\ \/ Answer(w, Failed) /\ bookings' = bookings
         \/ Answer(w, "ok") /\ bookings' = [D EXCEPT ![b] = row]
  BY DEF ServeRelease, Asked
<1>2. b \in DOMAIN bookings
  BY <1>1 DEF WireInv, Sound
<1>3. /\ D \in Seq(Booking) /\ DOMAIN D = DOMAIN bookings
      /\ D[b] \in Booking /\ D[b].status = "cancelled"
      /\ D[b].pays = bookings[b].pays
      /\ \A c \in DOMAIN bookings \ {b} : D[c] = bookings[c]
  BY <1>2, EndEffect DEF ServerInv
<1>4. CASE Answer(w, Failed) /\ bookings' = bookings
  <2>1. Advances(bookings, bookings')
    BY <1>4, NothingAdvances
  <2>2. WireInv'
    BY <1>1, <1>4, <2>1, AnswerKeeps
  <2> QED BY <1>1, <1>4, <2>1, <2>2, ServerPreserves DEF ServerInv
<1>5. CASE Answer(w, "ok") /\ bookings' = [D EXCEPT ![b] = row]
  <2>1. D[b].pays \in Seq(PayStatus)
    BY <1>3 DEF Booking
  <2>2. \A i \in DOMAIN D[b].pays : F[i] \in PayStatus
    BY <2>1 DEF PayStatus
  <2>3. /\ F \in Seq(PayStatus) /\ DOMAIN F = DOMAIN bookings[b].pays
        /\ F = << >> <=> bookings[b].pays = << >>
    <3>1. F = [i \in DOMAIN D[b].pays |-> F[i]]
      OBVIOUS
    <3> HIDE DEF F, D
    <3> QED BY <1>3, <2>1, <2>2, <3>1, PaysChange
  <2> HIDE DEF F
  <2>4. row \in Booking /\ row.status = "cancelled" /\ row.pays = F
    BY <1>3, <2>3 DEF Booking
  <2> HIDE DEF row, D
  <2>5. /\ bookings' \in Seq(Booking) /\ DOMAIN bookings' = DOMAIN bookings
        /\ bookings'[b] = row
        /\ \A c \in DOMAIN bookings \ {b} : bookings'[c] = bookings[c]
    BY <1>2, <1>3, <1>5, <2>4, RowChanges
  <2>6. Advances(bookings, bookings')
    BY <2>3, <2>4, <2>5 DEF Advances
  <2>7. \A c \in DOMAIN bookings' :
          bookings'[c].status = "confirmed" => bookings'[c].pays # << >>
    BY <2>4, <2>5 DEF ServerInv
  <2>8. WireInv'
    BY <1>1, <1>5, <2>6, AnswerKeeps
  <2> QED BY <1>1, <2>5, <2>6, <2>7, <2>8, ServerPreserves
<1> QED BY <1>1, <1>4, <1>5

\* A booking that is still held gets a payment, and time for it.
LEMMA CheckoutPreserves ==
    ASSUME IInv, NEW w \in AllWires, ServeCheckout(w)
    PROVE  IInv'
<1> USE DEF IInv
<1> DEFINE b == wire[w].of
           old == bookings[b]
           row == [old EXCEPT !.until = Later(old.until, now + PaymentWindow),
                              !.pays = Append(old.pays, "pending")]
           new == [id |-> <<b, Len(old.pays) + 1>>, status |-> "pending"]
<1>1. UNCHANGED <<pageVars, now>> /\ wire[w] # None /\ wire[w].kind = "checkout"
  BY DEF ServeCheckout, Asked
<1>2. b \in DOMAIN bookings
  BY <1>1 DEF WireInv, Sound
<1>3. /\ old \in Booking
      /\ old.pays \in Seq(PayStatus) /\ Len(old.pays) \in Nat
      /\ DOMAIN old.pays = 1 .. Len(old.pays)
  <2>1. old \in Booking
    BY <1>2, LenProperties, ElementOfSeq DEF ServerInv
  <2> QED BY <2>1, LenProperties DEF Booking
<1>4. \/ Answer(w, Failed) /\ bookings' = bookings
      \/ \E i \in OpenPays(b) :
           Answer(w, [id |-> <<b, i>>, status |-> "pending"]) /\ bookings' = bookings
      \/ /\ old.status = "held" /\ ~Lapsed(b)
         /\ Answer(w, new) /\ bookings' = [bookings EXCEPT ![b] = row]
  <2>1. [bookings EXCEPT ![b].until = Later(@, now + PaymentWindow),
                         ![b].pays = Append(@, "pending")] = [bookings EXCEPT ![b] = row]
    BY <1>2, <1>3 DEF Booking, ServerInv
  <2> HIDE DEF row
  <2> QED BY <2>1 DEF ServeCheckout
<1>5. CASE Answer(w, Failed) /\ bookings' = bookings
  <2>1. Advances(bookings, bookings')
    BY <1>5, NothingAdvances
  <2>2. WireInv'
    BY <1>1, <1>5, <2>1, AnswerKeeps
  <2> QED BY <1>1, <1>5, <2>1, <2>2, ServerPreserves DEF ServerInv
<1>6. ASSUME NEW i \in OpenPays(b), Answer(w, [id |-> <<b, i>>, status |-> "pending"]),
             bookings' = bookings
      PROVE  IInv'
  <2>1. Advances(bookings, bookings')
    BY <1>6, NothingAdvances
  <2>2. Refers(bookings', <<b, i>>)
    BY <1>2, <1>6 DEF Refers, OpenPays
  <2>3. WireInv'
    BY <1>1, <1>6, <2>1, <2>2, AnswerKeeps
  <2> QED BY <1>1, <1>6, <2>1, <2>3, ServerPreserves DEF ServerInv
<1>7. CASE /\ old.status = "held" /\ ~Lapsed(b)
           /\ Answer(w, new) /\ bookings' = [bookings EXCEPT ![b] = row]
  <2>1. /\ Append(old.pays, "pending") \in Seq(PayStatus)
        /\ Append(old.pays, "pending") # << >>
        /\ DOMAIN Append(old.pays, "pending") = 1 .. Len(old.pays) + 1
    BY <1>3, AppendProperties, LenProperties DEF PayStatus
  <2>2. Later(old.until, now + PaymentWindow) \in Nat
    BY <1>3, WindowAssumption DEF Later, Booking, ServerInv
  <2>3. /\ row \in Booking /\ row.status = "held"
        /\ row.pays = Append(old.pays, "pending")
    BY <1>3, <1>7, <2>1, <2>2 DEF Booking
  <2> HIDE DEF row
  <2>4. /\ bookings' \in Seq(Booking) /\ DOMAIN bookings' = DOMAIN bookings
        /\ bookings'[b] = row
        /\ \A c \in DOMAIN bookings \ {b} : bookings'[c] = bookings[c]
    BY <1>2, <1>7, <2>3, RowChanges DEF ServerInv
  <2>5. Advances(bookings, bookings')
    BY <1>3, <2>1, <2>3, <2>4 DEF Advances
  <2>6. \A c \in DOMAIN bookings' :
          bookings'[c].status = "confirmed" => bookings'[c].pays # << >>
    BY <2>3, <2>4 DEF ServerInv
  <2>7. Refers(bookings', new.id)
    BY <1>2, <1>3, <2>1, <2>3, <2>4 DEF Refers
  <2>8. WireInv'
    BY <1>1, <1>7, <2>5, <2>7, AnswerKeeps
  <2> QED BY <1>1, <2>4, <2>5, <2>6, <2>8, ServerPreserves
<1> QED BY <1>4, <1>5, <1>6, <1>7

\* A payment is settled, and may confirm its booking.
LEMMA SimulatePreserves ==
    ASSUME IInv, NEW w \in AllWires, ServeSimulate(w)
    PROVE  IInv'
<1> USE DEF IInv
<1> DEFINE b == wire[w].of[1]
           i == wire[w].of[2]
           old == bookings[b]
           Row(s) == [old EXCEPT !.pays = [old.pays EXCEPT ![i] = s]]
           Sure(s) == [Row(s) EXCEPT !.status = "confirmed", !.until = 0]
<1>1. /\ UNCHANGED <<pageVars, now>> /\ wire[w] # None
      /\ wire[w].kind \in {"success", "failure"}
  BY DEF ServeSimulate, Asked
<1>2. b \in DOMAIN bookings /\ i \in DOMAIN old.pays
  BY <1>1 DEF WireInv, Sound, Refers
<1>3. /\ old \in Booking
      /\ old.pays \in Seq(PayStatus) /\ old.pays # << >>
      /\ \A j \in DOMAIN old.pays : old.pays[j] \in PayStatus
  <2>1. old \in Booking
    BY <1>2, LenProperties, ElementOfSeq DEF ServerInv
  <2>2. old.pays \in Seq(PayStatus) /\ old.pays # << >>
    BY <1>2, <2>1 DEF Booking
  <2> QED BY <2>1, <2>2, LenProperties, ElementOfSeq
<1>4. \E reply :
        /\ Answer(w, reply) /\ (reply = Failed \/ reply.id = <<b, i>>)
        /\ \/ bookings' = bookings
           \/ \E s \in {"failed", "succeeded", "refunded"} :
                bookings' \in {[bookings EXCEPT ![b] = Row(s)], [bookings EXCEPT ![b] = Sure(s)]}
  <2>1. \A s : /\ [bookings EXCEPT ![b].pays[i] = s] = [bookings EXCEPT ![b] = Row(s)]
               /\ [[bookings EXCEPT ![b].pays[i] = s] EXCEPT ![b].status = "confirmed",
                                                             ![b].until = 0]
                    = [bookings EXCEPT ![b] = Sure(s)]
    BY <1>2, <1>3 DEF Booking, ServerInv
  <2> HIDE DEF Row, Sure
  <2> QED BY <2>1 DEF ServeSimulate
<1>5. PICK reply :
        /\ Answer(w, reply) /\ (reply = Failed \/ reply.id = <<b, i>>)
        /\ \/ bookings' = bookings
           \/ \E s \in {"failed", "succeeded", "refunded"} :
                bookings' \in {[bookings EXCEPT ![b] = Row(s)], [bookings EXCEPT ![b] = Sure(s)]}
  BY <1>4
<1>6. ASSUME NEW s \in {"failed", "succeeded", "refunded"}
      PROVE  /\ Row(s) \in Booking /\ Sure(s) \in Booking
             /\ DOMAIN Row(s).pays = DOMAIN old.pays /\ Row(s).pays # << >>
             /\ Sure(s).pays = Row(s).pays
  <2> DEFINE F == [old.pays EXCEPT ![i] = s]
  <2>1. F = [j \in DOMAIN old.pays |-> F[j]] /\ \A j \in DOMAIN old.pays : F[j] \in PayStatus
    BY <1>3, <1>6 DEF PayStatus
  <2> HIDE DEF F
  <2>2. F \in Seq(PayStatus) /\ DOMAIN F = DOMAIN old.pays /\ F # << >>
    BY <1>3, <2>1, PaysChange
  <2>3. /\ [old EXCEPT !.pays = F] \in Booking
        /\ [old EXCEPT !.pays = F].pays = F
        /\ [[old EXCEPT !.pays = F] EXCEPT !.status = "confirmed", !.until = 0] \in Booking
        /\ [[old EXCEPT !.pays = F] EXCEPT !.status = "confirmed", !.until = 0].pays = F
    BY <1>3, <2>2 DEF Booking, BookingStatus
  <2> QED BY <2>2, <2>3 DEF F
<1> HIDE DEF Row, Sure
<1>7. CASE bookings' = bookings
  <2>1. Advances(bookings, bookings') /\ Refers(bookings', <<b, i>>)
    BY <1>2, <1>7, NothingAdvances DEF Refers
  <2>2. WireInv'
    BY <1>1, <1>5, <2>1, AnswerKeeps
  <2> QED BY <1>1, <1>7, <2>1, <2>2, ServerPreserves DEF ServerInv
<1>8. ASSUME NEW s \in {"failed", "succeeded", "refunded"}, NEW row \in {Row(s), Sure(s)},
             bookings' = [bookings EXCEPT ![b] = row]
      PROVE  IInv'
  <2>1. row \in Booking /\ DOMAIN row.pays = DOMAIN old.pays /\ row.pays # << >>
    BY <1>6, <1>8
  <2>2. /\ bookings' \in Seq(Booking) /\ DOMAIN bookings' = DOMAIN bookings
        /\ bookings'[b] = row
        /\ \A c \in DOMAIN bookings \ {b} : bookings'[c] = bookings[c]
    BY <1>2, <1>8, <2>1, RowChanges DEF ServerInv
  <2>3. Advances(bookings, bookings')
    BY <2>1, <2>2 DEF Advances
  <2>4. \A c \in DOMAIN bookings' :
          bookings'[c].status = "confirmed" => bookings'[c].pays # << >>
    BY <2>1, <2>2 DEF ServerInv
  <2>5. Refers(bookings', <<b, i>>)
    BY <1>2, <2>1, <2>2 DEF Refers
  <2>6. WireInv'
    BY <1>1, <1>5, <2>3, <2>5, AnswerKeeps
  <2> QED BY <1>1, <2>2, <2>3, <2>4, <2>6, ServerPreserves
<1> QED BY <1>5, <1>7, <1>8

\* Others come and go, and the sweeper passes.
LEMMA OthersPreserve ==
    ASSUME IInv,
           \/ \E s \in Contested, x \in Seats : OthersTake(s, x) \/ OthersLeave(s, x)
           \/ \E b \in DOMAIN bookings : Sweep(b)
    PROVE  IInv'
<1> USE DEF IInv
<1>1. UNCHANGED <<pageVars, wire, now>>
  BY DEF OthersTake, OthersLeave, Sweep
<1>2. /\ bookings' \in Seq(Booking) /\ DOMAIN bookings' = DOMAIN bookings
      /\ \A c \in DOMAIN bookings :
           \/ bookings'[c] = bookings[c]
           \/ bookings'[c].status = "expired" /\ bookings'[c].pays = bookings[c].pays
  <2>1. ASSUME NEW s \in Contested, NEW x \in Seats, OthersTake(s, x) \/ OthersLeave(s, x)
        PROVE  bookings' \in {bookings, ReleaseLapsed(s)}
    BY <2>1 DEF OthersTake, OthersLeave
  <2>2. ASSUME NEW b \in DOMAIN bookings, Sweep(b)
        PROVE  /\ bookings' \in Seq(Booking) /\ DOMAIN bookings' = DOMAIN bookings
               /\ bookings'[b].status = "expired" /\ bookings'[b].pays = bookings[b].pays
               /\ \A c \in DOMAIN bookings \ {b} : bookings'[c] = bookings[c]
    BY <2>2, EndEffect DEF Sweep, ServerInv
  <2> QED BY <2>1, <2>2, ReleaseEffect DEF ServerInv
<1>3. Advances(bookings, bookings')
  BY <1>2 DEF Advances
<1>4. \A c \in DOMAIN bookings' :
        bookings'[c].status = "confirmed" => bookings'[c].pays # << >>
  BY <1>2 DEF ServerInv
<1>5. WireInv'
  BY <1>1, <1>3, AdvanceKeeps DEF WireInv
<1> QED BY <1>1, <1>2, <1>3, <1>4, <1>5, ServerPreserves

\* What has lapsed stays so.
LEMMA TickPreserves ==
    ASSUME IInv, Tick
    PROVE  IInv'
<1> USE DEF IInv
<1>1. UNCHANGED <<pageVars, wire, bookings>> /\ now' = now + 1
  BY DEF Tick
<1>2. ServerInv' /\ ChoiceInv' /\ PanelInv' /\ WireInv'
  BY <1>1 DEF ServerInv, ChoiceInv, PanelInv, WireInv, pageVars, panelVars
<1>3. \A b \in DOMAIN bookings : bookings[b].until \in Nat
  <2>1. \A b \in DOMAIN bookings : bookings[b] \in Booking
    BY LenProperties, ElementOfSeq DEF ServerInv
  <2> QED BY <2>1 DEF Booking
<1>4. CountdownIsHonest'
  BY <1>1, <1>3, WindowAssumption
     DEF CountdownIsHonest, HoldsOn, HoldsNow, Lapsed, PanelInv, ServerInv, pageVars, panelVars
<1> QED BY <1>2, <1>4

-----------------------------------------------------------------------------
(* The theorems.                                                             *)

LEMMA InitInv == Init => IInv
<1> SUFFICES ASSUME Init PROVE IInv
  OBVIOUS
<1>1. ServerInv
  BY EmptySeq DEF Init, ServerInv
<1>2. ChoiceInv /\ PanelInv /\ WireInv /\ CountdownIsHonest
  BY DEF Init, ChoiceInv, PanelInv, WireInv, CountdownIsHonest, AllWires
<1> QED BY <1>1, <1>2 DEF IInv

LEMMA NextInv == IInv /\ [Next]_vars => IInv'
<1> SUFFICES ASSUME IInv, [Next]_vars PROVE IInv'
  OBVIOUS
<1>1. ASSUME UNCHANGED vars PROVE IInv'
  BY <1>1 DEF vars, pageVars, panelVars, serverVars, IInv, ServerInv, ChoiceInv, PanelInv,
              WireInv, CountdownIsHonest, HoldsOn, HoldsNow, Lapsed
<1>2. ASSUME NEW w \in AllWires, Serve(w) PROVE IInv'
  BY <1>2, ReadPreserves, HoldPreserves, ReleasePreserves, CheckoutPreserves,
     SimulatePreserves DEF Serve
<1>3. Wires \subseteq AllWires /\ PollWires \subseteq AllWires /\ Wires \cup PollWires = AllWires
  BY DEF AllWires
<1>4. ASSUME \E w \in Wires : User(w) PROVE IInv'
  BY <1>3, <1>4, UserPreserves
<1>5. ASSUME SelectMovie \/ (\E w \in Wires \cup PollWires : UpdateTimer(w))
                         \/ (\E w \in PollWires : Poll(w))
      PROVE  IInv'
  BY <1>3, <1>5, TimersPreserve
<1>6. ASSUME \E w \in Wires \cup PollWires : Serve(w) \/ Receive(w) \/ Lose(w) PROVE IInv'
  BY <1>2, <1>3, <1>6, ReceivePreserves, ReadPreserves
<1> QED BY <1>1, <1>4, <1>5, <1>6, OthersPreserve, TickPreserves DEF Next

\* Whatever the user clicks and however answers are lost, late or overtaken.
THEOREM Invariance == Spec => []IInv
BY InitInv, NextInv, PTL DEF Spec

\* The countdown never says "Hold expired" of a booking whose seats the server holds
\* for another second or more, unless a checkout was started for it (updateTimer,
\* script.js).
THEOREM CountdownWithinASecond == Spec => []CountdownIsHonest
BY Invariance, PTL DEF IInv
=============================================================================
