--------------------------- MODULE CheckoutProofs ---------------------------
(***************************************************************************)
(* Proofs about Checkout: what holds of bookings, payments and the gateway  *)
(* for any number of calls, deliveries, failures and crashes, that it       *)
(* implements PaymentLedger, and how often it pays money back.              *)
(***************************************************************************)
EXTENDS Checkout, FiniteSetTheorems, TLAPS

-----------------------------------------------------------------------------
(* The inductive invariant.                                                  *)

Settled == {"succeeded", "refunded"}

\* Where each kind of call, and a delivery, can be.
PcInv ==
    /\ \A a \in Checkouts :
         pc[a] \in {"start", "lookup", "extend", "intent", "create", "drop", "resume", "done"}
    /\ \A c \in Cancels :
         pc[c] \in {"start", "open", "void", "mark", "captured", "refund", "record", "release",
                   "done"}
    /\ \A r \in Releases : pc[r] \in {"start", "release", "done"}
    /\ \A h \in Handlers : pc[h] \in {"idle", "apply", "refund", "record"}

\* A checkout that has not come to its insert has no row, and one that has not
\* come to its intent no charge; nobody can pay before the row is there.
RowInv ==
    \A a \in Checkouts :
        /\ pc[a] \in {"start", "lookup", "extend", "intent"} => charge[a] = "none"
        /\ pc[a] \in {"start", "lookup", "extend", "intent", "create"} => pay[a] = "none"
        /\ a \in handed => pay[a] # "none"
        /\ charge[a] \in {"captured", "declined"} => pay[a] # "none"

\* An event says what became of its charge; a simulated failure is not the last word.
EventInv ==
    \A e \in sent :
        /\ e.type = "succeeded" => charge[e.of] = "captured"
        /\ e.type = "failed"    => charge[e.of] \in {"declined", "captured"}
        /\ e.type = "cancelled" => charge[e.of] = "voided"
        /\ e.type = "refunded"  => refunds[e.of] > 0

\* The books never say more than the gateway did.
BooksInv ==
    \A a \in Checkouts :
        /\ refunds[a] > 0 => charge[a] = "captured"
        /\ pay[a] = "succeeded" => charge[a] = "captured"
        /\ pay[a] = "refunded" => refunds[a] > 0

\* A payment is settled in the step that decides about its hold.
HoldInv == \A a \in Checkouts : pay[a] \in Settled => bstatus[Of[a]] # "held"

\* What a cancellation goes by since it read the payment.
CancelInv ==
    \A c \in Cancels :
        /\ pc[c] \in {"void", "mark", "refund", "record"} => ref[c] \in Checkouts
        /\ pc[c] \in {"refund", "record"} => pay[ref[c]] \in Settled
        /\ pc[c] = "record" => refunds[ref[c]] > 0

\* What a delivery goes by since it read the payment, and after its commit.
DeliveryInv ==
    \A h \in Handlers :
        /\ pc[h] # "idle" => event[h] \in sent
        /\ pc[h] = "apply" =>
             /\ pay[event[h].of] # "none"
             /\ seen[h] = "succeeded" => pay[event[h].of] \in Settled
        /\ pc[h] \in {"refund", "record"} =>
             event[h] \in recorded /\ event[h].type = "succeeded"
        /\ pc[h] = "record" => refunds[event[h].of] > 0

\* The inductive invariant.
IInv ==
    /\ TypeOK /\ PcInv /\ RowInv /\ EventInv /\ BooksInv /\ HoldInv
    /\ CancelInv /\ DeliveryInv /\ ConfirmedIsPaid /\ OrphanHasNoSeats

-----------------------------------------------------------------------------
(* What the repositories' statements do.                                     *)

\* Payment.Update changes one row, and only as its WHERE clause allows.
LEMMA UpdateEffect ==
    ASSUME NEW a \in Checkouts, NEW to \in PaymentStatus,
           pay \in [Checkouts -> PaymentStatus], Update(a, to)
    PROVE  /\ pay' \in [Checkouts -> PaymentStatus]
           /\ \A x \in Checkouts : x # a => pay'[x] = pay[x]
           /\ MayUpdate(a, to) => pay'[a] = to
           /\ ~MayUpdate(a, to) => pay'[a] = pay[a]
BY DEF Update, MayUpdate, PaymentStatus

\* An event sent again is an event with the same outcome.
LEMMA CopyOfEvent ==
    ASSUME NEW e \in Event, e.copy < MaxCopies
    PROVE  LET again == [e EXCEPT !.copy = @ + 1]
           IN  again \in Event /\ again.type = e.type /\ again.of = e.of
BY CallAssumption DEF Event

\* bookings.Cancel leaves its booking without seats and touches no other.
LEMMA CancelSeatsEffect ==
    ASSUME NEW b \in Bookings, bstatus \in [Bookings -> BookingStatus], CancelSeats(b)
    PROVE  /\ bstatus' \in [Bookings -> BookingStatus]
           /\ bstatus'[b] \notin {"held", "confirmed"}
           /\ \A x \in Bookings : bstatus'[x] = bstatus[x] \/ (x = b /\ bstatus'[x] = "cancelled")
BY DEF CancelSeats, SetStatus, IsActive, BookingStatus

-----------------------------------------------------------------------------
(* Every action preserves the invariant: one lemma for each.  A step of its   *)
(* own is given to a conjunct that the action puts at risk and that holds      *)
(* because of another conjunct; those that the action leaves alone, or that    *)
(* hold of the new state by themselves, share the last step.                   *)

\* The clock: a hold lapses or is swept, the cutoff passes.
LEMMA LapsePreserves ==
    ASSUME IInv, NEW b \in Bookings, Lapse(b)
    PROVE  IInv'
<1> USE CallAssumption DEF IInv, TypeOK, PcInv, Calls, BookingStatus, PaymentStatus, Event,
         bookingVars, paymentVars, gatewayVars, callVars, handlerVars, Lapse
<1>1. TypeOK'
  OBVIOUS
<1>2. PcInv'
  OBVIOUS
<1>3. RowInv' /\ EventInv' /\ BooksInv' /\ HoldInv' /\ CancelInv' /\
      DeliveryInv' /\ ConfirmedIsPaid' /\ OrphanHasNoSeats'
  BY DEF RowInv, EventInv, BooksInv, HoldInv, Settled, CancelInv, DeliveryInv,
         ConfirmedIsPaid, PaymentsOf, OrphanHasNoSeats, IsActive
<1> QED BY <1>1, <1>2, <1>3

LEMMA ExpirePreserves ==
    ASSUME IInv, NEW b \in Bookings, Expire(b)
    PROVE  IInv'
<1> USE CallAssumption DEF IInv, TypeOK, PcInv, Calls, BookingStatus, PaymentStatus, Event,
         bookingVars, paymentVars, gatewayVars, callVars, handlerVars, Expire,
         SetStatus
<1>1. TypeOK'
  OBVIOUS
<1>2. PcInv'
  OBVIOUS
<1>3. RowInv' /\ EventInv' /\ BooksInv' /\ HoldInv' /\ CancelInv' /\
      DeliveryInv' /\ ConfirmedIsPaid' /\ OrphanHasNoSeats'
  BY DEF RowInv, EventInv, BooksInv, HoldInv, Settled, CancelInv, DeliveryInv,
         ConfirmedIsPaid, PaymentsOf, OrphanHasNoSeats, IsActive
<1> QED BY <1>1, <1>2, <1>3

LEMMA ClosePreserves ==
    ASSUME IInv, NEW b \in Bookings, Close(b)
    PROVE  IInv'
<1> USE CallAssumption DEF IInv, TypeOK, PcInv, Calls, BookingStatus, PaymentStatus, Event,
         bookingVars, paymentVars, gatewayVars, callVars, handlerVars, Close
<1>1. TypeOK'
  OBVIOUS
<1>2. PcInv'
  OBVIOUS
<1>3. RowInv' /\ EventInv' /\ BooksInv' /\ HoldInv' /\ CancelInv' /\
      DeliveryInv' /\ ConfirmedIsPaid' /\ OrphanHasNoSeats'
  BY DEF RowInv, EventInv, BooksInv, HoldInv, Settled, CancelInv, DeliveryInv,
         ConfirmedIsPaid, PaymentsOf, OrphanHasNoSeats, IsActive
<1> QED BY <1>1, <1>2, <1>3

\* The gateway: a charge is settled, announced again, paid back by hand.
LEMMA CapturePreserves ==
    ASSUME IInv, NEW a \in Checkouts, Capture(a)
    PROVE  IInv'
<1> USE CallAssumption DEF IInv, TypeOK, PcInv, Calls, BookingStatus, PaymentStatus, Event,
         bookingVars, paymentVars, gatewayVars, callVars, handlerVars, Capture,
         Settle, Send
<1>1. TypeOK'
  OBVIOUS
<1>2. PcInv'
  OBVIOUS
<1>3. RowInv' /\ EventInv' /\ BooksInv' /\ HoldInv' /\ CancelInv' /\
      DeliveryInv' /\ ConfirmedIsPaid' /\ OrphanHasNoSeats'
  BY DEF RowInv, EventInv, BooksInv, HoldInv, Settled, CancelInv, DeliveryInv,
         ConfirmedIsPaid, PaymentsOf, OrphanHasNoSeats, IsActive
<1> QED BY <1>1, <1>2, <1>3

LEMMA DeclinePreserves ==
    ASSUME IInv, NEW a \in Checkouts, Decline(a)
    PROVE  IInv'
<1> USE CallAssumption DEF IInv, TypeOK, PcInv, Calls, BookingStatus, PaymentStatus, Event,
         bookingVars, paymentVars, gatewayVars, callVars, handlerVars, Decline,
         Settle, Send
<1>1. TypeOK'
  OBVIOUS
<1>2. PcInv'
  OBVIOUS
<1>3. RowInv' /\ EventInv' /\ BooksInv' /\ HoldInv' /\ CancelInv' /\
      DeliveryInv' /\ ConfirmedIsPaid' /\ OrphanHasNoSeats'
  BY DEF RowInv, EventInv, BooksInv, HoldInv, Settled, CancelInv, DeliveryInv,
         ConfirmedIsPaid, PaymentsOf, OrphanHasNoSeats, IsActive
<1> QED BY <1>1, <1>2, <1>3

LEMMA GiveUpPreserves ==
    ASSUME IInv, NEW a \in Checkouts, GiveUp(a)
    PROVE  IInv'
<1> USE CallAssumption DEF IInv, TypeOK, PcInv, Calls, BookingStatus, PaymentStatus, Event,
         bookingVars, paymentVars, gatewayVars, callVars, handlerVars, GiveUp,
         Settle, Send
<1>1. TypeOK'
  OBVIOUS
<1>2. PcInv'
  OBVIOUS
<1>3. RowInv' /\ EventInv' /\ BooksInv' /\ HoldInv' /\ CancelInv' /\
      DeliveryInv' /\ ConfirmedIsPaid' /\ OrphanHasNoSeats'
  BY DEF RowInv, EventInv, BooksInv, HoldInv, Settled, CancelInv, DeliveryInv,
         ConfirmedIsPaid, PaymentsOf, OrphanHasNoSeats, IsActive
<1> QED BY <1>1, <1>2, <1>3

LEMMA ResendPreserves ==
    ASSUME IInv, NEW e \in sent, Resend(e)
    PROVE  IInv'
<1> USE CallAssumption DEF IInv, TypeOK, PcInv, Calls, BookingStatus, PaymentStatus,
         bookingVars, paymentVars, gatewayVars, callVars, handlerVars
<1> DEFINE again == [e EXCEPT !.copy = @ + 1]
<1>1. /\ again \in Event /\ again.type = e.type /\ again.of = e.of
      /\ sent' = sent \cup {again}
      /\ UNCHANGED <<bookingVars, paymentVars, charge, refunds, acked, handed, callVars,
                     handlerVars>>
  <2>1. e \in Event /\ e.copy < MaxCopies
    BY DEF Resend
  <2> QED BY <2>1, CopyOfEvent DEF Resend
<1> HIDE DEF again
<1>2. TypeOK'
  BY <1>1
<1>3. PcInv'
  BY <1>1
<1>4. EventInv'
  BY <1>1 DEF EventInv
<1>5. RowInv' /\ BooksInv' /\ HoldInv' /\ CancelInv'
  BY <1>1 DEF RowInv, BooksInv, HoldInv, Settled, CancelInv
<1>6. DeliveryInv' /\ ConfirmedIsPaid' /\ OrphanHasNoSeats'
  BY <1>1 DEF DeliveryInv, Settled, ConfirmedIsPaid, PaymentsOf, OrphanHasNoSeats, IsActive
<1> QED BY <1>2, <1>3, <1>4, <1>5, <1>6

\* Only a charge that is on the books already, captured or declined, is contradicted.
LEMMA ContradictPreserves ==
    ASSUME IInv, NEW e \in sent, Contradict(e)
    PROVE  IInv'
<1> USE CallAssumption DEF IInv, TypeOK, PcInv, Calls, BookingStatus, PaymentStatus,
         bookingVars, paymentVars, gatewayVars, callVars, handlerVars
<1> DEFINE a == e.of
<1>1. PICK type \in {"succeeded", "failed"} :
        /\ a \in Checkouts /\ charge[a] \in {"captured", "declined"}
        /\ charge' = [charge EXCEPT ![a] = IF type = "succeeded" THEN "captured" ELSE @]
        /\ type = "failed" => charge[a] = "captured"
        /\ sent' = sent \cup {[type |-> type, of |-> a, copy |-> 1]}
        /\ UNCHANGED <<bookingVars, paymentVars, refunds, acked, handed, callVars, handlerVars>>
  BY DEF Contradict, Simulable, Send, EventInv, Event
<1> DEFINE other == [type |-> type, of |-> a, copy |-> 1]
<1>2. other \in Event /\ other.type = type /\ other.of = a
  BY <1>1 DEF Event
<1> HIDE DEF a, other
<1>3. sent' = sent \cup {other}
  BY <1>1 DEF other
<1>4. /\ charge'[a] = "captured" /\ \A x \in Checkouts : x # a => charge'[x] = charge[x]
      /\ charge' \in [Checkouts -> {"none", "open", "captured", "declined", "voided"}]
  BY <1>1
<1>5. TypeOK'
  BY <1>1, <1>2, <1>3, <1>4
<1>6. PcInv'
  BY <1>1
<1>7. EventInv'
  <2>1. ASSUME NEW x \in sent, x.of = a PROVE x.type # "cancelled"
    BY <1>1, <2>1 DEF EventInv
  <2>2. \A x \in sent : x.of \in Checkouts
    BY DEF Event
  <2> QED BY <1>1, <1>2, <1>3, <1>4, <2>1, <2>2 DEF EventInv
<1>8. RowInv' /\ BooksInv' /\ HoldInv' /\ CancelInv'
  BY <1>1, <1>4 DEF RowInv, BooksInv, HoldInv, Settled, CancelInv
<1>9. DeliveryInv' /\ OrphanHasNoSeats'
  BY <1>1, <1>3 DEF DeliveryInv, Settled, OrphanHasNoSeats, IsActive
<1>10. ConfirmedIsPaid'
  <2>1. \A x \in Checkouts : charge[x] = "captured" => charge'[x] = "captured"
    BY <1>4
  <2> QED BY <1>1, <2>1 DEF ConfirmedIsPaid, PaymentsOf
<1> QED BY <1>5, <1>6, <1>7, <1>8, <1>9, <1>10

LEMMA ConsoleRefundPreserves ==
    ASSUME IInv, NEW a \in Checkouts, ConsoleRefund(a)
    PROVE  IInv'
<1> USE CallAssumption DEF IInv, TypeOK, PcInv, Calls, BookingStatus, PaymentStatus, Event,
         bookingVars, paymentVars, gatewayVars, callVars, handlerVars,
         ConsoleRefund, Refund, Send
<1>1. TypeOK'
  OBVIOUS
<1>2. PcInv'
  OBVIOUS
<1>3. RowInv' /\ EventInv' /\ BooksInv' /\ HoldInv' /\ CancelInv' /\
      DeliveryInv' /\ ConfirmedIsPaid' /\ OrphanHasNoSeats'
  BY DEF RowInv, EventInv, BooksInv, HoldInv, Settled, CancelInv, DeliveryInv,
         ConfirmedIsPaid, PaymentsOf, OrphanHasNoSeats, IsActive
<1> QED BY <1>1, <1>2, <1>3

\* StartCheckout, statement by statement.
LEMMA CheckHeldPreserves ==
    ASSUME IInv, NEW a \in Checkouts, CheckHeld(a)
    PROVE  IInv'
<1> USE CallAssumption DEF IInv, TypeOK, PcInv, Calls, BookingStatus, PaymentStatus, Event,
         bookingVars, paymentVars, gatewayVars, callVars, handlerVars, CheckHeld,
         Goto
<1>1. TypeOK'
  OBVIOUS
<1>2. PcInv'
  OBVIOUS
<1>3. RowInv' /\ EventInv' /\ BooksInv' /\ HoldInv' /\ CancelInv' /\
      DeliveryInv' /\ ConfirmedIsPaid' /\ OrphanHasNoSeats'
  BY DEF RowInv, EventInv, BooksInv, HoldInv, Settled, CancelInv, DeliveryInv,
         ConfirmedIsPaid, PaymentsOf, OrphanHasNoSeats, IsActive
<1> QED BY <1>1, <1>2, <1>3

LEMMA LookupOpenPreserves ==
    ASSUME IInv, NEW a \in Checkouts, LookupOpen(a)
    PROVE  IInv'
<1> USE CallAssumption DEF IInv, TypeOK, PcInv, Calls, BookingStatus, PaymentStatus, Event,
         bookingVars, paymentVars, gatewayVars, callVars, handlerVars, LookupOpen,
         Goto, Open, PaymentsOf
<1>1. PICK l \in {"extend", "done"} : Goto(a, l)
  OBVIOUS
<1>2. TypeOK'
  BY <1>1
<1>3. PcInv'
  BY <1>1
<1>4. RowInv' /\ EventInv' /\ BooksInv' /\ HoldInv' /\ CancelInv' /\
      DeliveryInv' /\ ConfirmedIsPaid' /\ OrphanHasNoSeats'
  BY <1>1 DEF RowInv, EventInv, BooksInv, HoldInv, Settled, CancelInv, DeliveryInv,
              ConfirmedIsPaid, OrphanHasNoSeats, IsActive
<1> QED BY <1>2, <1>3, <1>4

LEMMA ExtendHoldPreserves ==
    ASSUME IInv, NEW a \in Checkouts, ExtendHold(a)
    PROVE  IInv'
<1> USE CallAssumption DEF IInv, TypeOK, PcInv, Calls, BookingStatus, PaymentStatus, Event,
         bookingVars, paymentVars, gatewayVars, callVars, handlerVars, ExtendHold, Goto
<1>1. PICK l \in {"intent", "done"} : Goto(a, l)
  OBVIOUS
<1>2. TypeOK'
  <2>1. CASE lapsed' = [lapsed EXCEPT ![Of[a]] = FALSE]
    BY <1>1, <2>1
  <2>2. CASE UNCHANGED lapsed
    BY <1>1, <2>2
  <2> QED BY <2>1, <2>2
<1>3. PcInv'
  BY <1>1
<1>4. RowInv' /\ EventInv' /\ BooksInv' /\ HoldInv' /\ CancelInv' /\
      DeliveryInv' /\ ConfirmedIsPaid' /\ OrphanHasNoSeats'
  BY <1>1 DEF RowInv, EventInv, BooksInv, HoldInv, Settled, CancelInv, DeliveryInv,
         ConfirmedIsPaid, PaymentsOf, OrphanHasNoSeats, IsActive
<1> QED BY <1>2, <1>3, <1>4

LEMMA CreateIntentPreserves ==
    ASSUME IInv, NEW a \in Checkouts, CreateIntent(a)
    PROVE  IInv'
<1> USE CallAssumption DEF IInv, TypeOK, PcInv, Calls, BookingStatus, PaymentStatus, Event,
         bookingVars, paymentVars, gatewayVars, callVars, handlerVars,
         CreateIntent, Goto, NewIntent
<1>1. PICK l \in {"create", "done"} : Goto(a, l)
  OBVIOUS
<1>2. TypeOK'
  BY <1>1
<1>3. PcInv'
  BY <1>1
<1>4. EventInv'
  BY <1>1 DEF RowInv, EventInv
<1>5. BooksInv'
  BY <1>1 DEF RowInv, BooksInv
<1>6. ConfirmedIsPaid'
  BY <1>1 DEF RowInv, ConfirmedIsPaid, PaymentsOf
<1>7. RowInv' /\ HoldInv' /\ CancelInv' /\ DeliveryInv' /\ OrphanHasNoSeats'
  BY <1>1 DEF RowInv, HoldInv, Settled, CancelInv, DeliveryInv, OrphanHasNoSeats,
              IsActive
<1> QED BY <1>2, <1>3, <1>4, <1>5, <1>6, <1>7

LEMMA CreatePreserves ==
    ASSUME IInv, NEW a \in Checkouts, Create(a)
    PROVE  IInv'
<1> USE CallAssumption DEF IInv, TypeOK, PcInv, Calls, BookingStatus, PaymentStatus, Event,
         bookingVars, paymentVars, gatewayVars, callVars, handlerVars, Goto
<1>1. pc[a] = "create" /\ pay[a] = "none"
  BY DEF Create, RowInv
<1>2. CASE Goto(a, "drop") /\ UNCHANGED <<pay, created, handed>>
  <2>1. TypeOK' /\ PcInv'
    BY <1>2 DEF Create
  <2>2. RowInv' /\ EventInv' /\ BooksInv' /\ HoldInv' /\ CancelInv'
    BY <1>1, <1>2 DEF Create, RowInv, EventInv, BooksInv, HoldInv, Settled, CancelInv
  <2>3. DeliveryInv' /\ ConfirmedIsPaid' /\ OrphanHasNoSeats'
    BY <1>1, <1>2 DEF Create, DeliveryInv, Settled, ConfirmedIsPaid, PaymentsOf,
                      OrphanHasNoSeats, IsActive
  <2> QED BY <2>1, <2>2, <2>3
<1>3. CASE /\ pay' = [pay EXCEPT ![a] = "pending"] /\ created' = Append(created, a)
           /\ handed' \in {handed, handed \cup {a}} /\ Goto(a, "done")
           /\ UNCHANGED <<bookingVars, recorded, charge, refunds, sent, acked, ref, handlerVars>>
  <2>1. TypeOK' /\ PcInv'
    BY <1>3
  <2>2. RowInv' /\ EventInv' /\ BooksInv' /\ HoldInv'
    BY <1>1, <1>3 DEF RowInv, EventInv, BooksInv, HoldInv, Settled
  <2>3. CancelInv' /\ DeliveryInv' /\ OrphanHasNoSeats'
    BY <1>1, <1>3 DEF CancelInv, DeliveryInv, Settled, OrphanHasNoSeats, IsActive
  <2>4. ConfirmedIsPaid'
    <3>1. \A x \in Checkouts : pay[x] \in {"succeeded", "refunded"} => pay'[x] = pay[x]
      BY <1>1, <1>3
    <3> QED BY <1>3, <3>1 DEF ConfirmedIsPaid, PaymentsOf
  <2> QED BY <2>1, <2>2, <2>3, <2>4
<1> QED BY <1>2, <1>3 DEF Create

LEMMA DropIntentPreserves ==
    ASSUME IInv, NEW a \in Checkouts, DropIntent(a)
    PROVE  IInv'
<1> USE CallAssumption DEF IInv, TypeOK, PcInv, Calls, BookingStatus, PaymentStatus, Event,
         bookingVars, paymentVars, gatewayVars, callVars, handlerVars, DropIntent,
         Goto, Void, Send
<1>1. TypeOK'
  OBVIOUS
<1>2. PcInv'
  OBVIOUS
<1>3. RowInv' /\ EventInv' /\ BooksInv' /\ HoldInv' /\ CancelInv' /\
      DeliveryInv' /\ ConfirmedIsPaid' /\ OrphanHasNoSeats'
  BY DEF RowInv, EventInv, BooksInv, HoldInv, Settled, CancelInv, DeliveryInv,
         ConfirmedIsPaid, PaymentsOf, OrphanHasNoSeats, IsActive
<1> QED BY <1>1, <1>2, <1>3

LEMMA ResumeOpenPreserves ==
    ASSUME IInv, NEW a \in Checkouts, ResumeOpen(a)
    PROVE  IInv'
<1> USE CallAssumption DEF IInv, TypeOK, PcInv, Calls, BookingStatus, PaymentStatus, Event,
         bookingVars, paymentVars, gatewayVars, callVars, handlerVars, ResumeOpen,
         Goto, Open, PaymentsOf
<1>1. TypeOK'
  OBVIOUS
<1>2. PcInv'
  OBVIOUS
<1>3. RowInv' /\ EventInv' /\ BooksInv' /\ HoldInv' /\ CancelInv' /\
      DeliveryInv' /\ ConfirmedIsPaid' /\ OrphanHasNoSeats'
  BY DEF RowInv, EventInv, BooksInv, HoldInv, Settled, CancelInv, DeliveryInv,
         ConfirmedIsPaid, OrphanHasNoSeats, IsActive
<1> QED BY <1>1, <1>2, <1>3

\* CancelBooking and Release, statement by statement.
LEMMA CheckCancellablePreserves ==
    ASSUME IInv, NEW c \in Cancels, CheckCancellable(c)
    PROVE  IInv'
<1> USE CallAssumption DEF IInv, TypeOK, PcInv, Calls, BookingStatus, PaymentStatus, Event,
         bookingVars, paymentVars, gatewayVars, callVars, handlerVars,
         CheckCancellable, Goto
<1>1. TypeOK'
  OBVIOUS
<1>2. PcInv'
  OBVIOUS
<1>3. RowInv' /\ EventInv' /\ BooksInv' /\ HoldInv' /\ CancelInv' /\
      DeliveryInv' /\ ConfirmedIsPaid' /\ OrphanHasNoSeats'
  BY DEF RowInv, EventInv, BooksInv, HoldInv, Settled, CancelInv, DeliveryInv,
         ConfirmedIsPaid, PaymentsOf, OrphanHasNoSeats, IsActive
<1> QED BY <1>1, <1>2, <1>3

LEMMA FindOpenPreserves ==
    ASSUME IInv, NEW c \in Cancels, FindOpen(c)
    PROVE  IInv'
<1> USE CallAssumption DEF IInv, TypeOK, PcInv, Calls, BookingStatus, PaymentStatus, Event,
         bookingVars, paymentVars, gatewayVars, callVars, handlerVars, FindOpen,
         Goto, Open, PaymentsOf
<1>1. PICK l \in {"void", "captured"} : Goto(c, l)
  OBVIOUS
<1>2. TypeOK'
  BY <1>1
<1>3. PcInv'
  BY <1>1
<1>4. RowInv' /\ EventInv' /\ BooksInv' /\ HoldInv' /\ CancelInv' /\
      DeliveryInv' /\ ConfirmedIsPaid' /\ OrphanHasNoSeats'
  BY <1>1 DEF RowInv, EventInv, BooksInv, HoldInv, Settled, CancelInv, DeliveryInv,
              ConfirmedIsPaid, OrphanHasNoSeats, IsActive
<1> QED BY <1>2, <1>3, <1>4

LEMMA VoidOpenPreserves ==
    ASSUME IInv, NEW c \in Cancels, VoidOpen(c)
    PROVE  IInv'
<1> USE CallAssumption DEF IInv, TypeOK, PcInv, Calls, BookingStatus, PaymentStatus, Event,
         bookingVars, paymentVars, gatewayVars, callVars, handlerVars, Goto
<1> DEFINE a == ref[c]
<1>1. /\ a \in Checkouts /\ Void(a) /\ Goto(c, "mark")
      /\ UNCHANGED <<bookingVars, paymentVars, refunds, acked, handed, ref, handlerVars>>
  BY DEF VoidOpen, CancelInv
<1>2. pc[c] = "void"
  BY DEF VoidOpen
<1> HIDE DEF a
<1>3. TypeOK' /\ PcInv'
  <2>1. charge' \in [Checkouts -> {"none", "open", "captured", "declined", "voided"}]
    <3>1. CASE charge' = [charge EXCEPT ![a] = "voided"]
      BY <1>1, <3>1
    <3>2. CASE UNCHANGED charge
      BY <3>2
    <3> QED BY <1>1, <3>1, <3>2 DEF Void
  <2>2. sent' \subseteq Event /\ sent \subseteq sent'
    BY <1>1 DEF Void, Send
  <2> QED BY <1>1, <2>1, <2>2
<1>4. RowInv' /\ EventInv' /\ BooksInv' /\ HoldInv'
  BY <1>1 DEF Void, Send, RowInv, EventInv, BooksInv, HoldInv, Settled
<1>5. CancelInv'
  BY <1>1, <1>2 DEF a, Void, Send, CancelInv, Settled
<1>6. DeliveryInv' /\ OrphanHasNoSeats'
  BY <1>1 DEF Void, Send, DeliveryInv, Settled, OrphanHasNoSeats, IsActive
<1>7. ConfirmedIsPaid'
  BY <1>1 DEF Void, ConfirmedIsPaid, PaymentsOf
<1> QED BY <1>3, <1>4, <1>5, <1>6, <1>7

LEMMA MarkCancelledPreserves ==
    ASSUME IInv, NEW c \in Cancels, MarkCancelled(c)
    PROVE  IInv'
<1> USE CallAssumption DEF IInv, TypeOK, PcInv, Calls, BookingStatus, PaymentStatus, Event,
         bookingVars, paymentVars, gatewayVars, callVars, handlerVars,
         MarkCancelled, Goto, Update, MayUpdate
<1>1. TypeOK'
  OBVIOUS
<1>2. PcInv'
  OBVIOUS
<1>3. DeliveryInv'
  BY DEF DeliveryInv, Settled
<1>4. ConfirmedIsPaid'
  <2>1. \A a \in Checkouts : pay[a] \in {"succeeded", "refunded"} => pay'[a] = pay[a]
    OBVIOUS
  <2> QED BY <2>1 DEF ConfirmedIsPaid, PaymentsOf
<1>5. OrphanHasNoSeats'
  BY DEF OrphanHasNoSeats, IsActive
<1>6. RowInv' /\ EventInv' /\ BooksInv' /\ HoldInv' /\ CancelInv'
  BY DEF RowInv, EventInv, BooksInv, HoldInv, Settled, CancelInv
<1> QED BY <1>1, <1>2, <1>3, <1>4, <1>5, <1>6

LEMMA FindCapturedPreserves ==
    ASSUME IInv, NEW c \in Cancels, FindCaptured(c)
    PROVE  IInv'
<1> USE CallAssumption DEF IInv, TypeOK, PcInv, Calls, BookingStatus, PaymentStatus, Event,
         bookingVars, paymentVars, gatewayVars, callVars, handlerVars,
         FindCaptured, Goto, LatestSucceeded, Succeeded, PaymentsOf
<1>1. PICK l \in {"refund", "release"} : Goto(c, l)
  OBVIOUS
<1>2. TypeOK'
  BY <1>1
<1>3. PcInv'
  BY <1>1
<1>4. RowInv' /\ EventInv' /\ BooksInv' /\ HoldInv' /\ CancelInv' /\
      DeliveryInv' /\ ConfirmedIsPaid' /\ OrphanHasNoSeats'
  BY <1>1 DEF RowInv, EventInv, BooksInv, HoldInv, Settled, CancelInv, DeliveryInv,
              ConfirmedIsPaid, OrphanHasNoSeats, IsActive
<1> QED BY <1>2, <1>3, <1>4

LEMMA RefundCapturedPreserves ==
    ASSUME IInv, NEW c \in Cancels, RefundCaptured(c)
    PROVE  IInv'
<1> USE CallAssumption DEF IInv, TypeOK, PcInv, Calls, BookingStatus, PaymentStatus, Event,
         bookingVars, paymentVars, gatewayVars, callVars, handlerVars, Goto
<1> DEFINE a == ref[c]
<1>1. /\ pc[c] = "refund" /\ a \in Checkouts
      /\ charge[a] = "captured"
      /\ UNCHANGED <<bookingVars, paymentVars, charge, acked, handed, ref, handlerVars>>
  BY DEF RefundCaptured, CancelInv, BooksInv, Settled
<1> HIDE DEF a
<1>2. CASE Refund(a) /\ Goto(c, "record")
  <2>1. TypeOK' /\ PcInv'
    BY <1>1, <1>2 DEF Refund, Send
  <2>2. RowInv' /\ EventInv' /\ BooksInv' /\ HoldInv'
    BY <1>1, <1>2 DEF Refund, Send, RowInv, EventInv, BooksInv, HoldInv, Settled
  <2>3. CancelInv'
    BY <1>1, <1>2 DEF a, Refund, CancelInv, Settled
  <2>4. DeliveryInv' /\ ConfirmedIsPaid' /\ OrphanHasNoSeats'
    BY <1>1, <1>2 DEF Refund, Send, DeliveryInv, Settled, ConfirmedIsPaid, PaymentsOf,
                      OrphanHasNoSeats, IsActive
  <2> QED BY <2>1, <2>2, <2>3, <2>4
<1>3. CASE Goto(c, "done") /\ UNCHANGED <<refunds, sent>>
  <2>1. TypeOK' /\ PcInv'
    BY <1>1, <1>3
  <2>2. RowInv' /\ EventInv' /\ BooksInv' /\ HoldInv' /\ CancelInv'
    BY <1>1, <1>3 DEF RowInv, EventInv, BooksInv, HoldInv, Settled, CancelInv
  <2>3. DeliveryInv' /\ ConfirmedIsPaid' /\ OrphanHasNoSeats'
    BY <1>1, <1>3 DEF DeliveryInv, Settled, ConfirmedIsPaid, PaymentsOf,
                      OrphanHasNoSeats, IsActive
  <2> QED BY <2>1, <2>2, <2>3
<1> QED BY <1>2, <1>3 DEF RefundCaptured, a

LEMMA RecordRefundPreserves ==
    ASSUME IInv, NEW c \in Cancels, RecordRefund(c)
    PROVE  IInv'
<1> USE CallAssumption DEF IInv, TypeOK, PcInv, Calls, BookingStatus, PaymentStatus, Event,
         bookingVars, paymentVars, gatewayVars, callVars, handlerVars,
         RecordRefund, Goto, Update, MayUpdate
<1>1. TypeOK'
  OBVIOUS
<1>2. PcInv'
  OBVIOUS
<1>3. BooksInv'
  BY DEF CancelInv, Settled, BooksInv
<1>4. HoldInv'
  BY DEF CancelInv, Settled, HoldInv
<1>5. ConfirmedIsPaid'
  BY DEF CancelInv, Settled, ConfirmedIsPaid, PaymentsOf
<1>6. RowInv' /\ EventInv' /\ CancelInv' /\ DeliveryInv' /\ OrphanHasNoSeats'
  BY DEF RowInv, EventInv, CancelInv, Settled, DeliveryInv, OrphanHasNoSeats,
         IsActive
<1> QED BY <1>1, <1>2, <1>3, <1>4, <1>5, <1>6

LEMMA ReleaseSeatsPreserves ==
    ASSUME IInv, NEW c \in Cancels \cup Releases, ReleaseSeats(c)
    PROVE  IInv'
<1> USE CallAssumption DEF IInv, TypeOK, PcInv, Calls, BookingStatus, PaymentStatus, Event,
         bookingVars, paymentVars, gatewayVars, callVars, handlerVars,
         ReleaseSeats, Goto, CancelSeats, SetStatus, IsActive
<1>1. TypeOK'
  OBVIOUS
<1>2. PcInv'
  OBVIOUS
<1>3. OrphanHasNoSeats'
  BY DEF DeliveryInv, Settled, OrphanHasNoSeats
<1>4. RowInv' /\ EventInv' /\ BooksInv' /\ HoldInv' /\ CancelInv' /\
      DeliveryInv' /\ ConfirmedIsPaid'
  BY DEF RowInv, EventInv, BooksInv, HoldInv, Settled, CancelInv, DeliveryInv,
         ConfirmedIsPaid, PaymentsOf
<1> QED BY <1>1, <1>2, <1>3, <1>4

LEMMA CheckReleasablePreserves ==
    ASSUME IInv, NEW r \in Releases, CheckReleasable(r)
    PROVE  IInv'
<1> USE CallAssumption DEF IInv, TypeOK, PcInv, Calls, BookingStatus, PaymentStatus, Event,
         bookingVars, paymentVars, gatewayVars, callVars, handlerVars,
         CheckReleasable, Goto
<1>1. TypeOK'
  OBVIOUS
<1>2. PcInv'
  OBVIOUS
<1>3. RowInv' /\ EventInv' /\ BooksInv' /\ HoldInv' /\ CancelInv' /\
      DeliveryInv' /\ ConfirmedIsPaid' /\ OrphanHasNoSeats'
  BY DEF RowInv, EventInv, BooksInv, HoldInv, Settled, CancelInv, DeliveryInv,
         ConfirmedIsPaid, PaymentsOf, OrphanHasNoSeats, IsActive
<1> QED BY <1>1, <1>2, <1>3

LEMMA AbortPreserves ==
    ASSUME IInv, NEW p \in Calls, Abort(p)
    PROVE  IInv'
<1> USE CallAssumption DEF IInv, TypeOK, PcInv, Calls, BookingStatus, PaymentStatus, Event,
         bookingVars, paymentVars, gatewayVars, callVars, handlerVars, Abort, Goto
<1>1. TypeOK'
  OBVIOUS
<1>2. PcInv'
  OBVIOUS
<1>3. RowInv' /\ EventInv' /\ BooksInv' /\ HoldInv' /\ CancelInv' /\
      DeliveryInv' /\ ConfirmedIsPaid' /\ OrphanHasNoSeats'
  BY DEF RowInv, EventInv, BooksInv, HoldInv, Settled, CancelInv, DeliveryInv,
         ConfirmedIsPaid, PaymentsOf, OrphanHasNoSeats, IsActive
<1> QED BY <1>1, <1>2, <1>3

\* HandleWebhook: the delivery, its transaction, and the refund after it.
LEMMA DeliverPreserves ==
    ASSUME IInv, NEW h \in Handlers, NEW e \in sent, Deliver(h, e)
    PROVE  IInv'
<1> USE CallAssumption DEF IInv, TypeOK, PcInv, Calls, BookingStatus, PaymentStatus, Event,
         bookingVars, paymentVars, gatewayVars, callVars, handlerVars, Goto
<1>1. pc[h] = "idle" /\ UNCHANGED <<bookingVars, pay, created, charge, refunds, sent, handed, ref>>
  BY DEF Deliver
<1>2. CASE recorded' = recorded \cup {e} /\ acked' = acked \cup {e} /\ UNCHANGED <<pc, event, seen>>
  <2>1. TypeOK' /\ PcInv'
    BY <1>1, <1>2
  <2>2. RowInv' /\ EventInv' /\ BooksInv' /\ HoldInv' /\ CancelInv'
    BY <1>1, <1>2 DEF RowInv, EventInv, BooksInv, HoldInv, Settled, CancelInv
  <2>3. DeliveryInv' /\ ConfirmedIsPaid' /\ OrphanHasNoSeats'
    BY <1>1, <1>2 DEF DeliveryInv, Settled, ConfirmedIsPaid, PaymentsOf,
                      OrphanHasNoSeats, IsActive
  <2> QED BY <2>1, <2>2, <2>3
<1>3. CASE /\ Known(e) /\ Goto(h, "apply")
           /\ event' = [event EXCEPT ![h] = e] /\ seen' = [seen EXCEPT ![h] = pay[e.of]]
           /\ UNCHANGED <<recorded, acked>>
  <2>1. TypeOK' /\ PcInv'
    BY <1>1, <1>3
  <2>2. RowInv' /\ EventInv' /\ BooksInv' /\ HoldInv' /\ CancelInv'
    BY <1>1, <1>3 DEF RowInv, EventInv, BooksInv, HoldInv, Settled, CancelInv
  <2>3. DeliveryInv' /\ ConfirmedIsPaid' /\ OrphanHasNoSeats'
    BY <1>1, <1>3 DEF Known, DeliveryInv, Settled, ConfirmedIsPaid, PaymentsOf,
                      OrphanHasNoSeats, IsActive
  <2> QED BY <2>1, <2>2, <2>3
<1> QED BY <1>2, <1>3 DEF Deliver

LEMMA RollbackPreserves ==
    ASSUME IInv, NEW h \in Handlers, Rollback(h)
    PROVE  IInv'
<1> USE CallAssumption DEF IInv, TypeOK, PcInv, Calls, BookingStatus, PaymentStatus, Event,
         bookingVars, paymentVars, gatewayVars, callVars, handlerVars, Rollback,
         Finish, Goto
<1>1. TypeOK'
  OBVIOUS
<1>2. PcInv'
  OBVIOUS
<1>3. RowInv' /\ EventInv' /\ BooksInv' /\ HoldInv' /\ CancelInv' /\
      DeliveryInv' /\ ConfirmedIsPaid' /\ OrphanHasNoSeats'
  BY DEF RowInv, EventInv, BooksInv, HoldInv, Settled, CancelInv, DeliveryInv,
         ConfirmedIsPaid, PaymentsOf, OrphanHasNoSeats, IsActive
<1> QED BY <1>1, <1>2, <1>3

LEMMA ApplySuccessPreserves ==
    ASSUME IInv, NEW h \in Handlers, ApplySuccess(h)
    PROVE  IInv'
<1> USE CallAssumption DEF IInv, TypeOK, PcInv, Calls, BookingStatus, PaymentStatus, Event,
         bookingVars, paymentVars, gatewayVars, callVars, handlerVars, Goto
<1> DEFINE a == event[h].of
           b == Of[a]
<1>1. /\ a \in Checkouts /\ event[h] \in sent /\ event[h].type = "succeeded"
      /\ pc[h] = "apply" /\ charge[a] = "captured" /\ b \in Bookings
      /\ recorded' = recorded \cup {event[h]}
      /\ UNCHANGED <<lapsed, closed, created, charge, refunds, sent, handed, ref>>
  BY DEF ApplySuccess, Acknowledge, DeliveryInv, EventInv
<1>2. /\ pay' \in [Checkouts -> PaymentStatus]
      /\ \A x \in Checkouts :
           \/ pay'[x] = pay[x]
           \/ x = a /\ pay[x] = "pending" /\ pay'[x] = "succeeded"
      /\ pay'[a] \in Settled
  <2>1. CASE seen[h] = "succeeded" /\ UNCHANGED pay
    BY <1>1, <2>1 DEF DeliveryInv
  <2>2. CASE MayUpdate(a, "succeeded") /\ Update(a, "succeeded")
    BY <1>1, <2>2, UpdateEffect DEF MayUpdate, Settled
  <2> QED BY <2>1, <2>2 DEF ApplySuccess
<1>3. \/ /\ bstatus[b] = "confirmed" /\ UNCHANGED bstatus
         /\ Finish(h) /\ acked' = acked \cup {event[h]}
      \/ /\ bstatus[b] = "held" /\ bstatus' = [bstatus EXCEPT ![b] = "confirmed"]
         /\ Finish(h) /\ acked' = acked \cup {event[h]}
      \/ /\ bstatus[b] \notin {"held", "confirmed"} /\ UNCHANGED bstatus
         /\ Goto(h, "refund") /\ UNCHANGED <<acked, event, seen>>
  BY DEF ApplySuccess, Acknowledge, Holdable, SetStatus
<1>4. bstatus[b] = "held" => pay'[a] = "succeeded"
  BY <1>1, <1>2 DEF HoldInv, Settled
<1>5. bstatus' \in [Bookings -> BookingStatus]
  BY <1>1, <1>3
<1> HIDE DEF a, b
<1>6. TypeOK' /\ PcInv'
  <2>1. CASE Finish(h) /\ acked' = acked \cup {event[h]}
    BY <1>1, <1>2, <1>5, <2>1 DEF Finish
  <2>2. CASE Goto(h, "refund") /\ UNCHANGED <<bstatus, acked, event, seen>>
    BY <1>1, <1>2, <2>2
  <2> QED BY <1>3, <2>1, <2>2
<1>7. RowInv' /\ EventInv' /\ BooksInv'
  BY <1>1, <1>2, <1>3 DEF Finish, RowInv, EventInv, BooksInv
<1>8. HoldInv' /\ CancelInv'
  BY <1>1, <1>2, <1>3 DEF b, Finish, HoldInv, CancelInv, Settled
<1>9. DeliveryInv'
  <2>1. CASE Finish(h)
    BY <1>1, <1>2, <2>1 DEF Finish, DeliveryInv, Settled
  <2>2. CASE Goto(h, "refund") /\ UNCHANGED <<event, seen>>
    BY <1>1, <1>2, <2>2 DEF DeliveryInv, Settled
  <2> QED BY <1>3, <2>1, <2>2
<1>10. ConfirmedIsPaid'
  BY <1>1, <1>2, <1>3, <1>4 DEF b, ConfirmedIsPaid, PaymentsOf
<1>11. OrphanHasNoSeats'
  BY <1>1, <1>2, <1>3 DEF a, b, Finish, OrphanHasNoSeats, DeliveryInv, IsActive, HoldInv
<1> QED BY <1>6, <1>7, <1>8, <1>9, <1>10, <1>11

LEMMA ApplyFailurePreserves ==
    ASSUME IInv, NEW h \in Handlers, ApplyFailure(h)
    PROVE  IInv'
<1> USE CallAssumption DEF IInv, TypeOK, PcInv, Calls, BookingStatus, PaymentStatus, Event,
         bookingVars, paymentVars, gatewayVars, callVars, handlerVars,
         ApplyFailure, Acknowledge, Finish, Goto, Update, MayUpdate
<1>1. event[h] \in sent /\ event[h].of \in Checkouts
  BY DEF DeliveryInv
<1>2. TypeOK'
  BY <1>1
<1>3. PcInv'
  BY <1>1
<1>4. ConfirmedIsPaid'
  BY <1>1 DEF DeliveryInv, Settled, ConfirmedIsPaid, PaymentsOf
<1>5. RowInv' /\ EventInv' /\ BooksInv' /\ HoldInv' /\ CancelInv' /\
      DeliveryInv' /\ OrphanHasNoSeats'
  BY <1>1 DEF RowInv, EventInv, BooksInv, HoldInv, Settled, CancelInv, DeliveryInv,
              OrphanHasNoSeats, IsActive
<1> QED BY <1>2, <1>3, <1>4, <1>5

LEMMA ApplyRefundPreserves ==
    ASSUME IInv, NEW h \in Handlers, ApplyRefund(h)
    PROVE  IInv'
<1> USE CallAssumption DEF IInv, TypeOK, PcInv, Calls, BookingStatus, PaymentStatus, Event,
         bookingVars, paymentVars, gatewayVars, callVars, handlerVars, Goto
<1> DEFINE a == event[h].of
<1>1. /\ a \in Checkouts /\ Of[a] \in Bookings /\ event[h] \in sent /\ refunds[a] > 0
      /\ CancelSeats(Of[a]) /\ Finish(h)
      /\ recorded' = recorded \cup {event[h]} /\ acked' = acked \cup {event[h]}
      /\ UNCHANGED <<lapsed, closed, created, charge, refunds, sent, handed, ref>>
  BY DEF ApplyRefund, Acknowledge, DeliveryInv, EventInv
<1>2. /\ pay' \in [Checkouts -> PaymentStatus]
      /\ \A x \in Checkouts :
           \/ pay'[x] = pay[x]
           \/ x = a /\ pay[x] \in {"pending", "succeeded"} /\ pay'[x] = "refunded"
  <2>1. CASE UNCHANGED pay
    BY <2>1
  <2>2. CASE Update(a, "refunded")
    BY <1>1, <2>2, UpdateEffect DEF MayUpdate
  <2> QED BY <2>1, <2>2 DEF ApplyRefund
<1>3. /\ bstatus' \in [Bookings -> BookingStatus]
      /\ bstatus'[Of[a]] \notin {"held", "confirmed"}
      /\ \A b \in Bookings : bstatus'[b] = bstatus[b] \/ (b = Of[a] /\ bstatus'[b] = "cancelled")
  BY <1>1, CancelSeatsEffect
<1> HIDE DEF a
<1>4. TypeOK' /\ PcInv'
  BY <1>1, <1>2, <1>3 DEF Finish
<1>5. RowInv' /\ EventInv' /\ BooksInv'
  BY <1>1, <1>2 DEF Finish, RowInv, EventInv, BooksInv
<1>6. HoldInv'
  BY <1>1, <1>2, <1>3 DEF HoldInv, Settled
<1>7. CancelInv' /\ DeliveryInv'
  BY <1>1, <1>2, <1>3 DEF Finish, CancelInv, DeliveryInv, Settled
<1>8. ConfirmedIsPaid'
  <2>1. \A x \in Checkouts : pay[x] = "succeeded" =>
          pay'[x] = "succeeded" \/ (pay'[x] = "refunded" /\ refunds[x] > 0)
    BY <1>1, <1>2
  <2>2. \A x \in Checkouts : pay[x] = "refunded" => pay'[x] = "refunded"
    BY <1>1, <1>2
  <2>3. \A b \in Bookings : bstatus'[b] = "confirmed" => bstatus[b] = "confirmed"
    BY <1>3
  <2> QED BY <1>1, <2>1, <2>2, <2>3 DEF ConfirmedIsPaid, PaymentsOf
<1>9. OrphanHasNoSeats'
  BY <1>1, <1>3 DEF Finish, OrphanHasNoSeats, IsActive, DeliveryInv
<1> QED BY <1>4, <1>5, <1>6, <1>7, <1>8, <1>9

LEMMA RefundOrphanPreserves ==
    ASSUME IInv, NEW h \in Handlers, RefundOrphan(h)
    PROVE  IInv'
<1> USE CallAssumption DEF IInv, TypeOK, PcInv, Calls, BookingStatus, PaymentStatus, Event,
         bookingVars, paymentVars, gatewayVars, callVars, handlerVars, Goto
<1> DEFINE a == event[h].of
<1>1. /\ pc[h] = "refund" /\ a \in Checkouts /\ event[h] \in recorded
      /\ charge[a] = "captured"
      /\ UNCHANGED <<bookingVars, paymentVars, charge, handed, ref>>
  BY DEF RefundOrphan, DeliveryInv, EventInv
<1> HIDE DEF a
<1>2. CASE Refund(a) /\ Goto(h, "record") /\ UNCHANGED <<acked, event, seen>>
  <2>1. TypeOK' /\ PcInv'
    BY <1>1, <1>2 DEF Refund, Send
  <2>2. RowInv' /\ EventInv' /\ BooksInv' /\ HoldInv'
    BY <1>1, <1>2 DEF Refund, Send, RowInv, EventInv, BooksInv, HoldInv, Settled
  <2>3. CancelInv'
    BY <1>1, <1>2 DEF Refund, CancelInv, Settled
  <2>4. DeliveryInv'
    BY <1>1, <1>2 DEF a, Refund, Send, DeliveryInv, Settled
  <2>5. ConfirmedIsPaid' /\ OrphanHasNoSeats'
    BY <1>1, <1>2 DEF Refund, ConfirmedIsPaid, PaymentsOf, OrphanHasNoSeats, IsActive
  <2> QED BY <2>1, <2>2, <2>3, <2>4, <2>5
<1>3. CASE Finish(h) /\ acked' = acked \cup {event[h]} /\ UNCHANGED <<refunds, sent>>
  <2>1. TypeOK' /\ PcInv'
    BY <1>1, <1>3 DEF Finish
  <2>2. RowInv' /\ EventInv' /\ BooksInv' /\ HoldInv' /\ CancelInv'
    BY <1>1, <1>3 DEF Finish, RowInv, EventInv, BooksInv, HoldInv, Settled, CancelInv
  <2>3. DeliveryInv' /\ ConfirmedIsPaid' /\ OrphanHasNoSeats'
    BY <1>1, <1>3 DEF Finish, DeliveryInv, Settled, ConfirmedIsPaid, PaymentsOf,
                      OrphanHasNoSeats, IsActive
  <2> QED BY <2>1, <2>2, <2>3
<1> QED BY <1>2, <1>3 DEF RefundOrphan, a

LEMMA RecordOrphanPreserves ==
    ASSUME IInv, NEW h \in Handlers, RecordOrphan(h)
    PROVE  IInv'
<1> USE CallAssumption DEF IInv, TypeOK, PcInv, Calls, BookingStatus, PaymentStatus, Event,
         bookingVars, paymentVars, gatewayVars, callVars, handlerVars, Goto
<1> DEFINE a == event[h].of
<1>1. /\ a \in Checkouts /\ event[h] \in recorded /\ refunds[a] > 0 /\ ~IsActive(Of[a])
      /\ Finish(h) /\ acked' = acked \cup {event[h]}
      /\ UNCHANGED <<bookingVars, created, recorded, charge, refunds, sent, handed, ref>>
  BY DEF RecordOrphan, DeliveryInv, OrphanHasNoSeats
<1>2. /\ pay' \in [Checkouts -> PaymentStatus]
      /\ \A x \in Checkouts :
           \/ pay'[x] = pay[x]
           \/ x = a /\ pay[x] \in {"pending", "succeeded"} /\ pay'[x] = "refunded"
  BY <1>1, UpdateEffect DEF RecordOrphan, MayUpdate
<1> HIDE DEF a
<1>3. TypeOK' /\ PcInv'
  BY <1>1, <1>2 DEF Finish
<1>4. RowInv' /\ EventInv' /\ BooksInv' /\ HoldInv' /\ CancelInv'
  BY <1>1, <1>2 DEF Finish, RowInv, EventInv, BooksInv, HoldInv, Settled, CancelInv, IsActive
<1>5. DeliveryInv'
  BY <1>1, <1>2 DEF Finish, DeliveryInv, Settled
<1>6. ConfirmedIsPaid'
  BY <1>1, <1>2 DEF ConfirmedIsPaid, PaymentsOf
<1>7. OrphanHasNoSeats'
  BY <1>1 DEF Finish, OrphanHasNoSeats, IsActive
<1> QED BY <1>3, <1>4, <1>5, <1>6, <1>7

LEMMA DiePreserves ==
    ASSUME IInv, NEW h \in Handlers, Die(h)
    PROVE  IInv'
<1> USE CallAssumption DEF IInv, TypeOK, PcInv, Calls, BookingStatus, PaymentStatus, Event,
         bookingVars, paymentVars, gatewayVars, callVars, handlerVars, Die, Finish,
         Goto
<1>1. TypeOK'
  OBVIOUS
<1>2. PcInv'
  OBVIOUS
<1>3. RowInv' /\ EventInv' /\ BooksInv' /\ HoldInv' /\ CancelInv' /\
      DeliveryInv' /\ ConfirmedIsPaid' /\ OrphanHasNoSeats'
  BY DEF RowInv, EventInv, BooksInv, HoldInv, Settled, CancelInv, DeliveryInv,
         ConfirmedIsPaid, PaymentsOf, OrphanHasNoSeats, IsActive
<1> QED BY <1>1, <1>2, <1>3

\* Nothing has happened yet.
LEMMA InitInv == Init => IInv
<1> SUFFICES ASSUME Init PROVE IInv
  OBVIOUS
<1> USE CallAssumption DEF Init, Calls
<1>1. PICK made \in Together :
        pc = [p \in Calls \cup Handlers |-> IF p \in made THEN "start"
                                           ELSE IF p \in Calls THEN "done" ELSE "idle"]
  OBVIOUS
<1>2. TypeOK
  BY <1>1 DEF TypeOK, BookingStatus, PaymentStatus
<1>3. PcInv
  BY <1>1 DEF PcInv
<1>4. RowInv /\ EventInv /\ BooksInv /\ HoldInv /\ ConfirmedIsPaid
  BY DEF RowInv, EventInv, BooksInv, HoldInv, Settled, ConfirmedIsPaid
<1>5. CancelInv
  BY <1>1 DEF CancelInv
<1>6. \A h \in Handlers : pc[h] = "idle"
  BY <1>1
<1>7. DeliveryInv /\ OrphanHasNoSeats
  BY <1>6 DEF DeliveryInv, OrphanHasNoSeats
<1> QED BY <1>2, <1>3, <1>4, <1>5, <1>7 DEF IInv

\* The invariant is inductive.
LEMMA NextInv == IInv /\ [Next]_vars => IInv'
<1> SUFFICES ASSUME IInv, [Next]_vars PROVE IInv'
  OBVIOUS
<1>1. ASSUME NEW b \in Bookings, Lapse(b) \/ Expire(b) \/ Close(b) PROVE IInv'
  BY <1>1, LapsePreserves, ExpirePreserves, ClosePreserves
<1>2. ASSUME NEW a \in Checkouts,
             Capture(a) \/ Decline(a) \/ GiveUp(a) \/ ConsoleRefund(a) \/ Pay(a)
      PROVE  IInv'
  BY <1>2, CapturePreserves, DeclinePreserves, GiveUpPreserves, ConsoleRefundPreserves,
     CheckHeldPreserves, LookupOpenPreserves, ExtendHoldPreserves, CreateIntentPreserves,
     CreatePreserves, DropIntentPreserves, ResumeOpenPreserves DEF Pay
<1>3. ASSUME NEW e \in sent, Resend(e) \/ Contradict(e) PROVE IInv'
  BY <1>3, ResendPreserves, ContradictPreserves
<1>4. ASSUME NEW c \in Cancels, CancelBooking(c) PROVE IInv'
  BY <1>4, CheckCancellablePreserves, FindOpenPreserves, VoidOpenPreserves,
     MarkCancelledPreserves, FindCapturedPreserves, RefundCapturedPreserves,
     RecordRefundPreserves, ReleaseSeatsPreserves DEF CancelBooking
<1>5. ASSUME NEW r \in Releases, CheckReleasable(r) \/ ReleaseSeats(r) PROVE IInv'
  BY <1>5, CheckReleasablePreserves, ReleaseSeatsPreserves
<1>6. ASSUME NEW p \in Calls, Abort(p) PROVE IInv'
  BY <1>6, AbortPreserves
<1>7. ASSUME NEW h \in Handlers, NEW e \in sent, Deliver(h, e) PROVE IInv'
  BY <1>7, DeliverPreserves
<1>8. ASSUME NEW h \in Handlers, Apply(h) \/ Rollback(h) \/ Orphan(h) \/ Die(h) PROVE IInv'
  BY <1>8, ApplySuccessPreserves, RollbackPreserves, ApplyFailurePreserves,
     ApplyRefundPreserves, RefundOrphanPreserves, RecordOrphanPreserves, DiePreserves
     DEF Apply, Orphan, RejectSuccess, Rollback
<1>9. CASE UNCHANGED vars
  BY <1>9 DEF IInv, TypeOK, PcInv, RowInv, EventInv, BooksInv, HoldInv, CancelInv,
     DeliveryInv, ConfirmedIsPaid, PaymentsOf, OrphanHasNoSeats, IsActive, vars,
     bookingVars, paymentVars, gatewayVars, callVars, handlerVars
<1> QED BY <1>1, <1>2, <1>3, <1>4, <1>5, <1>6, <1>7, <1>8, <1>9 DEF Next

\* Whatever calls, deliveries, failures and crashes there are, the invariant
\* holds.
THEOREM Invariance == Spec => []IInv
BY InitInv, NextInv, PTL DEF Spec

\* Every variable has its type, and the gateway is acknowledged (HandleWebhook)
\* only for events that are on record.
THEOREM TypeCorrect == Spec => []TypeOK
BY Invariance, PTL DEF IInv

\* A confirmed booking has a payment that was captured at the gateway and is on
\* the books or was paid back: whatever the order of callbacks, cancellations and
\* the sweeper (applySuccess, usecase/payment.go:275).
THEOREM PaidSeats == Spec => []ConfirmedIsPaid
BY Invariance, PTL DEF IInv

\* refundOrphanedCharge (usecase/payment.go:346), which runs after its transaction and
\* holds no lock, never pays back a booking that has its seats.
THEOREM OrphanRefundsAreSafe == Spec => []OrphanHasNoSeats
BY Invariance, PTL DEF IInv

-----------------------------------------------------------------------------
(* Checkout implements PaymentLedger, step by step.                          *)

\* Bookings are held and nothing is paid.
LEMMA LedgerInit == Init => Ledger!Init
BY CallAssumption DEF Init, Ledger!Init, MoneyOf, Calls

\* What the ledger does not see.
LEMMA Quiet ==
    ASSUME UNCHANGED <<bstatus, pay, refunds>>,
           \A a \in Checkouts : charge'[a] = "captured" <=> charge[a] = "captured"
    PROVE  UNCHANGED Ledger!vars
BY DEF Ledger!vars, MoneyOf

\* Reads, the calls to the gateway before money moves, and what a crash or a
\* rollback leaves behind change nothing that the ledger sees.
LEMMA QuietSteps ==
    ASSUME IInv,
           \/ \E b \in Bookings : Lapse(b) \/ Close(b)
           \/ \E a \in Checkouts :
                \/ Decline(a) \/ GiveUp(a) \/ CheckHeld(a) \/ LookupOpen(a) \/ ExtendHold(a)
                \/ CreateIntent(a) \/ DropIntent(a) \/ ResumeOpen(a)
           \/ \E e \in sent : Resend(e)
           \/ \E c \in Cancels : \/ CheckCancellable(c) \/ FindOpen(c) \/ VoidOpen(c)
                                 \/ FindCaptured(c)
           \/ \E r \in Releases : CheckReleasable(r)
           \/ \E p \in Calls : Abort(p)
           \/ \E h \in Handlers : Rollback(h) \/ Die(h) \/ \E e \in sent : Deliver(h, e)
    PROVE  UNCHANGED Ledger!vars
<1> USE DEF bookingVars, paymentVars, gatewayVars
<1>1. UNCHANGED <<bstatus, pay, refunds>>
  BY DEF Lapse, Close, Decline, GiveUp, Settle, CheckHeld, LookupOpen, ExtendHold,
     CreateIntent, DropIntent, ResumeOpen, Resend, CheckCancellable, FindOpen, VoidOpen,
     FindCaptured, CheckReleasable, Abort, Rollback, Die, Deliver
<1>2. \/ UNCHANGED charge
      \/ \E a \in Checkouts, s \in {"open", "declined", "voided"} :
           /\ charge[a] # "captured"
           /\ charge' = [charge EXCEPT ![a] = s]
  <2> USE DEF IInv, CancelInv, RowInv
  <2>1. CASE \E a \in Checkouts : Decline(a) \/ GiveUp(a)
    BY <2>1 DEF Decline, GiveUp, Settle
  <2>2. CASE \E a \in Checkouts : CreateIntent(a) \/ DropIntent(a)
    BY <2>2 DEF CreateIntent, NewIntent, DropIntent, Void
  <2>3. CASE \E c \in Cancels : VoidOpen(c)
    BY <2>3 DEF VoidOpen, Void
  <2> QED
    BY <2>1, <2>2, <2>3 DEF Lapse, Close, CheckHeld, LookupOpen, ExtendHold, ResumeOpen,
       Resend, CheckCancellable, FindOpen, FindCaptured, CheckReleasable, Abort, Rollback,
       Die, Deliver
<1>3. \A a \in Checkouts : charge'[a] = "captured" <=> charge[a] = "captured"
  BY <1>2 DEF IInv, TypeOK
<1> QED BY <1>1, <1>3, Quiet

\* The first refund returns the money; the ledger does not see a second.
LEMMA RefundIsReturn ==
    ASSUME IInv, NEW a \in Checkouts, Refund(a), charge[a] = "captured",
           UNCHANGED <<bstatus, pay, charge>>
    PROVE  [Ledger!Next]_(Ledger!vars)
<1>1. CASE refunds[a] = 0
  <2>1. MoneyOf(a) = "taken" /\ MoneyOf(a)' = "returned"
    BY <1>1 DEF Refund, MoneyOf, IInv, TypeOK
  <2>2. \A x \in Checkouts : x # a => MoneyOf(x)' = MoneyOf(x)
    BY <1>1 DEF Refund, MoneyOf, IInv, TypeOK
  <2>3. Ledger!Return(a)
    BY <2>1, <2>2 DEF Ledger!Return, Ledger!Set
  <2> QED BY <2>3 DEF Ledger!Next
<1>2. CASE refunds[a] # 0
  BY <1>2 DEF Ledger!vars, Refund, MoneyOf, IInv, TypeOK
<1> QED BY <1>1, <1>2

\* The sweeper.
LEMMA LedgerExpire ==
    ASSUME IInv, NEW b \in Bookings, Expire(b) PROVE Ledger!Next
<1>1. Ledger!Expire(b)
  BY DEF Ledger!Expire, Ledger!Set, Expire, SetStatus, MoneyOf, paymentVars, gatewayVars
<1> QED BY <1>1 DEF Ledger!Next

\* The customer can pay only for a payment that is on the books.
LEMMA LedgerTake ==
    ASSUME IInv, NEW a \in Checkouts, Capture(a) PROVE Ledger!Next
<1>1. pay[a] # "none" /\ refunds[a] = 0 /\ UNCHANGED <<bstatus, pay, refunds>>
  <2>1. charge[a] = "open" /\ a \in handed /\ UNCHANGED <<bstatus, pay, refunds>>
    BY DEF Capture, Settle, paymentVars, bookingVars
  <2>2. refunds[a] \in Nat /\ ~(refunds[a] > 0)
    BY <2>1 DEF IInv, TypeOK, BooksInv
  <2> QED BY <2>1, <2>2 DEF IInv, RowInv
<1>2. MoneyOf(a) = "none" /\ MoneyOf(a)' = "taken"
  BY <1>1 DEF Capture, Settle, MoneyOf, IInv, TypeOK
<1>3. \A x \in Checkouts : x # a => MoneyOf(x)' = MoneyOf(x)
  BY <1>1 DEF Capture, Settle, MoneyOf, IInv, TypeOK
<1>4. Ledger!Take(a)
  BY <1>1, <1>2, <1>3 DEF Ledger!Take, Ledger!Set
<1> QED BY <1>4 DEF Ledger!Next

\* A success that is announced after a failure takes money all the same; any other
\* contradiction is of words alone.
LEMMA LedgerContradict ==
    ASSUME IInv, NEW e \in sent, Contradict(e) PROVE [Ledger!Next]_(Ledger!vars)
<1> DEFINE a == e.of
<1>1. /\ a \in Checkouts /\ pay[a] # "none" /\ UNCHANGED <<bstatus, pay, refunds>>
      /\ charge' \in {charge, [charge EXCEPT ![a] = "captured"]}
  BY DEF Contradict, Simulable, bookingVars, paymentVars, IInv, TypeOK, Event, EventInv, RowInv
<1> HIDE DEF a
<1>2. CASE charge'[a] = charge[a]
  <2>1. charge' = charge
    BY <1>1, <1>2 DEF IInv, TypeOK
  <2> QED BY <1>1, <2>1, Quiet
<1>3. CASE charge'[a] # charge[a]
  <2>1. charge[a] # "captured" /\ charge' = [charge EXCEPT ![a] = "captured"]
    BY <1>1, <1>3 DEF IInv, TypeOK
  <2>2. refunds[a] = 0
    BY <1>1, <2>1 DEF IInv, TypeOK, BooksInv
  <2>3. MoneyOf(a) = "none" /\ MoneyOf(a)' = "taken"
    BY <1>1, <2>1, <2>2 DEF MoneyOf, IInv, TypeOK
  <2>4. \A x \in Checkouts : x # a => MoneyOf(x)' = MoneyOf(x)
    BY <1>1, <2>1 DEF MoneyOf, IInv, TypeOK
  <2>5. Ledger!Take(a)
    BY <1>1, <2>3, <2>4 DEF Ledger!Take, Ledger!Set
  <2> QED BY <1>1, <2>5 DEF Ledger!Next
<1> QED BY <1>2, <1>3

\* The insert, which payments_single_open_idx lets through for one at a time.
LEMMA LedgerBegin ==
    ASSUME IInv, NEW a \in Checkouts, Create(a) PROVE [Ledger!Next]_(Ledger!vars)
<1>1. CASE Open(Of[a]) = {} /\ pay' = [pay EXCEPT ![a] = "pending"]
  <2>1. Ledger!Begin(a)
    BY <1>1 DEF Create, Ledger!Begin, Ledger!Open, Ledger!Set, Open, PaymentsOf, MoneyOf,
       bookingVars, IInv, TypeOK, RowInv
  <2> QED BY <2>1 DEF Ledger!Next
<1>2. CASE UNCHANGED pay
  BY <1>2, Quiet DEF Create, bookingVars
<1> QED BY <1>1, <1>2 DEF Create

\* CancelBooking's own mark on an open payment.
LEMMA LedgerCallOff ==
    ASSUME IInv, NEW c \in Cancels, MarkCancelled(c) PROVE [Ledger!Next]_(Ledger!vars)
<1> DEFINE a == ref[c]
<1>1. /\ a \in Checkouts /\ UNCHANGED <<bstatus, charge, refunds>>
      /\ pay' = [pay EXCEPT ![a] = IF MayUpdate(a, "cancelled") THEN "cancelled" ELSE @]
  BY DEF MarkCancelled, Update, IInv, CancelInv, bookingVars, gatewayVars
<1> HIDE DEF a
<1>2. CASE MayUpdate(a, "cancelled")
  <2>1. Ledger!CallOff(a)
    BY <1>1, <1>2 DEF Ledger!CallOff, Ledger!Set, MayUpdate, MoneyOf
  <2> QED BY <1>1, <2>1 DEF Ledger!Next
<1>3. CASE ~MayUpdate(a, "cancelled")
  BY <1>1, <1>3, Quiet DEF IInv, TypeOK
<1> QED BY <1>2, <1>3

\* A refund recorded without touching the seats.
LEMMA RecordIsBookReturn ==
    ASSUME IInv, NEW a \in Checkouts, Update(a, "refunded"), refunds[a] > 0,
           UNCHANGED <<bstatus, charge, refunds>>
    PROVE  Ledger!Next
<1>1. MoneyOf(a) = "returned"
  BY DEF IInv, TypeOK, BooksInv, MoneyOf
<1>2. Ledger!BookReturn(a)
  <2>1. CASE MayUpdate(a, "refunded")
    BY <1>1, <2>1 DEF Update, MayUpdate, Ledger!BookReturn, Ledger!Set, MoneyOf
  <2>2. CASE ~MayUpdate(a, "refunded")
    BY <1>1, <2>2 DEF Update, Ledger!BookReturn, MoneyOf, IInv, TypeOK
  <2> QED BY <2>1, <2>2
<1> QED BY <1>2 DEF Ledger!Next

\* bookings.Cancel, by a cancellation or a release.
LEMMA LedgerRelease ==
    ASSUME IInv, NEW c \in Cancels \cup Releases, ReleaseSeats(c)
    PROVE  [Ledger!Next]_(Ledger!vars)
<1>1. Of[c] \in Bookings /\ UNCHANGED <<pay, charge, refunds>>
  BY CallAssumption DEF Calls, ReleaseSeats, paymentVars, gatewayVars
<1>2. CASE IsActive(Of[c])
  <2>1. Ledger!Release(Of[c])
    BY <1>1, <1>2 DEF ReleaseSeats, CancelSeats, SetStatus, IsActive, Ledger!Release,
       Ledger!Set, MoneyOf
  <2> QED BY <1>1, <2>1 DEF Ledger!Next
<1>3. CASE ~IsActive(Of[c])
  BY <1>1, <1>3, Quiet DEF ReleaseSeats, CancelSeats
<1> QED BY <1>2, <1>3

\* settle: what the gateway has taken meanwhile stays taken.
LEMMA LedgerFail ==
    ASSUME IInv, NEW h \in Handlers, ApplyFailure(h) PROVE [Ledger!Next]_(Ledger!vars)
<1> DEFINE a == event[h].of
           s == event[h].type
<1>1. /\ a \in Checkouts /\ s \in {"failed", "cancelled"}
      /\ UNCHANGED <<bstatus, charge, refunds>>
      /\ pay' = [pay EXCEPT ![a] = IF MayUpdate(a, s) THEN s ELSE @]
  BY DEF ApplyFailure, Update, IInv, TypeOK, PcInv, DeliveryInv, EventInv, Event, bookingVars
<1> HIDE DEF a, s
<1>2. CASE MayUpdate(a, s) /\ s = "failed"
  <2>1. Ledger!Fail(a)
    BY <1>1, <1>2 DEF Ledger!Fail, Ledger!Set, MayUpdate, MoneyOf
  <2> QED BY <1>1, <2>1 DEF Ledger!Next
<1>3. CASE MayUpdate(a, s) /\ s = "cancelled"
  <2>1. Ledger!CallOff(a)
    BY <1>1, <1>3 DEF Ledger!CallOff, Ledger!Set, MayUpdate, MoneyOf
  <2> QED BY <1>1, <2>1 DEF Ledger!Next
<1>4. CASE ~MayUpdate(a, s)
  BY <1>1, <1>4, Quiet DEF IInv, TypeOK
<1> QED BY <1>1, <1>2, <1>3, <1>4

\* applySuccess books the payment and confirms the booking in one step; a
\* payment it read as succeeded is of a booking that is not held any more.
LEMMA LedgerBook ==
    ASSUME IInv, NEW h \in Handlers, ApplySuccess(h) PROVE [Ledger!Next]_(Ledger!vars)
<1> DEFINE a == event[h].of
           b == Of[a]
<1>1. /\ a \in Checkouts /\ charge[a] = "captured" /\ UNCHANGED <<charge, refunds>>
      /\ \/ bstatus[b] # "held" /\ UNCHANGED bstatus
         \/ bstatus[b] = "held" /\ bstatus' = [bstatus EXCEPT ![b] = "confirmed"]
  BY DEF ApplySuccess, Holdable, SetStatus, IInv, TypeOK, DeliveryInv, EventInv, Event
<1>2. CASE seen[h] = "succeeded" /\ UNCHANGED pay
  <2>1. pay[a] \in Settled
    BY <1>2 DEF ApplySuccess, IInv, DeliveryInv
  <2>2. UNCHANGED bstatus
    BY <1>1, <2>1 DEF IInv, HoldInv
  <2> QED BY <1>1, <1>2, <2>2, Quiet
<1>3. CASE MayUpdate(a, "succeeded") /\ pay' = [pay EXCEPT ![a] = "succeeded"]
  <2> HIDE DEF a
  <2>1. Ledger!Book(a)
    BY <1>1, <1>3 DEF Ledger!Book, Ledger!Set, MayUpdate, MoneyOf
  <2> QED BY <1>1, <2>1 DEF Ledger!Next
<1> QED BY <1>2, <1>3 DEF ApplySuccess, Update

\* applyRefund books the refund and frees the seats in one step.
LEMMA LedgerRefund ==
    ASSUME IInv, NEW h \in Handlers, ApplyRefund(h) PROVE Ledger!Next
<1> DEFINE a == event[h].of
           b == Of[a]
<1>1. /\ a \in Checkouts /\ refunds[a] > 0 /\ charge[a] = "captured"
      /\ UNCHANGED <<charge, refunds>>
  BY DEF ApplyRefund, IInv, TypeOK, DeliveryInv, EventInv, BooksInv, Event
<1>2. \/ UNCHANGED bstatus
      \/ bstatus[b] \in {"held", "confirmed"} /\ bstatus' = [bstatus EXCEPT ![b] = "cancelled"]
  BY DEF ApplyRefund, CancelSeats, SetStatus, IsActive
<1>3. \/ UNCHANGED pay
      \/ pay[a] \in {"pending", "succeeded"} /\ pay' = [pay EXCEPT ![a] = "refunded"]
  <2>1. CASE UNCHANGED pay
    BY <2>1
  <2>2. CASE Update(a, "refunded")
    BY <1>1, <2>2 DEF Update, MayUpdate, IInv, TypeOK
  <2> QED BY <2>1, <2>2 DEF ApplyRefund
<1> HIDE DEF a
<1>4. MoneyOf(a) = "returned" /\ UNCHANGED [x \in Checkouts |-> MoneyOf(x)]
  BY <1>1 DEF MoneyOf, IInv, TypeOK
<1>5. Ledger!BookReturn(a)
  BY <1>1, <1>2, <1>3, <1>4 DEF Ledger!BookReturn, Ledger!Set
<1> QED BY <1>1, <1>5 DEF Ledger!Next

\* Every step is a step of the ledger, or none.
LEMMA LedgerStep == IInv /\ [Next]_vars => [Ledger!Next]_(Ledger!vars)
<1> SUFFICES ASSUME IInv, [Next]_vars PROVE [Ledger!Next]_(Ledger!vars)
  OBVIOUS
<1>1. ASSUME NEW b \in Bookings, Lapse(b) \/ Expire(b) \/ Close(b)
      PROVE  [Ledger!Next]_(Ledger!vars)
  BY <1>1, QuietSteps, LedgerExpire
<1>2. ASSUME NEW a \in Checkouts,
             Capture(a) \/ Decline(a) \/ GiveUp(a) \/ ConsoleRefund(a) \/ Pay(a)
      PROVE  [Ledger!Next]_(Ledger!vars)
  <2>1. CASE ConsoleRefund(a)
    BY <2>1, RefundIsReturn DEF ConsoleRefund, bookingVars, paymentVars
  <2> QED BY <1>2, <2>1, QuietSteps, LedgerTake, LedgerBegin DEF Pay
<1>3. ASSUME NEW e \in sent, Resend(e) \/ Contradict(e) PROVE [Ledger!Next]_(Ledger!vars)
  BY <1>3, QuietSteps, LedgerContradict
<1>4. ASSUME NEW c \in Cancels, CancelBooking(c) PROVE [Ledger!Next]_(Ledger!vars)
  <2>1. CASE RefundCaptured(c)
    <3>1. /\ ref[c] \in Checkouts /\ charge[ref[c]] = "captured"
          /\ UNCHANGED <<bstatus, pay, charge>>
      BY <2>1 DEF RefundCaptured, IInv, CancelInv, BooksInv, Settled, bookingVars, paymentVars
    <3>2. CASE Refund(ref[c])
      BY <3>1, <3>2, RefundIsReturn
    <3>3. CASE UNCHANGED refunds
      BY <3>1, <3>3, Quiet
    <3> QED BY <2>1, <3>2, <3>3 DEF RefundCaptured
  <2>2. CASE RecordRefund(c)
    <3>1. /\ ref[c] \in Checkouts /\ refunds[ref[c]] > 0 /\ Update(ref[c], "refunded")
          /\ UNCHANGED <<bstatus, charge, refunds>>
      BY <2>2 DEF RecordRefund, IInv, CancelInv, bookingVars, gatewayVars
    <3> QED BY <3>1, RecordIsBookReturn
  <2> QED BY <1>4, <2>1, <2>2, QuietSteps, LedgerCallOff, LedgerRelease DEF CancelBooking
<1>5. ASSUME NEW r \in Releases, CheckReleasable(r) \/ ReleaseSeats(r)
      PROVE  [Ledger!Next]_(Ledger!vars)
  BY <1>5, QuietSteps, LedgerRelease
<1>6. ASSUME NEW p \in Calls, Abort(p) PROVE [Ledger!Next]_(Ledger!vars)
  BY <1>6, QuietSteps
<1>7. ASSUME NEW h \in Handlers, NEW e \in sent, Deliver(h, e)
      PROVE  [Ledger!Next]_(Ledger!vars)
  BY <1>7, QuietSteps
<1>8. ASSUME NEW h \in Handlers, Apply(h) \/ Rollback(h) \/ Orphan(h) \/ Die(h)
      PROVE  [Ledger!Next]_(Ledger!vars)
  <2>1. CASE RefundOrphan(h)
    <3>1. /\ event[h].of \in Checkouts /\ charge[event[h].of] = "captured"
          /\ UNCHANGED <<bstatus, pay, charge>>
      BY <2>1 DEF RefundOrphan, IInv, TypeOK, DeliveryInv, EventInv, Event, bookingVars,
         paymentVars
    <3>2. CASE Refund(event[h].of)
      BY <3>1, <3>2, RefundIsReturn
    <3>3. CASE UNCHANGED refunds
      BY <3>1, <3>3, Quiet
    <3> QED BY <2>1, <3>2, <3>3 DEF RefundOrphan
  <2>2. CASE RecordOrphan(h)
    <3>1. /\ event[h].of \in Checkouts /\ refunds[event[h].of] > 0
          /\ Update(event[h].of, "refunded") /\ UNCHANGED <<bstatus, charge, refunds>>
      BY <2>2 DEF RecordOrphan, IInv, TypeOK, DeliveryInv, Event, bookingVars
    <3> QED BY <3>1, RecordIsBookReturn
  <2> QED BY <1>8, <2>1, <2>2, QuietSteps, LedgerBook, LedgerFail, LedgerRefund
          DEF Apply, Orphan, RejectSuccess, Rollback
<1>9. CASE UNCHANGED vars
  BY <1>9, Quiet DEF vars, bookingVars, paymentVars, gatewayVars
<1> QED BY <1>1, <1>2, <1>3, <1>4, <1>5, <1>6, <1>7, <1>8, <1>9 DEF Next

\* The payment use case, one statement or gateway call at a time, implements
\* PaymentLedger, so what PaymentLedgerProofs shows of the ledger holds of it.
THEOREM ImplementsLedger == Spec => LedgerSpec
<1>1. IInv /\ IInv' /\ [Next]_vars => [Ledger!Next]_(Ledger!vars)
  BY LedgerStep
<1> QED BY Invariance, LedgerInit, <1>1, PTL DEF Spec, LedgerSpec, Ledger!Spec

-----------------------------------------------------------------------------
(* What PaymentLedgerProofs shows of the ledger holds of the use case.       *)

Proved == INSTANCE PaymentLedgerProofs WITH
    Payments <- Checkouts, For <- [a \in Checkouts |-> Of[a]],
    booking <- bstatus, payment <- pay, money <- [a \in Checkouts |-> MoneyOf(a)]

\* The ledger the use case implements is the one the theorems are about.
LEMMA SameLedger ==
    /\ [a \in Checkouts |-> Of[a]] \in [Checkouts -> Bookings]
    /\ LedgerSpec => Proved!Spec
<1>1. [a \in Checkouts |-> Of[a]] \in [Checkouts -> Bookings]
  BY CallAssumption DEF Calls
<1>2. Ledger!Init => Proved!Init
  BY DEF Ledger!Init, Proved!Init
<1>3. [Ledger!Next]_(Ledger!vars) => [Proved!Next]_(Proved!vars)
  BY DEF Ledger!Next, Ledger!Open, Ledger!Begin, Ledger!Take, Ledger!Book, Ledger!Fail,
         Ledger!CallOff, Ledger!Return, Ledger!BookReturn, Ledger!Release, Ledger!Expire,
         Ledger!Set, Ledger!vars,
         Proved!Next, Proved!Open, Proved!Begin, Proved!Take, Proved!Book, Proved!Fail,
         Proved!CallOff, Proved!Return, Proved!BookReturn, Proved!Release, Proved!Expire,
         Proved!Set, Proved!vars
<1>4. LedgerSpec => Proved!Spec
  BY <1>2, <1>3, PTL DEF LedgerSpec, Ledger!Spec, Proved!Spec
<1> QED BY <1>1, <1>4

\* Whatever calls, callbacks and crashes meet, the payments table says nothing
\* the gateway did not do, and a booking has one open payment at most
\* (payments_single_open_idx, usecase/payment.go).
THEOREM BooksAreRight ==
    Spec => [](Ledger!BooksMatchGateway /\ Ledger!SingleOpenPayment)
<1>1. Proved!Spec => [](Proved!BooksMatchGateway /\ Proved!ConfirmedIsPaid /\ Proved!SingleOpenPayment)
  BY SameLedger, Proved!LedgerIsSound
<1>2. Proved!BooksMatchGateway /\ Proved!SingleOpenPayment
        => Ledger!BooksMatchGateway /\ Ledger!SingleOpenPayment
  BY DEF Proved!BooksMatchGateway, Proved!SingleOpenPayment, Proved!Open,
         Ledger!BooksMatchGateway, Ledger!SingleOpenPayment, Ledger!Open
<1> QED BY ImplementsLedger, SameLedger, <1>1, <1>2, PTL

\* A late, repeated or reordered callback never brings back a payment that is
\* settled or a booking that is over.
THEOREM SettledForGood == Spec => Ledger!SettledIsFinal
<1>1. Proved!Spec => Proved!SettledIsFinal
  BY SameLedger, Proved!LedgerIsFinal
<1>2. LedgerSpec => Proved!Spec
  BY SameLedger
<1> QED BY ImplementsLedger, <1>1, <1>2, PTL
        DEF Proved!SettledIsFinal, Ledger!SettledIsFinal, Proved!vars, Ledger!vars

-----------------------------------------------------------------------------
(* How often money is paid back.                                             *)

Busy == {"apply", "refund", "record"}

\* No two deliveries handle the same event; one that has not committed handles
\* an event that is not on record.
EventsApart ==
    /\ \A g, h \in Handlers : {pc[g], pc[h]} \subseteq Busy /\ event[g] = event[h] => g = h
    /\ \A h \in Handlers : pc[h] = "apply" => event[h] \notin recorded

\* A cancellation refunds payments of its own booking only.
OwnPayment == \A c \in Cancels : ref[c] \in Checkouts => Of[ref[c]] = Of[c]

SuccessesOf(a) == {e \in recorded : e.of = a /\ e.type = "succeeded"}

\* The success events on record whose automatic refund is not still to come.
Answered(a) ==
    {e \in SuccessesOf(a) : \A h \in Handlers : pc[h] = "refund" => event[h] # e}

\* The cancellations that may have made their refund of a.
Refunders(a) == {c \in Cancels : ref[c] = a /\ pc[c] \in {"record", "release", "done"}}

AtConsole == IF ConsoleRefunds THEN 1 ELSE 0

RefundsCounted ==
    \A a \in Checkouts :
        refunds[a] <= Cardinality(Answered(a)) + Cardinality(Refunders(a)) + AtConsole

RefundInv == EventsApart /\ OwnPayment /\ RefundsCounted

\* Refunds of one payment: those of the webhook path, of cancellations and of
\* the console.
RefundBound ==
    \A a \in Checkouts :
        refunds[a] <= Cardinality(SuccessesOf(a))
                      + Cardinality({c \in Cancels : Of[c] = Of[a]}) + AtConsole

\* The gateway has a bounded number of ids for one outcome.
SuccessEvents(a) == {e \in Event : e.of = a /\ e.type = "succeeded"}

\* An injection into the copies bounds them.
LEMMA SuccessesFinite ==
    ASSUME NEW a \in Checkouts
    PROVE  IsFiniteSet(SuccessEvents(a))
<1> DEFINE T == SuccessEvents(a)
           f == [e \in T |-> e.copy]
<1>1. f \in [T -> 1 .. MaxCopies]
  BY DEF SuccessEvents, Event
<1>2. ASSUME NEW d \in T, NEW e \in T, f[d] = f[e] PROVE d = e
  BY <1>2 DEF SuccessEvents, Event
<1>3. f \in Injection(T, 1 .. MaxCopies)
  BY <1>1, <1>2 DEF Injection, IsInjective
<1>4. IsFiniteSet(1 .. MaxCopies)
  <2>1. MaxCopies \in Int
    BY CallAssumption
  <2> QED BY <2>1, FS_Interval
<1> HIDE DEF T, f
<1>5. IsFiniteSet(T)
  BY <1>3, <1>4, FS_Injection
<1> QED BY <1>5 DEF T

\* A set that grows by an element it did not have counts one more.
LEMMA CountsGrow ==
    ASSUME NEW S, NEW T, IsFiniteSet(T), S \subseteq T
    PROVE  /\ Cardinality(S) \in Nat /\ Cardinality(T) \in Nat
           /\ Cardinality(S) <= Cardinality(T)
           /\ \A x \in T : x \notin S => Cardinality(S) + 1 <= Cardinality(T)
<1>1. IsFiniteSet(S) /\ Cardinality(S) <= Cardinality(T)
  BY FS_Subset
<1>2. ASSUME NEW x \in T, x \notin S PROVE Cardinality(S) + 1 <= Cardinality(T)
  <2>1. Cardinality(S \cup {x}) = Cardinality(S) + 1
    BY <1>1, <1>2, FS_AddElement
  <2>2. Cardinality(S \cup {x}) <= Cardinality(T)
    BY FS_Subset
  <2> QED BY <2>1, <2>2
<1> QED BY <1>1, <1>2, FS_CardinalityType

\* The steps of everything but a delivery.
CallStep ==
    \/ \E b \in Bookings : Lapse(b) \/ Expire(b) \/ Close(b)
    \/ \E a \in Checkouts : Capture(a) \/ Decline(a) \/ GiveUp(a) \/ ConsoleRefund(a) \/ Pay(a)
    \/ \E e \in sent : Resend(e) \/ Contradict(e)
    \/ \E c \in Cancels : CancelBooking(c)
    \/ \E r \in Releases : CheckReleasable(r) \/ ReleaseSeats(r)
    \/ \E p \in Calls : Abort(p)

DeliveryStep(h) ==
    \/ \E e \in sent : Deliver(h, e)
    \/ Apply(h) \/ Rollback(h) \/ Orphan(h) \/ Die(h)

\* Calls do not touch events.
LEMMA CallsLeaveDeliveries ==
    ASSUME IInv, CallStep
    PROVE  UNCHANGED <<event, recorded>> /\ \A h \in Handlers : pc'[h] = pc[h]
<1>1. UNCHANGED <<event, recorded>>
  BY DEF CallStep, Lapse, Expire, Close, Capture, Decline, GiveUp, Settle, ConsoleRefund,
     Pay, CheckHeld, LookupOpen, ExtendHold, CreateIntent, Create, DropIntent, ResumeOpen,
     Resend, Contradict, CancelBooking, CheckCancellable, FindOpen, VoidOpen,
     MarkCancelled, FindCaptured, RefundCaptured, RecordRefund, ReleaseSeats, CheckReleasable, Abort,
     paymentVars, handlerVars
<1>2. UNCHANGED pc \/ \E p \in Calls : \E l : Goto(p, l)
  BY DEF CallStep, Lapse, Expire, Close, Capture, Decline, GiveUp, Settle, ConsoleRefund,
     Pay, CheckHeld, LookupOpen, ExtendHold, CreateIntent, Create, DropIntent, ResumeOpen,
     Resend, Contradict, CancelBooking, CheckCancellable, FindOpen, VoidOpen,
     MarkCancelled, FindCaptured, RefundCaptured, RecordRefund, ReleaseSeats, CheckReleasable, Abort,
     callVars, Calls
<1>3. \A p \in Calls, h \in Handlers : p # h
  BY CallAssumption DEF Calls
<1> QED BY <1>1, <1>2, <1>3 DEF Goto, IInv, TypeOK

\* What one step of a delivery does to events.
LEMMA DeliveryMoves ==
    ASSUME IInv, NEW h \in Handlers, DeliveryStep(h)
    PROVE  /\ UNCHANGED ref /\ \A p \in Calls : pc'[p] = pc[p]
           /\ \A g \in Handlers : g # h => pc'[g] = pc[g] /\ event'[g] = event[g]
           /\ \/ /\ UNCHANGED <<pc, event, refunds>>
                 /\ \E e : recorded' = recorded \cup {e} /\ ~Recording(e)
              \/ /\ pc'[h] = "apply" /\ event'[h] \notin recorded /\ ~Recording(event'[h])
                 /\ pc[h] = "idle" /\ UNCHANGED <<recorded, refunds>>
              \/ /\ pc'[h] = "idle" /\ UNCHANGED refunds
                 /\ \/ UNCHANGED recorded
                    \/ pc[h] = "apply" /\ recorded' = recorded \cup {event[h]}
              \/ /\ pc[h] = "apply" /\ pc'[h] = "refund" /\ event[h].type = "succeeded"
                 /\ recorded' = recorded \cup {event[h]} /\ UNCHANGED <<event, refunds>>
              \/ /\ pc[h] = "refund" /\ pc'[h] = "record" /\ UNCHANGED <<event, recorded>>
                 /\ Refund(event[h].of)
<1>1. \A p \in Calls : p # h
  BY CallAssumption DEF Calls
<1> USE DEF IInv, TypeOK, Goto
<1>2. CASE \E e \in sent : Deliver(h, e)
  BY <1>1, <1>2 DEF Deliver, Duplicate, Verified
<1>3. CASE ApplySuccess(h)
  BY <1>1, <1>3 DEF ApplySuccess, Acknowledge, Finish
<1>4. CASE RejectSuccess(h) \/ Rollback(h) \/ Die(h)
  BY <1>1, <1>4 DEF RejectSuccess, Rollback, Die, Finish, paymentVars, gatewayVars
<1>5. CASE ApplyFailure(h) \/ ApplyRefund(h)
  BY <1>1, <1>5 DEF ApplyFailure, ApplyRefund, Acknowledge, Finish
<1>6. CASE RefundOrphan(h)
  BY <1>1, <1>6 DEF RefundOrphan, Finish, paymentVars
<1>7. CASE RecordOrphan(h)
  BY <1>1, <1>7 DEF RecordOrphan, Finish
<1> QED BY <1>2, <1>3, <1>4, <1>5, <1>6, <1>7 DEF DeliveryStep, Apply, Orphan

\* RecordEvent waits for a transaction that records the same event.
LEMMA EventsApartStep ==
    ASSUME IInv, EventsApart, [Next]_vars
    PROVE  EventsApart'
<1>1. CASE CallStep
  BY <1>1, CallsLeaveDeliveries DEF EventsApart
<1>2. ASSUME NEW h \in Handlers, DeliveryStep(h) PROVE EventsApart'
  BY <1>2, DeliveryMoves DEF EventsApart, Recording, Busy, IInv, PcInv, DeliveryInv
<1>3. CASE UNCHANGED vars
  BY <1>3 DEF EventsApart, vars, paymentVars, callVars, handlerVars
<1> QED BY <1>1, <1>2, <1>3 DEF Next, CallStep, DeliveryStep

\* A cancellation looks up payments of its booking, and once it has made its
\* refund it looks up no other.
LEMMA CancelMoves ==
    ASSUME IInv, CallStep, OwnPayment
    PROVE  /\ OwnPayment'
           /\ \A c \in Cancels :
                /\ pc[c] \in {"record", "release", "done"} =>
                     ref'[c] = ref[c] /\ pc'[c] \in {"record", "release", "done"}
<1> USE DEF IInv, TypeOK, Goto, OwnPayment
<1>1. ASSUME NEW c \in Cancels, FindOpen(c) \/ FindCaptured(c),
             NEW l, Goto(c, l), l \in {"void", "captured", "refund", "release"},
             pc[c] \in {"open", "captured"}
      PROVE  /\ OwnPayment'
             /\ \A x \in Cancels : pc[x] \in {"record", "release", "done"} =>
                  ref'[x] = ref[x] /\ pc'[x] \in {"record", "release", "done"}
  <2>1. CASE UNCHANGED ref
    BY <1>1, <2>1 DEF Calls
  <2>2. CASE \E o \in PaymentsOf(Of[c]) : ref' = [ref EXCEPT ![c] = o]
    BY <1>1, <2>2 DEF Calls, PaymentsOf
  <2> QED BY <1>1, <2>1, <2>2 DEF FindOpen, Open, FindCaptured, LatestSucceeded, Succeeded
<1>2. ASSUME NEW c \in Cancels, FindOpen(c) \/ FindCaptured(c)
      PROVE  \E l : /\ Goto(c, l) /\ l \in {"void", "captured", "refund", "release"}
                    /\ pc[c] \in {"open", "captured"}
  BY <1>2 DEF FindOpen, FindCaptured
<1>3. CASE /\ UNCHANGED ref
           /\ \/ UNCHANGED pc
              \/ \E p \in Calls \ Cancels : \E l : Goto(p, l)
              \/ \E p \in Calls : Goto(p, "done")
              \/ \E c \in Cancels : \E l \in {"record", "release"} : Goto(c, l)
              \/ \E c \in Cancels : \E l : Goto(c, l) /\ pc[c] \in {"start", "void", "mark"}
  BY <1>3 DEF Calls
<1>4. CallStep => \/ \E c \in Cancels : FindOpen(c) \/ FindCaptured(c)
                  \/ /\ UNCHANGED ref
                     /\ \/ UNCHANGED pc
                        \/ \E p \in Calls \ Cancels : \E l : Goto(p, l)
                        \/ \E p \in Calls : Goto(p, "done")
                        \/ \E c \in Cancels : \E l \in {"record", "release"} : Goto(c, l)
                        \/ \E c \in Cancels : \E l :
                             Goto(c, l) /\ pc[c] \in {"start", "void", "mark"}
  BY CallAssumption DEF CallStep, Lapse, Expire, Close, Capture, Decline, GiveUp, Settle,
     ConsoleRefund, Pay, CheckHeld, LookupOpen, ExtendHold, CreateIntent, Create, DropIntent,
     ResumeOpen, Resend, Contradict, CancelBooking, CheckCancellable, FindOpen, VoidOpen,
     MarkCancelled,
     FindCaptured, RefundCaptured, RecordRefund, ReleaseSeats, CheckReleasable, Abort,
     callVars, Calls
<1> QED BY <1>1, <1>2, <1>3, <1>4

\* One more refund is one more event answered, one more cancellation past its
\* refund, or the console's only one.
LEMMA CountStep ==
    ASSUME IsFiniteSet(Cancels), NEW a \in Checkouts, TypeOK, TypeOK',
           refunds[a] <= Cardinality(Answered(a)) + Cardinality(Refunders(a)) + AtConsole,
           Answered(a) \subseteq Answered(a)', Refunders(a) \subseteq Refunders(a)',
           \/ refunds'[a] = refunds[a]
           \/ /\ refunds'[a] = refunds[a] + 1
              /\ \/ \E e \in Answered(a)' : e \notin Answered(a)
                 \/ \E c \in Refunders(a)' : c \notin Refunders(a)
                 \/ ConsoleRefunds /\ refunds[a] = 0
    PROVE  (refunds[a] <= Cardinality(Answered(a)) + Cardinality(Refunders(a)) + AtConsole)'
<1> DEFINE S == Answered(a)
           T == Refunders(a)
           m == Cardinality(S)
           n == Cardinality(T)
<1>1. IsFiniteSet(S')
  <2>1. S' \subseteq SuccessEvents(a)
    BY DEF TypeOK, Answered, SuccessesOf, SuccessEvents
  <2> QED BY <2>1, SuccessesFinite, FS_Subset
<1>2. IsFiniteSet(T')
  BY FS_Subset DEF Refunders
<1>3. /\ m \in Nat /\ m' \in Nat /\ m <= m'
      /\ \A e \in S' : e \notin S => m + 1 <= m'
  BY <1>1, CountsGrow
<1>4. /\ n \in Nat /\ n' \in Nat /\ n <= n'
      /\ \A c \in T' : c \notin T => n + 1 <= n'
  BY <1>2, CountsGrow
<1>5. AtConsole \in Nat /\ (ConsoleRefunds => AtConsole = 1) /\ AtConsole' = AtConsole
  BY DEF AtConsole
<1>6. refunds[a] \in Nat /\ refunds'[a] \in Nat
  BY DEF TypeOK
<1> HIDE DEF S, T, m, n
<1>7. refunds[a] <= m + n + AtConsole
  BY DEF m, n, S, T
<1>8. refunds'[a] <= m' + n' + AtConsole
  BY <1>3, <1>4, <1>5, <1>6, <1>7 DEF S, T
<1> QED BY <1>5, <1>8 DEF m, n, S, T

\* Every refund is accounted for.
LEMMA RefundsCountedStep ==
    ASSUME IsFiniteSet(Cancels), IInv, IInv', RefundInv, [Next]_vars
    PROVE  RefundsCounted'
<1> SUFFICES ASSUME NEW a \in Checkouts
             PROVE  (refunds[a] <= Cardinality(Answered(a)) + Cardinality(Refunders(a))
                                     + AtConsole)'
  BY DEF RefundsCounted
<1> USE DEF IInv, RefundInv
<1>1. refunds[a] <= Cardinality(Answered(a)) + Cardinality(Refunders(a)) + AtConsole
  BY DEF RefundsCounted
<1>2. CASE CallStep
  <2>1. Answered(a)' = Answered(a)
    BY <1>2, CallsLeaveDeliveries DEF Answered, SuccessesOf
  <2>2. Refunders(a) \subseteq Refunders(a)'
    BY <1>2, CancelMoves DEF Refunders
  <2>3. CASE \E x \in Checkouts : ConsoleRefund(x)
    <3>1. \/ refunds'[a] = refunds[a]
          \/ refunds'[a] = refunds[a] + 1 /\ ConsoleRefunds /\ refunds[a] = 0
      BY <2>3 DEF ConsoleRefund, Refund, TypeOK
    <3> QED BY <1>1, <2>1, <2>2, <3>1, CountStep
  <2>4. ASSUME NEW c \in Cancels, RefundCaptured(c), Refund(ref[c]), Goto(c, "record"),
               UNCHANGED ref
        PROVE  (refunds[a] <= Cardinality(Answered(a)) + Cardinality(Refunders(a))
                                + AtConsole)'
    <3>1. CASE ref[c] = a
      <4>1. refunds'[a] = refunds[a] + 1
        BY <2>4, <3>1 DEF Refund, TypeOK
      <4>2. c \notin Refunders(a) /\ c \in Refunders(a)'
        BY <2>4, <3>1 DEF RefundCaptured, Refunders, Goto, TypeOK, Calls
      <4> QED BY <1>1, <2>1, <2>2, <4>1, <4>2, CountStep
    <3>2. CASE ref[c] # a
      <4>1. refunds'[a] = refunds[a]
        BY <2>4, <3>2 DEF Refund, TypeOK
      <4> QED BY <1>1, <2>1, <2>2, <4>1, CountStep
    <3> QED BY <3>1, <3>2
  <2>5. CASE UNCHANGED refunds
    BY <1>1, <2>1, <2>2, <2>5, CountStep
  <2>6. \/ UNCHANGED refunds
        \/ \E x \in Checkouts : ConsoleRefund(x)
        \/ \E c \in Cancels : /\ RefundCaptured(c) /\ Refund(ref[c]) /\ Goto(c, "record")
                              /\ UNCHANGED ref
    BY <1>2 DEF CallStep, Lapse, Expire, Close, Capture, Decline, GiveUp, Settle, Pay,
       CheckHeld, LookupOpen, ExtendHold, CreateIntent, Create, DropIntent, ResumeOpen,
       Resend, Contradict, CancelBooking, CheckCancellable, FindOpen, VoidOpen, MarkCancelled,
       FindCaptured, RefundCaptured, RecordRefund, ReleaseSeats, CheckReleasable, Abort,
       gatewayVars
  <2> QED BY <2>3, <2>4, <2>5, <2>6
<1>3. ASSUME NEW h \in Handlers, DeliveryStep(h)
      PROVE  (refunds[a] <= Cardinality(Answered(a)) + Cardinality(Refunders(a))
                              + AtConsole)'
  <2>1. Refunders(a)' = Refunders(a)
    BY <1>3, DeliveryMoves DEF Refunders, Calls
  <2>2. Answered(a) \subseteq Answered(a)'
    BY <1>3, DeliveryMoves DEF Answered, SuccessesOf, EventsApart, PcInv
  <2>3. CASE UNCHANGED refunds
    BY <1>1, <2>1, <2>2, <2>3, CountStep
  <2>4. CASE /\ pc[h] = "refund" /\ pc'[h] = "record" /\ UNCHANGED <<event, recorded>>
             /\ Refund(event[h].of)
    <3>1. CASE event[h].of = a
      <4>1. refunds'[a] = refunds[a] + 1
        BY <2>4, <3>1 DEF Refund, TypeOK
      <4>2. event[h] \notin Answered(a)
        BY <2>4 DEF Answered
      <4>3. event[h] \in SuccessesOf(a)'
        BY <2>4, <3>1 DEF SuccessesOf, DeliveryInv
      <4>4. \A g \in Handlers : pc'[g] = "refund" => event'[g] # event[h]
        BY <1>3, <2>4, DeliveryMoves DEF EventsApart, Busy
      <4>5. event[h] \in Answered(a)'
        BY <4>3, <4>4 DEF Answered
      <4> QED BY <1>1, <2>1, <2>2, <4>1, <4>2, <4>5, CountStep
    <3>2. CASE event[h].of # a
      <4>1. refunds'[a] = refunds[a]
        BY <2>4, <3>2 DEF Refund, TypeOK
      <4> QED BY <1>1, <2>1, <2>2, <4>1, CountStep
    <3> QED BY <3>1, <3>2
  <2> QED BY <1>3, <2>3, <2>4, DeliveryMoves
<1>4. CASE UNCHANGED vars
  <2>1. Answered(a)' = Answered(a) /\ Refunders(a)' = Refunders(a) /\ refunds' = refunds
    BY <1>4 DEF vars, paymentVars, gatewayVars, callVars, handlerVars, Answered,
       SuccessesOf, Refunders
  <2> QED BY <1>1, <2>1, CountStep
<1> QED BY <1>2, <1>3, <1>4 DEF Next, CallStep, DeliveryStep

\* The invariant behind the bounds below.
THEOREM RefundInvariance ==
    ASSUME IsFiniteSet(Cancels)
    PROVE  Spec => []RefundInv
<1>1. Init => RefundInv
  <2> SUFFICES ASSUME Init PROVE RefundInv
    OBVIOUS
  <2>1. EventsApart
    BY InitInv DEF Init, EventsApart, Busy, IInv, PcInv
  <2>2. OwnPayment
    BY CallAssumption DEF Init, OwnPayment
  <2>3. RefundsCounted
    <3>1. SUFFICES ASSUME NEW a \in Checkouts
                   PROVE  0 <= Cardinality(Answered(a)) + Cardinality(Refunders(a)) + AtConsole
      BY DEF Init, RefundsCounted
    <3>2. Answered(a) = {} /\ Refunders(a) \subseteq Cancels
      BY DEF Init, Answered, SuccessesOf, Refunders
    <3>3. Cardinality(Answered(a)) = 0 /\ Cardinality(Refunders(a)) \in Nat
      BY <3>2, FS_EmptySet, FS_Subset, FS_CardinalityType
    <3> QED BY <3>3 DEF AtConsole
  <2> QED BY <2>1, <2>2, <2>3 DEF RefundInv
<1>2. IInv /\ IInv' /\ RefundInv /\ [Next]_vars => RefundInv'
  <2> SUFFICES ASSUME IInv, IInv', RefundInv, [Next]_vars PROVE RefundInv'
    OBVIOUS
  <2>1. EventsApart' /\ RefundsCounted'
    BY EventsApartStep, RefundsCountedStep DEF RefundInv
  <2>2. ASSUME CallStep PROVE OwnPayment'
    BY <2>2, CancelMoves DEF RefundInv
  <2>3. ASSUME NEW h \in Handlers, DeliveryStep(h) PROVE OwnPayment'
    BY <2>3, DeliveryMoves DEF RefundInv, OwnPayment
  <2>4. ASSUME UNCHANGED vars PROVE OwnPayment'
    BY <2>4 DEF RefundInv, OwnPayment, vars, callVars
  <2>5. OwnPayment'
    BY <2>2, <2>3, <2>4 DEF Next, CallStep, DeliveryStep
  <2> QED BY <2>1, <2>5 DEF RefundInv
<1> QED BY Invariance, <1>1, <1>2, PTL DEF Spec

\* A payment is paid back at most once for each success event on record, once
\* for each cancellation of its booking and once from the console, though
\* nothing in usecase/payment.go counts refunds.
THEOREM RefundsAreBounded ==
    ASSUME IsFiniteSet(Cancels)
    PROVE  Spec => []RefundBound
<1>1. IInv /\ RefundInv => RefundBound
  <2> SUFFICES ASSUME IInv, RefundInv, NEW a \in Checkouts
               PROVE  refunds[a] <= Cardinality(SuccessesOf(a))
                                    + Cardinality({c \in Cancels : Of[c] = Of[a]}) + AtConsole
    BY DEF RefundBound
  <2>1. refunds[a] <= Cardinality(Answered(a)) + Cardinality(Refunders(a)) + AtConsole
    BY DEF RefundInv, RefundsCounted
  <2>2. /\ Cardinality(Answered(a)) \in Nat /\ Cardinality(SuccessesOf(a)) \in Nat
        /\ Cardinality(Answered(a)) <= Cardinality(SuccessesOf(a))
    <3>1. SuccessesOf(a) \subseteq SuccessEvents(a)
      BY DEF IInv, TypeOK, SuccessesOf, SuccessEvents
    <3>2. IsFiniteSet(SuccessesOf(a))
      BY <3>1, SuccessesFinite, FS_Subset
    <3>3. Answered(a) \subseteq SuccessesOf(a)
      BY DEF Answered
    <3> QED BY <3>2, <3>3, CountsGrow
  <2>3. /\ Cardinality(Refunders(a)) \in Nat
        /\ Cardinality({c \in Cancels : Of[c] = Of[a]}) \in Nat
        /\ Cardinality(Refunders(a)) <= Cardinality({c \in Cancels : Of[c] = Of[a]})
    <3>1. IsFiniteSet({c \in Cancels : Of[c] = Of[a]})
      BY FS_Subset
    <3>2. Refunders(a) \subseteq {c \in Cancels : Of[c] = Of[a]}
      BY DEF Refunders, RefundInv, OwnPayment
    <3> QED BY <3>1, <3>2, CountsGrow
  <2>4. AtConsole \in Nat /\ refunds[a] \in Nat
    BY DEF AtConsole, IInv, TypeOK
  <2> QED BY <2>1, <2>2, <2>3, <2>4
<1> QED BY Invariance, RefundInvariance, <1>1, PTL

\* HandleWebhook by itself (usecase/payment.go:206) pays a charge back at most once for
\* each success event, by however many handlers it is delivered and however
\* many of them crash.
THEOREM OneRefundPerDelivery ==
    ASSUME Cancels = {}, ~ConsoleRefunds
    PROVE  Spec => []OneRefundPerEvent
<1>1. IsFiniteSet(Cancels)
  BY FS_EmptySet
<1>2. IInv /\ RefundBound => OneRefundPerEvent
  <2> SUFFICES ASSUME IInv, RefundBound, NEW a \in Checkouts
               PROVE  refunds[a] <= Cardinality({e \in recorded : e.of = a /\ e.type = "succeeded"})
    BY DEF OneRefundPerEvent
  <2>1. {c \in Cancels : Of[c] = Of[a]} = {} /\ AtConsole = 0
    BY DEF AtConsole
  <2>2. IsFiniteSet(SuccessesOf(a))
    <3>1. SuccessesOf(a) \subseteq SuccessEvents(a)
      BY DEF IInv, TypeOK, SuccessesOf, SuccessEvents
    <3> QED BY <3>1, SuccessesFinite, FS_Subset
  <2>3. Cardinality(SuccessesOf(a)) \in Nat /\ Cardinality({}) = 0
    BY <2>2, FS_EmptySet, FS_CardinalityType
  <2>4. refunds[a] <= Cardinality(SuccessesOf(a)) + 0 + 0
    BY <2>1, <2>3 DEF RefundBound
  <2> QED BY <2>3, <2>4 DEF SuccessesOf, IInv, TypeOK
<1> QED BY <1>1, <1>2, Invariance, RefundsAreBounded, PTL

=============================================================================
