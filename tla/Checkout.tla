------------------------------ MODULE Checkout ------------------------------
(***************************************************************************)
(* Paying for a booking and cancelling it: the Payment use case, its tables *)
(* and the gateway, one action per database statement or gateway call, so   *)
(* that checkouts, webhook deliveries, cancellations and the sweeper meet    *)
(* in every order.                                                           *)
(*                                                                           *)
(* A checkout call creates at most one intent and one payments row; both     *)
(* are named by the call.  The hold's clock is kept as what the code asks    *)
(* of it: whether the window has passed (lapsed), and whether the refund     *)
(* cutoff has (closed).  The caller owns the booking: calls of anyone else   *)
(* end before they change anything.                                          *)
(***************************************************************************)
EXTENDS Integers, FiniteSets, Sequences

CONSTANTS
    Bookings,      \* bookings that are held when the story begins
    Checkouts,     \* StartCheckout calls
    Cancels,       \* CancelBooking calls
    Releases,      \* Booking.Release calls
    Handlers,      \* webhook deliveries in progress at one time
    Of,            \* which booking a call is for
    Together,      \* sets of calls, one of which is made
    None,          \* no payment, no event
    GatewayVoids,  \* provider.Cancel stops an open charge (the mock's does not)
    ProviderFails, \* gateway calls may fail
    Crashes,       \* the server may die between two steps of a call
    ConsoleRefunds,\* the gateway may return money of its own accord
    Simulated,     \* payments whose callback is simulated more than once
    MaxCopies      \* bound on the ids under which one outcome is announced

Calls == Checkouts \cup Cancels \cup Releases

ASSUME CallAssumption ==
    /\ Of \in [Calls -> Bookings]
    /\ Together \subseteq SUBSET Calls
    /\ Checkouts \cap (Cancels \cup Releases \cup Handlers) = {}
    /\ Cancels \cap (Releases \cup Handlers) = {}
    /\ Releases \cap Handlers = {}
    /\ None \notin Checkouts
    /\ {GatewayVoids, ProviderFails, Crashes, ConsoleRefunds} \subseteq BOOLEAN
    /\ MaxCopies \in Nat \ {0}

ASSUME SimulatedAssumption == Simulated \subseteq Checkouts

VARIABLES
    bstatus, lapsed, closed,  \* bookings, and where the clock stands for them
    pay, created,             \* payments: status, and the order of created_at
    recorded,                 \* payment_events
    charge, refunds,          \* gateway: each charge, refunds made of it
    sent, acked,              \* gateway: events, and those it stopped retrying
    handed,                   \* payments whose reference a client was given
    pc, ref,                  \* each call: next step, payment it read
    event, seen               \* each delivery: its event, payment status it read

bookingVars == <<bstatus, lapsed, closed>>
paymentVars == <<pay, created, recorded>>
gatewayVars == <<charge, refunds, sent, acked, handed>>
callVars    == <<pc, ref>>
handlerVars == <<event, seen>>
vars == <<bookingVars, paymentVars, gatewayVars, callVars, handlerVars>>

BookingStatus == {"held", "confirmed", "cancelled", "expired"}

\* "none" while there is no row.
PaymentStatus == {"none", "pending", "succeeded", "failed", "cancelled", "refunded"}

Event == [type : {"succeeded", "failed", "cancelled", "refunded"},
          of : Checkouts, copy : 1 .. MaxCopies]

PaymentsOf(b) == {a \in Checkouts : Of[a] = b}

Goto(p, l) == pc' = [pc EXCEPT ![p] = l]

-----------------------------------------------------------------------------
(* The payment repository.                                                   *)

\* GetOpenByBooking, and the entries of payments_single_open_idx.
Open(b) == {a \in PaymentsOf(b) : pay[a] = "pending"}

Succeeded(b) == {a \in PaymentsOf(b) : pay[a] = "succeeded"}

\* GetSucceededByBooking: the latest one.
LatestSucceeded(b, a) ==
    /\ a \in Succeeded(b)
    /\ \E i \in DOMAIN created :
         /\ created[i] = a
         /\ \A j \in DOMAIN created : j > i => created[j] \notin Succeeded(b)

AnyUpdate(a, to) == pay[a] # "none"

\* The WHERE clause of Update.
MayUpdate(a, to) == pay[a] = "pending" \/ (pay[a] = "succeeded" /\ to = "refunded")

\* Update by a caller that tolerates ErrPaymentState.
Update(a, to) == pay' = [pay EXCEPT ![a] = IF MayUpdate(a, to) THEN to ELSE @]

-----------------------------------------------------------------------------
(* The booking repository, as this use case calls it.                        *)

IsActive(b) == bstatus[b] \in {"held", "confirmed"}

HoldableUnlapsed(b) == bstatus[b] = "held" /\ ~lapsed[b]

\* applySuccess confirms: even if the window has just passed, while the seats
\* are still claimed.
Holdable(b) == bstatus[b] = "held"

SetStatus(b, s) == bstatus' = [bstatus EXCEPT ![b] = s]

CancelSeats(b) == IF IsActive(b) THEN SetStatus(b, "cancelled") ELSE UNCHANGED bstatus

\* The hold's window passes; the sweeper, or a hold of other seats, expires it.
Lapse(b) ==
    /\ bstatus[b] = "held" /\ ~lapsed[b]
    /\ lapsed' = [lapsed EXCEPT ![b] = TRUE]
    /\ UNCHANGED <<bstatus, closed, paymentVars, gatewayVars, callVars, handlerVars>>

Expire(b) ==
    /\ bstatus[b] = "held" /\ lapsed[b]
    /\ SetStatus(b, "expired")
    /\ UNCHANGED <<lapsed, closed, paymentVars, gatewayVars, callVars, handlerVars>>

\* The screening comes closer than RefundCutoff.
Close(b) ==
    /\ ~closed[b]
    /\ closed' = [closed EXCEPT ![b] = TRUE]
    /\ UNCHANGED <<bstatus, lapsed, paymentVars, gatewayVars, callVars, handlerVars>>

-----------------------------------------------------------------------------
(* The gateway.                                                              *)

Send(type, a) == sent' = sent \cup {[type |-> type, of |-> a, copy |-> 1]}

\* provider.CreateIntent: every attempt has its own idempotency key, so it gets
\* a charge of its own.
NewIntent(a) == charge' = [charge EXCEPT ![a] = "open"]

\* The customer, given the reference, pays, is declined or gives up.
Settle(a, c, type) ==
    /\ charge[a] = "open" /\ a \in handed
    /\ charge' = [charge EXCEPT ![a] = c]
    /\ Send(type, a)
    /\ UNCHANGED <<bookingVars, paymentVars, refunds, acked, handed, callVars, handlerVars>>

Capture(a) == Settle(a, "captured", "succeeded")
Decline(a) == Settle(a, "declined", "failed")
GiveUp(a)  == Settle(a, "voided", "cancelled")

\* An outcome that SimulateProviderCallback can announce, and whose payment it can
\* be run for again.
Simulable(e) == e \in sent /\ e.of \in Simulated /\ e.type \in {"succeeded", "failed"}

\* The same outcome, under a new event id.
Resend(e) ==
    /\ Simulable(e) /\ e.copy < MaxCopies
    /\ sent' = sent \cup {[e EXCEPT !.copy = @ + 1]}
    /\ UNCHANGED <<bookingVars, paymentVars, charge, refunds, acked, handed, callVars, handlerVars>>

\* The other outcome: every call chooses its own.  A success takes the money
\* whatever was announced before.
Contradict(e) ==
    /\ Simulable(e)
    /\ \/ /\ e.type = "failed"
          /\ charge' = [charge EXCEPT ![e.of] = "captured"]
          /\ Send("succeeded", e.of)
       \/ /\ e.type = "succeeded"
          /\ Send("failed", e.of)
          /\ UNCHANGED charge
    /\ UNCHANGED <<bookingVars, paymentVars, refunds, acked, handed, callVars, handlerVars>>

\* provider.Cancel; its failure is only logged.
Void(a) ==
    \/ /\ GatewayVoids /\ charge[a] = "open"
       /\ charge' = [charge EXCEPT ![a] = "voided"]
       /\ Send("cancelled", a)
    \/ /\ ~GatewayVoids \/ charge[a] # "open" \/ ProviderFails
       /\ UNCHANGED <<charge, sent>>

\* provider.Refund, when it succeeds.
Refund(a) ==
    /\ refunds' = [refunds EXCEPT ![a] = @ + 1]
    /\ Send("refunded", a)

\* The money is returned from the gateway's own console.
ConsoleRefund(a) ==
    /\ ConsoleRefunds /\ charge[a] = "captured" /\ refunds[a] = 0
    /\ Refund(a)
    /\ UNCHANGED <<bookingVars, paymentVars, charge, acked, handed, callVars, handlerVars>>

-----------------------------------------------------------------------------
(* StartCheckout.                                                            *)

\* GetByID, the status and the hold's window.
CheckHeld(a) ==
    /\ pc[a] = "start"
    /\ Goto(a, IF bstatus[Of[a]] = "held" /\ ~lapsed[Of[a]] THEN "lookup" ELSE "done")
    /\ UNCHANGED <<bookingVars, paymentVars, gatewayVars, ref, handlerVars>>

\* An open payment is handed back as it is.
LookupOpen(a) ==
    /\ pc[a] = "lookup"
    /\ \/ \E o \in Open(Of[a]) : handed' = handed \cup {o} /\ Goto(a, "done")
       \/ Open(Of[a]) = {} /\ Goto(a, "extend") /\ UNCHANGED handed
    /\ UNCHANGED <<bookingVars, paymentVars, charge, refunds, sent, acked, ref, handlerVars>>

ExtendHold(a) ==
    /\ pc[a] = "extend"
    /\ \/ /\ bstatus[Of[a]] = "held"
          /\ lapsed' = [lapsed EXCEPT ![Of[a]] = FALSE]
          /\ Goto(a, "intent")
       \/ bstatus[Of[a]] # "held" /\ Goto(a, "done") /\ UNCHANGED lapsed
    /\ UNCHANGED <<bstatus, closed, paymentVars, gatewayVars, ref, handlerVars>>

CreateIntent(a) ==
    /\ pc[a] = "intent"
    /\ \/ NewIntent(a) /\ Goto(a, "create")
       \/ ProviderFails /\ Goto(a, "done") /\ UNCHANGED charge
    /\ UNCHANGED <<bookingVars, paymentVars, refunds, sent, acked, handed, ref, handlerVars>>

\* INSERT INTO payments, under payments_single_open_idx.  After a crash the
\* row is there and the client does not know of it.
Create(a) ==
    /\ pc[a] = "create"
    /\ \/ /\ Open(Of[a]) = {}
          /\ pay' = [pay EXCEPT ![a] = "pending"]
          /\ created' = Append(created, a)
          /\ handed' = handed \cup {a} \/ (Crashes /\ UNCHANGED handed)
          /\ Goto(a, "done")
       \/ Open(Of[a]) # {} /\ Goto(a, "drop") /\ UNCHANGED <<pay, created, handed>>
    /\ UNCHANGED <<bookingVars, recorded, charge, refunds, sent, acked, ref, handlerVars>>

DropIntent(a) ==
    /\ pc[a] = "drop"
    /\ Void(a)
    /\ Goto(a, "resume")
    /\ UNCHANGED <<bookingVars, paymentVars, refunds, acked, handed, ref, handlerVars>>

\* The other checkout's payment is handed back, if it is still open.
ResumeOpen(a) ==
    /\ pc[a] = "resume"
    /\ \/ \E o \in Open(Of[a]) : handed' = handed \cup {o}
       \/ Open(Of[a]) = {} /\ UNCHANGED handed
    /\ Goto(a, "done")
    /\ UNCHANGED <<bookingVars, paymentVars, charge, refunds, sent, acked, ref, handlerVars>>

Pay(a) == \/ CheckHeld(a) \/ LookupOpen(a) \/ ExtendHold(a) \/ CreateIntent(a)
          \/ Create(a) \/ DropIntent(a) \/ ResumeOpen(a)

-----------------------------------------------------------------------------
(* CancelBooking.                                                            *)

\* GetByID, the status and the refund cutoff.
CheckCancellable(c) ==
    /\ pc[c] = "start"
    /\ LET b == Of[c] IN
         Goto(c, IF bstatus[b] = "held" \/ (bstatus[b] = "confirmed" /\ ~closed[b])
                 THEN "open" ELSE "done")
    /\ UNCHANGED <<bookingVars, paymentVars, gatewayVars, ref, handlerVars>>

FindOpen(c) ==
    /\ pc[c] = "open"
    /\ \/ \E o \in Open(Of[c]) : ref' = [ref EXCEPT ![c] = o] /\ Goto(c, "void")
       \/ Open(Of[c]) = {} /\ Goto(c, "captured") /\ UNCHANGED ref
    /\ UNCHANGED <<bookingVars, paymentVars, gatewayVars, handlerVars>>

VoidOpen(c) ==
    /\ pc[c] = "void"
    /\ Void(ref[c])
    /\ Goto(c, "mark")
    /\ UNCHANGED <<bookingVars, paymentVars, refunds, acked, handed, ref, handlerVars>>

MarkCancelled(c) ==
    /\ pc[c] = "mark"
    /\ Update(ref[c], "cancelled")
    /\ Goto(c, "captured")
    /\ UNCHANGED <<bookingVars, created, recorded, gatewayVars, ref, handlerVars>>

FindCaptured(c) ==
    /\ pc[c] = "captured"
    /\ \/ \E a \in Checkouts : /\ LatestSucceeded(Of[c], a)
                               /\ ref' = [ref EXCEPT ![c] = a]
                               /\ Goto(c, "refund")
       \/ Succeeded(Of[c]) = {} /\ Goto(c, "release") /\ UNCHANGED ref
    /\ UNCHANGED <<bookingVars, paymentVars, gatewayVars, handlerVars>>

RefundIgnoringFailure(c) ==
    /\ pc[c] = "refund"
    /\ Refund(ref[c]) \/ (ProviderFails /\ UNCHANGED <<refunds, sent>>)
    /\ Goto(c, "record")
    /\ UNCHANGED <<bookingVars, paymentVars, charge, acked, handed, ref, handlerVars>>

\* A refund that fails leaves the booking alone.
RefundCaptured(c) ==
    /\ pc[c] = "refund"
    /\ \/ Refund(ref[c]) /\ Goto(c, "record")
       \/ ProviderFails /\ Goto(c, "done") /\ UNCHANGED <<refunds, sent>>
    /\ UNCHANGED <<bookingVars, paymentVars, charge, acked, handed, ref, handlerVars>>

RecordRefund(c) ==
    /\ pc[c] = "record"
    /\ Update(ref[c], "refunded")
    /\ Goto(c, "release")
    /\ UNCHANGED <<bookingVars, created, recorded, gatewayVars, ref, handlerVars>>

\* bookings.Cancel, whatever became of the booking since it was read.
ReleaseSeats(c) ==
    /\ pc[c] = "release"
    /\ CancelSeats(Of[c])
    /\ Goto(c, "done")
    /\ UNCHANGED <<lapsed, closed, paymentVars, gatewayVars, ref, handlerVars>>

CancelBooking(c) ==
    \/ CheckCancellable(c) \/ FindOpen(c) \/ VoidOpen(c) \/ MarkCancelled(c)
    \/ FindCaptured(c) \/ RefundCaptured(c) \/ RecordRefund(c) \/ ReleaseSeats(c)

\* Booking.Release: only a held booking gets past its check.
CheckReleasable(r) ==
    /\ pc[r] = "start"
    /\ Goto(r, IF bstatus[Of[r]] = "held" THEN "release" ELSE "done")
    /\ UNCHANGED <<bookingVars, paymentVars, gatewayVars, ref, handlerVars>>

\* A call ends early: its context expired, or the server died.
Abort(p) ==
    /\ Crashes
    /\ pc[p] # "done"
    /\ Goto(p, "done")
    /\ UNCHANGED <<bookingVars, paymentVars, gatewayVars, ref, handlerVars>>

-----------------------------------------------------------------------------
(* HandleWebhook.                                                            *)

\* ParseWebhook: a callback gets through if the gateway signed it.
Verified(e) == e \in sent

\* GetByProviderRef finds the payment.
Known(e) == pay[e.of] # "none"

\* RecordEvent waits for a transaction that is recording the same event.
Recording(e) == \E h \in Handlers : pc[h] = "apply" /\ event[h] = e

NeverDuplicate(e) == FALSE

\* RecordEvent: ON CONFLICT DO NOTHING affected no row.
Duplicate(e) == e \in recorded

\* A delivery whose event is on record, or whose payment is not, changes
\* nothing else; otherwise the handler goes on with the payment as it is now.
Deliver(h, e) ==
    /\ pc[h] = "idle"
    /\ Verified(e) /\ ~Recording(e)
    /\ \/ /\ Duplicate(e) \/ ~Known(e)
          /\ recorded' = recorded \cup {e}
          /\ acked' = acked \cup {e}
          /\ UNCHANGED <<pc, event, seen>>
       \/ /\ ~Duplicate(e) /\ Known(e)
          /\ event' = [event EXCEPT ![h] = e]
          /\ seen' = [seen EXCEPT ![h] = pay[e.of]]
          /\ Goto(h, "apply")
          /\ UNCHANGED <<recorded, acked>>
    /\ UNCHANGED <<bookingVars, pay, created, charge, refunds, sent, handed, ref>>

\* The handler is free again.
Finish(h) ==
    /\ Goto(h, "idle")
    /\ event' = [event EXCEPT ![h] = None]
    /\ seen' = [seen EXCEPT ![h] = "none"]

\* The transaction commits and the gateway gets its 200.
Acknowledge(h) ==
    /\ Finish(h)
    /\ recorded' = recorded \cup {event[h]}
    /\ acked' = acked \cup {event[h]}

RollbackKeepingEvent(h) ==
    /\ pc[h] = "apply"
    /\ Finish(h)
    /\ recorded' = recorded \cup {event[h]}
    /\ UNCHANGED <<bookingVars, pay, created, gatewayVars, ref>>

RollbackAcked(h) ==
    /\ pc[h] = "apply"
    /\ Finish(h)
    /\ acked' = acked \cup {event[h]}
    /\ UNCHANGED <<bookingVars, paymentVars, charge, refunds, sent, handed, ref>>

\* The transaction is undone, the event with it, and the gateway will retry.
Rollback(h) ==
    /\ pc[h] = "apply"
    /\ Finish(h)
    /\ UNCHANGED <<bookingVars, paymentVars, gatewayVars, ref>>

\* applySuccess: the rest of the transaction, whose row locks make it one step.
ApplySuccess(h) ==
    LET a == event[h].of
        b == Of[a]
    IN  /\ pc[h] = "apply" /\ event[h].type = "succeeded"
        /\ seen[h] = "succeeded" \/ MayUpdate(a, "succeeded")
        /\ IF seen[h] = "succeeded" THEN UNCHANGED pay ELSE Update(a, "succeeded")
        /\ \/ /\ bstatus[b] = "confirmed"
              /\ Acknowledge(h)
              /\ UNCHANGED bstatus
           \/ /\ Holdable(b)
              /\ SetStatus(b, "confirmed")
              /\ Acknowledge(h)
           \/ /\ bstatus[b] # "confirmed" /\ ~Holdable(b)
              /\ Goto(h, "refund")
              /\ recorded' = recorded \cup {event[h]}
              /\ UNCHANGED <<bstatus, acked, event, seen>>
        /\ UNCHANGED <<lapsed, closed, created, charge, refunds, sent, handed, ref>>

\* applySuccess when the payment is settled otherwise: ErrPaymentState.
RejectSuccess(h) ==
    /\ pc[h] = "apply" /\ event[h].type = "succeeded"
    /\ seen[h] # "succeeded" /\ ~MayUpdate(event[h].of, "succeeded")
    /\ Rollback(h)

\* settle
ApplyFailure(h) ==
    /\ pc[h] = "apply" /\ event[h].type \in {"failed", "cancelled"}
    /\ Update(event[h].of, event[h].type)
    /\ Acknowledge(h)
    /\ UNCHANGED <<bookingVars, created, charge, refunds, sent, handed, ref>>

\* applyRefund
ApplyRefund(h) ==
    /\ pc[h] = "apply" /\ event[h].type = "refunded"
    /\ IF seen[h] = "refunded" THEN UNCHANGED pay ELSE Update(event[h].of, "refunded")
    /\ CancelSeats(Of[event[h].of])
    /\ Acknowledge(h)
    /\ UNCHANGED <<lapsed, closed, created, charge, refunds, sent, handed, ref>>

\* refundOrphanedCharge, after the commit; a failure is logged and that is all.
RefundOrphan(h) ==
    /\ pc[h] = "refund"
    /\ \/ Refund(event[h].of) /\ Goto(h, "record") /\ UNCHANGED <<acked, event, seen>>
       \/ /\ ProviderFails
          /\ Finish(h)
          /\ acked' = acked \cup {event[h]}
          /\ UNCHANGED <<refunds, sent>>
    /\ UNCHANGED <<bookingVars, paymentVars, charge, handed, ref>>

RecordOrphan(h) ==
    /\ pc[h] = "record"
    /\ Update(event[h].of, "refunded")
    /\ Finish(h)
    /\ acked' = acked \cup {event[h]}
    /\ UNCHANGED <<bookingVars, created, recorded, charge, refunds, sent, handed, ref>>

\* The server dies after the commit.
Die(h) ==
    /\ Crashes
    /\ pc[h] \in {"refund", "record"}
    /\ Finish(h)
    /\ UNCHANGED <<bookingVars, paymentVars, gatewayVars, ref>>

Apply(h)  == ApplySuccess(h) \/ RejectSuccess(h) \/ ApplyFailure(h) \/ ApplyRefund(h)
Orphan(h) == RefundOrphan(h) \/ RecordOrphan(h)

-----------------------------------------------------------------------------
Init ==
    /\ bstatus = [b \in Bookings |-> "held"]
    /\ lapsed  = [b \in Bookings |-> FALSE]
    /\ closed  = [b \in Bookings |-> FALSE]
    /\ pay     = [a \in Checkouts |-> "none"]
    /\ created = << >>
    /\ recorded = {}
    /\ charge  = [a \in Checkouts |-> "none"]
    /\ refunds = [a \in Checkouts |-> 0]
    /\ sent = {} /\ acked = {} /\ handed = {}
    /\ \E made \in Together :
         pc = [p \in Calls \cup Handlers |-> IF p \in made THEN "start"
                                            ELSE IF p \in Calls THEN "done" ELSE "idle"]
    /\ ref     = [c \in Cancels |-> None]
    /\ event   = [h \in Handlers |-> None]
    /\ seen    = [h \in Handlers |-> "none"]

Next ==
    \/ \E b \in Bookings : Lapse(b) \/ Expire(b) \/ Close(b)
    \/ \E a \in Checkouts : Capture(a) \/ Decline(a) \/ GiveUp(a) \/ ConsoleRefund(a) \/ Pay(a)
    \/ \E e \in sent : Resend(e) \/ Contradict(e)
    \/ \E c \in Cancels : CancelBooking(c)
    \/ \E r \in Releases : CheckReleasable(r) \/ ReleaseSeats(r)
    \/ \E p \in Calls : Abort(p)
    \/ \E h \in Handlers : \/ \E e \in sent : Deliver(h, e)
                           \/ Apply(h) \/ Rollback(h) \/ Orphan(h) \/ Die(h)

Spec == Init /\ [][Next]_vars

\* Calls run on.  The gateway delivers an event again and again until it is
\* acknowledged, and a fault of the database does not hit every delivery.  Only
\* success events move money to its end; of those of a simulated payment the first
\* counts as the gateway's, and nobody retries the others.
Fairness ==
    /\ \A c \in Cancels : WF_vars(CancelBooking(c))
    /\ \A h \in Handlers : WF_vars(Apply(h) \/ Rollback(h) \/ Orphan(h))
    /\ \A e \in {e \in Event : e.type = "succeeded" /\ e.copy = 1} :
         /\ SF_vars(e \notin acked /\ \E h \in Handlers : Deliver(h, e))
         /\ SF_vars(\E h \in Handlers : event[h] = e /\ Apply(h))

FairSpec == Spec /\ Fairness

-----------------------------------------------------------------------------
(* Properties.                                                               *)

\* Every variable has its type; the gateway is acknowledged only for events the
\* transaction of a delivery has put on record.
TypeOK ==
    /\ bstatus \in [Bookings -> BookingStatus]
    /\ lapsed \in [Bookings -> BOOLEAN]
    /\ closed \in [Bookings -> BOOLEAN]
    /\ pay \in [Checkouts -> PaymentStatus]
    /\ created \in Seq(Checkouts)
    /\ recorded \subseteq sent
    /\ charge \in [Checkouts -> {"none", "open", "captured", "declined", "voided"}]
    /\ refunds \in [Checkouts -> Nat]
    /\ sent \subseteq Event
    /\ acked \subseteq recorded
    /\ handed \subseteq Checkouts
    /\ pc \in [Calls \cup Handlers ->
                 {"start", "lookup", "extend", "intent", "create", "drop", "resume", "open",
                  "void", "mark", "captured", "refund", "record", "release", "done",
                  "idle", "apply"}]
    /\ ref \in [Cancels -> Checkouts \cup {None}]
    /\ event \in [Handlers -> sent \cup {None}]
    /\ seen \in [Handlers -> PaymentStatus]

\* A booking is confirmed only by money: one of its payments is captured at
\* the gateway, and is on the books or has been paid back since.
ConfirmedIsPaid ==
    \A b \in Bookings : bstatus[b] = "confirmed" =>
        \E a \in PaymentsOf(b) :
            /\ charge[a] = "captured"
            /\ pay[a] = "succeeded" \/ (pay[a] = "refunded" /\ refunds[a] > 0)

\* The automatic refund, which runs after the webhook's transaction and without
\* its locks, is of a booking that has no seats any more.
OrphanHasNoSeats ==
    \A h \in Handlers : pc[h] \in {"refund", "record"} => ~IsActive(Of[event[h].of])

\* What the customer's money has done.
MoneyOf(a) == IF charge[a] # "captured" THEN "none"
              ELSE IF refunds[a] = 0 THEN "taken" ELSE "returned"

Ledger == INSTANCE PaymentLedger WITH
    Payments <- Checkouts, For <- [a \in Checkouts |-> Of[a]],
    booking <- bstatus, payment <- pay, money <- [a \in Checkouts |-> MoneyOf(a)]

\* Whatever calls, callbacks and crashes do in between, bookings and payments
\* change only as PaymentLedger allows: booking a charge and confirming its
\* booking is one step, no booking is confirmed and no payment succeeds without
\* money taken for it, a payment called refunded has returned it, a booking has
\* one open payment at most, and what is settled stays so (LedgerIsSound and
\* LedgerIsFinal in PaymentLedgerProofs).
LedgerSpec == Ledger!Spec

\* The webhook path pays a charge back at most once for each success event on
\* record, however often and by however many handlers the event is delivered.
OneRefundPerEvent ==
    \A a \in Checkouts :
        refunds[a] <= Cardinality({e \in recorded : e.of = a /\ e.type = "succeeded"})

\* Money taken is matched by seats or given back, unless its payment was settled as
\* failed before the success came (payment.go:277 then refuses it for good).
MoneyFollowsSeats ==
    \A a \in Checkouts :
        charge[a] = "captured" ~>
            \/ bstatus[Of[a]] = "confirmed" \/ refunds[a] > 0
            \/ pay[a] = "failed"

\* Money that lands after the booking has lost its seats is given back
\* (usecase/payment_test.go:309).
LateMoneyRefunded ==
    \A a \in Checkouts :
        (/\ charge[a] = "captured" /\ ~IsActive(Of[a])
         /\ \A e \in recorded : e.of = a => e.type # "succeeded") ~> refunds[a] > 0

\* Starting checkout twice does not charge the customer twice
\* (usecase/payment.go:65).
NotChargedTwice ==
    \A b \in Bookings :
        Cardinality({a \in PaymentsOf(b) : charge[a] = "captured" /\ refunds[a] = 0}) <= 1

\* CancelBooking never frees the seats while the customer's money is still held
\* (usecase/payment.go:394).
MoneyBackBeforeSeats ==
    [][\A c \in Cancels :
         pc[c] = "release" /\ pc'[c] = "done" /\ bstatus'[Of[c]] # bstatus[Of[c]] =>
           Succeeded(Of[c]) = {}]_vars

\* Booking.Release does not release a confirmed booking
\* (usecase/booking.go:146).
ReleaseSparesConfirmed ==
    [][\A r \in Releases :
         pc[r] = "release" /\ pc'[r] = "done" /\ bstatus'[Of[r]] # bstatus[Of[r]] =>
           bstatus[Of[r]] = "held"]_vars
=============================================================================
