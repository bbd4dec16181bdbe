--------------------------- MODULE PaymentLedger ---------------------------
(***************************************************************************)
(* What paying promises, with no calls, callbacks or gateway: bookings, the *)
(* payments made for them, and the money each has moved.  A charge that is  *)
(* booked and the booking it confirms change in one step, and so do a       *)
(* refund that is booked and the seats it frees.                            *)
(***************************************************************************)
CONSTANTS
    Payments, Bookings,
    For \* the booking each payment is made for

VARIABLES
    booking, \* "held", "confirmed", "cancelled" or "expired"
    payment, \* "none", "pending", "succeeded", "failed", "cancelled", "refunded"
    money    \* "none", "taken" or "returned"

vars == <<booking, payment, money>>

Open(b) == {p \in Payments : For[p] = b /\ payment[p] = "pending"}

Set(f, x, v) == [f EXCEPT ![x] = v]

\* One open payment at a time.
Begin(p) ==
    /\ payment[p] = "none" /\ Open(For[p]) = {}
    /\ payment' = Set(payment, p, "pending")
    /\ UNCHANGED <<booking, money>>

\* The customer pays for a payment that is on the books.
Take(p) ==
    /\ payment[p] # "none" /\ money[p] = "none"
    /\ money' = Set(money, p, "taken")
    /\ UNCHANGED <<booking, payment>>

\* Money is booked; it confirms a booking that still has its seats.
Book(p) ==
    /\ money[p] # "none"
    /\ payment[p] \in {"pending", "succeeded"}
    /\ payment' = Set(payment, p, "succeeded")
    /\ booking' = IF booking[For[p]] = "held" THEN Set(booking, For[p], "confirmed") ELSE booking
    /\ UNCHANGED money

\* A payment ends unpaid; that money was taken for it does not stand in the way.
Fail(p) ==
    /\ payment[p] = "pending"
    /\ payment' = Set(payment, p, "failed")
    /\ UNCHANGED <<booking, money>>

CallOff(p) ==
    /\ payment[p] = "pending"
    /\ payment' = Set(payment, p, "cancelled")
    /\ UNCHANGED <<booking, money>>

Return(p) ==
    /\ money[p] = "taken"
    /\ money' = Set(money, p, "returned")
    /\ UNCHANGED <<booking, payment>>

\* A refund is booked, and the seats it paid for are freed with it.
BookReturn(p) ==
    /\ money[p] = "returned"
    /\ \/ /\ payment[p] \in {"pending", "succeeded"}
          /\ payment' = Set(payment, p, "refunded")
       \/ UNCHANGED payment
    /\ \/ UNCHANGED booking
       \/ /\ booking[For[p]] \in {"held", "confirmed"}
          /\ booking' = Set(booking, For[p], "cancelled")
    /\ UNCHANGED money

\* A cancellation.  Nothing ties it to the money.
Release(b) ==
    /\ booking[b] \in {"held", "confirmed"}
    /\ booking' = Set(booking, b, "cancelled")
    /\ UNCHANGED <<payment, money>>

Expire(b) ==
    /\ booking[b] = "held"
    /\ booking' = Set(booking, b, "expired")
    /\ UNCHANGED <<payment, money>>

Init ==
    /\ booking = [b \in Bookings |-> "held"]
    /\ payment = [p \in Payments |-> "none"]
    /\ money = [p \in Payments |-> "none"]

Next ==
    \/ \E p \in Payments : \/ Begin(p) \/ Take(p) \/ Book(p) \/ Fail(p) \/ CallOff(p)
                           \/ Return(p) \/ BookReturn(p)
    \/ \E b \in Bookings : Release(b) \/ Expire(b)

Spec == Init /\ [][Next]_vars

-----------------------------------------------------------------------------
(* What follows for whoever implements it; PaymentLedgerProofs has the proofs. *)

TypeOK ==
    /\ booking \in [Bookings -> {"held", "confirmed", "cancelled", "expired"}]
    /\ payment \in [Payments -> {"none", "pending", "succeeded", "failed", "cancelled", "refunded"}]
    /\ money \in [Payments -> {"none", "taken", "returned"}]

\* The payments table never says more than the gateway did: a payment that
\* succeeded was taken, one that is refunded was paid back, and no money is taken
\* of which there is no row (payment.go:399, :412).
BooksMatchGateway ==
    \A p \in Payments :
        /\ payment[p] = "succeeded" => money[p] # "none"
        /\ payment[p] = "refunded" => money[p] = "returned"
        /\ money[p] # "none" => payment[p] # "none"

\* A booking is confirmed only by money that is on the books or was paid back.
ConfirmedIsPaid ==
    \A b \in Bookings : booking[b] = "confirmed" =>
        \E p \in Payments : For[p] = b /\ payment[p] \in {"succeeded", "refunded"}

\* A booking has one open payment at most (payments_single_open_idx).
SingleOpenPayment ==
    \A b \in Bookings : \A p, q \in Open(b) : p = q

\* A settled payment stays settled, except that a captured one may be refunded; a
\* booking that is over stays over, and a sold one can only be cancelled.
SettledIsFinal ==
    [][/\ \A p \in Payments : payment'[p] # payment[p] =>
            \/ payment[p] \in {"none", "pending"}
            \/ payment[p] = "succeeded" /\ payment'[p] = "refunded"
       /\ \A b \in Bookings : booking'[b] # booking[b] =>
            \/ booking[b] = "held"
            \/ booking[b] = "confirmed" /\ booking'[b] = "cancelled"]_vars
=============================================================================
