------------------------ MODULE PaymentLedgerProofs ------------------------
(* What the payment ledger guarantees, for every set of bookings and payments *)
(* and so for every program that implements it.                              *)
EXTENDS PaymentLedger, TLAPS

IInv == TypeOK /\ BooksMatchGateway /\ ConfirmedIsPaid /\ SingleOpenPayment

\* A step of one payment.
OfPayment(p) == Begin(p) \/ Take(p) \/ Book(p) \/ Fail(p) \/ CallOff(p) \/ Return(p) \/ BookReturn(p)

\* A step without one.
OfBooking(b) == Release(b) \/ Expire(b)

LEMMA InitInv == Init => IInv
BY DEF Init, IInv, TypeOK, BooksMatchGateway, ConfirmedIsPaid, SingleOpenPayment, Open

LEMMA PaymentStep ==
    ASSUME For \in [Payments -> Bookings], IInv, NEW p \in Payments, OfPayment(p)
    PROVE  IInv'
<1> USE DEF IInv, TypeOK, Set
<1> USE DEF OfPayment, Begin, Take, Book, Fail, CallOff, Return, BookReturn
<1>1. TypeOK'
  OBVIOUS
<1>2. BooksMatchGateway'
  BY DEF BooksMatchGateway
<1>3. ConfirmedIsPaid'
  <2> SUFFICES ASSUME NEW b \in Bookings, booking'[b] = "confirmed"
               PROVE  \E q \in Payments : For[q] = b /\ payment'[q] \in {"succeeded", "refunded"}
    BY DEF ConfirmedIsPaid
  <2>1. CASE booking[b] = "confirmed"
    <3>1. PICK q \in Payments : For[q] = b /\ payment[q] \in {"succeeded", "refunded"}
      BY <2>1 DEF ConfirmedIsPaid
    <3>2. payment'[q] \in {"succeeded", "refunded"}
      BY <3>1
    <3> QED BY <3>1, <3>2
  <2>2. CASE booking[b] # "confirmed"
    <3>1. Book(p) /\ For[p] = b /\ payment'[p] = "succeeded"
      BY <2>2
    <3> QED BY <3>1
  <2> QED BY <2>1, <2>2
<1>4. SingleOpenPayment'
  <2> SUFFICES ASSUME NEW b \in Bookings, NEW q \in Payments, NEW r \in Payments,
                      For[q] = b, For[r] = b, payment'[q] = "pending", payment'[r] = "pending"
               PROVE  q = r
    BY DEF SingleOpenPayment, Open
  <2>1. CASE Begin(p)
    <3>1. \A o \in Payments : For[o] = For[p] => payment[o] # "pending"
      BY <2>1 DEF Open
    <3>2. \A o \in Payments \ {p} : payment'[o] = payment[o]
      BY <2>1
    <3>3. CASE q # p /\ r # p
      <4>1. payment[q] = "pending" /\ payment[r] = "pending"
        BY <3>2, <3>3
      <4> QED BY <4>1 DEF SingleOpenPayment, Open
    <3>4. CASE q = p
      <4>1. r # p => payment[r] = "pending"
        BY <3>2
      <4> QED BY <4>1, <3>1, <3>4
    <3>5. CASE r = p
      <4>1. q # p => payment[q] = "pending"
        BY <3>2
      <4> QED BY <4>1, <3>1, <3>5
    <3> QED BY <3>3, <3>4, <3>5
  <2>2. CASE ~Begin(p)
    <3>1. payment[q] = "pending" /\ payment[r] = "pending"
      BY <2>2
    <3> QED BY <3>1 DEF SingleOpenPayment, Open
  <2> QED BY <2>1, <2>2
<1> QED BY <1>1, <1>2, <1>3, <1>4

LEMMA BookingStep ==
    ASSUME IInv, NEW b \in Bookings, OfBooking(b)
    PROVE  IInv'
<1> USE DEF OfBooking, Release, Expire, Set
<1>1. TypeOK'
  BY DEF IInv, TypeOK
<1>2. BooksMatchGateway' /\ SingleOpenPayment'
  BY DEF IInv, BooksMatchGateway, SingleOpenPayment, Open
<1>3. ConfirmedIsPaid'
  BY DEF IInv, TypeOK, ConfirmedIsPaid
<1> QED BY <1>1, <1>2, <1>3 DEF IInv

LEMMA NextInv ==
    ASSUME For \in [Payments -> Bookings], IInv, [Next]_vars
    PROVE  IInv'
<1>1. CASE \E p \in Payments : OfPayment(p)
  BY <1>1, PaymentStep
<1>2. CASE \E b \in Bookings : OfBooking(b)
  BY <1>2, BookingStep
<1>3. CASE UNCHANGED vars
  BY <1>3 DEF vars, IInv, TypeOK, BooksMatchGateway, ConfirmedIsPaid, SingleOpenPayment, Open
<1> QED BY <1>1, <1>2, <1>3 DEF Next, OfPayment, OfBooking

-----------------------------------------------------------------------------
\* Whatever happens to the ledger, its books match the gateway, only money confirms
\* a booking, and a booking has one open payment at most (usecase/payment.go).
THEOREM LedgerIsSound ==
    ASSUME For \in [Payments -> Bookings]
    PROVE  Spec => [](BooksMatchGateway /\ ConfirmedIsPaid /\ SingleOpenPayment)
<1>1. IInv /\ [Next]_vars => IInv'
  BY NextInv
<1>2. IInv => BooksMatchGateway /\ ConfirmedIsPaid /\ SingleOpenPayment
  BY DEF IInv
<1> QED BY <1>1, <1>2, InitInv, PTL DEF Spec

\* No order of payments, callbacks and cancellations brings a settled payment or a
\* booking that is over back.
THEOREM LedgerIsFinal ==
    ASSUME For \in [Payments -> Bookings]
    PROVE  Spec => SettledIsFinal
<1>1. ASSUME IInv, [Next]_vars
      PROVE  [/\ \A p \in Payments : payment'[p] # payment[p] =>
                   \/ payment[p] \in {"none", "pending"}
                   \/ payment[p] = "succeeded" /\ payment'[p] = "refunded"
              /\ \A b \in Bookings : booking'[b] # booking[b] =>
                   \/ booking[b] = "held"
                   \/ booking[b] = "confirmed" /\ booking'[b] = "cancelled"]_vars
  <2> USE <1>1 DEF IInv, TypeOK, Set
  <2>1. CASE \E p \in Payments : OfPayment(p)
    BY <2>1 DEF OfPayment, Begin, Take, Book, Fail, CallOff, Return, BookReturn
  <2>2. CASE \E b \in Bookings : OfBooking(b)
    BY <2>2 DEF OfBooking, Release, Expire
  <2>3. CASE UNCHANGED vars
    BY <2>3
  <2> QED BY <1>1, <2>1, <2>2, <2>3 DEF Next, OfPayment, OfBooking
<1>2. IInv /\ [Next]_vars => IInv'
  BY NextInv
<1> QED BY <1>1, <1>2, InitInv, PTL DEF Spec, SettledIsFinal
=============================================================================
