----------------------------- MODULE SeatLedger -----------------------------
(***************************************************************************)
(* What the booking repository promises, without transactions, locks or     *)
(* indexes: a ledger that says which booking owns each seat of each          *)
(* showtime.  A reservation takes effect in one step, or not at all.         *)
(* SeatHold implements it; its callers may rely on it.                       *)
(***************************************************************************)
CONSTANTS
    Bookings,   \* bookings that may be made
    Places,     \* a seat at a showtime
    Nobody      \* the owner of a free place, not a booking

VARIABLES
    stage,      \* booking -> where it is in its life
    owner       \* place -> the booking that owns it

vars == <<stage, owner>>

In(s) == {b \in Bookings : stage[b] = s}

\* The holds in gone lapse, and the booking gets its places, all of them free
\* by then.  A reservation may so take over the places of lapsed holds.
Reserve(b, places, gone) ==
    /\ stage[b] = "none"
    /\ b \notin gone
    /\ \A g \in gone : stage[g] = "held"
    /\ \A p \in places : owner[p] \in gone \cup {Nobody}
    /\ stage' = [c \in Bookings |-> IF c = b THEN "held"
                                    ELSE IF c \in gone THEN "expired" ELSE stage[c]]
    /\ owner' = [p \in Places |-> IF p \in places THEN b
                                  ELSE IF owner[p] \in gone THEN Nobody ELSE owner[p]]

Lapse(gone) ==
    /\ gone # {}
    /\ \A g \in gone : stage[g] = "held"
    /\ stage' = [c \in Bookings |-> IF c \in gone THEN "expired" ELSE stage[c]]
    /\ owner' = [p \in Places |-> IF owner[p] \in gone THEN Nobody ELSE owner[p]]

Sell(b) ==
    /\ stage[b] = "held"
    /\ stage' = [stage EXCEPT ![b] = "confirmed"]
    /\ UNCHANGED owner

Release(b) ==
    /\ stage[b] \in {"held", "confirmed"}
    /\ stage' = [stage EXCEPT ![b] = "cancelled"]
    /\ owner' = [p \in Places |-> IF owner[p] = b THEN Nobody ELSE owner[p]]

Init ==
    /\ stage = [b \in Bookings |-> "none"]
    /\ owner = [p \in Places |-> Nobody]

Next ==
    \/ \E b \in In("none"), places \in SUBSET Places, gone \in SUBSET In("held") :
         Reserve(b, places, gone)
    \/ \E gone \in SUBSET In("held") : Lapse(gone)
    \/ \E b \in Bookings : Sell(b) \/ Release(b)

Spec == Init /\ [][Next]_vars
=============================================================================
