------------------------------ MODULE SeatHold ------------------------------
(***************************************************************************)
(* Reserving seats: the HoldSeats use case and the booking repository it    *)
(* calls, one action per SQL statement, against PostgreSQL at its default    *)
(* isolation level (READ COMMITTED).                                         *)
(*                                                                           *)
(* A request inserts at most one booking, so the bookings row a request      *)
(* inserts is named by the request.  The tables hold COMMITTED state; what   *)
(* an open transaction has written and not committed is in its own           *)
(* variables, which are at the same time its row and index locks:            *)
(*   lapsed[r]   bookings it has moved to 'expired' (rows it has locked),    *)
(*   claimed[r]  booking_seats entries it has inserted,                      *)
(*   until[r]    hold_expires_at of the booking row it has inserted.         *)
(***************************************************************************)
EXTENDS Integers, FiniteSets, FiniteSetsExt, Sequences

CONSTANTS
    Requests,       \* HoldSeats calls; also the names of the rows they insert
    Inputs,         \* what a call may carry: [user, key, showtime, seats]
    Traffic,        \* which calls may come together: functions Requests -> Inputs
    NoKey,          \* no Idempotency-Key header
    NoUser,         \* an empty user id
    NoBooking,      \* a reply that carries no booking
    Showtimes,      \* rows of the showtimes table
    Hall,           \* showtime -> the seats of its hall (ids, hence ordered)
    StartsAt,       \* showtime -> its start
    Called_off,     \* the showtimes whose status is 'cancelled'
    HoldTTL, PaymentWindow, BookingCutoff, MaxSeatsPerBooking,
    SweepBatch, HoldMaxAttempts,
    RequestTimeout, \* HTTP_REQUEST_TIMEOUT: no transaction outlives it
    MaxTime         \* bound on the clock, for model checking

(* HOLD_TTL is at least a minute and PAYMENT_WINDOW at least HOLD_TTL         *)
(* (config.Load); the request timeout defaults to 8s.                         *)
ASSUME TimeAssumption ==
    /\ {HoldTTL, PaymentWindow, BookingCutoff, RequestTimeout, MaxTime} \subseteq Nat
    /\ RequestTimeout < HoldTTL
    /\ HoldTTL <= PaymentWindow

ASSUME InputAssumption ==
    /\ \A in \in Inputs : /\ in = [user |-> in.user, key |-> in.key,
                                  showtime |-> in.showtime, seats |-> in.seats]
                          /\ in.seats \in Seq(Int)
    /\ Traffic \subseteq [Requests -> Inputs]
    /\ NoBooking \notin Requests
    /\ {MaxSeatsPerBooking, SweepBatch, HoldMaxAttempts} \subseteq Nat \ {0}

VARIABLES
    now,                          \* one clock for the database and the server
    status, expires, claims,      \* committed bookings and active booking_seats
    req, pc, attempt,             \* each call: its input, its next statement
    began, lapsed, until, claimed,\* each call's open transaction
    outcome, booking              \* each call's reply

tables == <<status, expires, claims>>
tx     == <<began, lapsed, until, claimed>>
reply  == <<outcome, booking>>
vars   == <<now, tables, req, pc, attempt, tx, reply>>

NoTime == -1                      \* SQL NULL

-----------------------------------------------------------------------------
(* Reading the tables.                                                       *)

Listed(in)   == {in.seats[i] : i \in DOMAIN in.seats}
ClaimsOf(in) == {<<in.showtime, s>> : s \in Listed(in)}
Wanted(r)    == ClaimsOf(req[r])

\* The row is visible to other transactions.
Committed(b) == status[b] # "none"
IsActive(b)  == status[b] \in {"held", "confirmed"}

HoldLapsedLate(b, t) == status[b] = "held" /\ expires[b] < t

\* Booking.HoldLapsed
HoldLapsed(b, t) == status[b] = "held" /\ expires[b] <= t

SameKey(b, r) ==
    /\ req[r].key # NoKey
    /\ req[b].user = req[r].user
    /\ req[b].key = req[r].key

KeyHolderActive(b, r) == IsActive(b) /\ SameKey(b, r)

\* GetByIdempotencyKey finds b, and bookings_idempotency_idx has its entry.
KeyHolder(b, r) == Committed(b) /\ SameKey(b, r)

\* What Get and ListForUser report of a booking.
ReportedStatus(b) == IF HoldLapsed(b, now) THEN "expired" ELSE status[b]

\* What SeatMap reports of a seat, and of which booking.
SeatStatus(c) ==
    LET backing == {b \in Requests : /\ c \in claims[b]
                                     /\ \/ status[b] = "confirmed"
                                        \/ status[b] = "held" /\ expires[b] > now}
    IN  CASE backing = {} -> "available"
          [] \E b \in backing : status[b] = "confirmed" -> "sold"
          [] OTHER -> "held"

-----------------------------------------------------------------------------
(* Locks.                                                                    *)

InTx(r)     == pc[r] \in {"lapse", "insert", "claim", "commit"}
Inserted(r) == pc[r] \in {"claim", "commit"}

\* The bookings row is locked by a transaction that is expiring it.
Locked(b) == \E r \in Requests : b \in lapsed[r]

DueStrictly(r) == {b \in Requests : /\ status[b] = "held"
                                    /\ expires[b] < began[r]
                                    /\ req[b].showtime = req[r].showtime}

\* The rows releaseLapsedForShowtime has to update; now() is the
\* transaction's start, not the current time.
Due(r) == {b \in Requests : /\ HoldLapsed(b, began[r])
                            /\ req[b].showtime = req[r].showtime}

Remaining(r) == Wanted(r) \ claimed[r]

IsNextUnsorted(r, c) ==
    /\ c \in Remaining(r)
    /\ \E i \in DOMAIN req[r].seats :
         /\ c[2] = req[r].seats[i]
         /\ \A j \in 1 .. i - 1 : <<c[1], req[r].seats[j]>> \in claimed[r]

\* Hold claims the seats in the order of their ids.
IsNext(r, c) ==
    /\ c \in Remaining(r)
    /\ \A d \in Remaining(r) : c[2] <= d[2]

\* The unique index on active claims has an entry of p's open transaction
\* for c: one it inserted, or a committed one it is taking out.
HoldsIndexEntry(p, c) ==
    \/ c \in claimed[p]
    \/ \E b \in lapsed[p] : c \in claims[b]

TakenWhileHeld(r, c) ==
    \E b \in Requests : c \in claims[b] /\ b \notin lapsed[r] /\ status[b] = "held"

\* The index has a committed entry for c that r's transaction has not undone.
Taken(r, c) == \E b \in Requests : c \in claims[b] /\ b \notin lapsed[r]

\* The next statement of r's transaction waits for p's to end.
WaitsFor(r, p) ==
    /\ p # r
    /\ \/ pc[r] = "lapse" /\ Due(r) \cap lapsed[p] # {}
       \/ pc[r] = "insert" /\ Inserted(p) /\ SameKey(p, r)
       \/ pc[r] = "claim" /\ \E c \in Remaining(r) : IsNext(r, c) /\ HoldsIndexEntry(p, c)

Blocked(r) == \E p \in Requests : WaitsFor(r, p)

\* r's transaction waits for p's, perhaps through others: every set that has
\* those r waits for, and those its members wait for, has p.
WaitsThrough(r, p) ==
    \A S \in SUBSET Requests :
        (\A a \in S \cup {r}, b \in Requests : WaitsFor(a, b) => b \in S) => p \in S

\* r's transaction waits, through others, for itself.
InCycle(r) == Blocked(r) /\ WaitsThrough(r, r)

-----------------------------------------------------------------------------
(* How a call moves on.                                                      *)

Goto(r, l) == pc' = [pc EXCEPT ![r] = l]

Reply(r, o, b) ==
    /\ Goto(r, "done")
    /\ outcome' = [outcome EXCEPT ![r] = o]
    /\ booking' = [booking EXCEPT ![r] = b]

\* The transaction ends, by COMMIT or ROLLBACK.
EndTx(r) ==
    /\ began'   = [began EXCEPT ![r] = NoTime]
    /\ lapsed'  = [lapsed EXCEPT ![r] = {}]
    /\ until'   = [until EXCEPT ![r] = NoTime]
    /\ claimed' = [claimed EXCEPT ![r] = {}]

LastAttemptOffByOne(r) == attempt[r] > HoldMaxAttempts

\* Hold's retry loop ends.
LastAttempt(r) == attempt[r] = HoldMaxAttempts

\* A retryable failure: another attempt, or the error once there are too many.
RollbackAndRetry(r) ==
    /\ EndTx(r)
    /\ \/ ~LastAttempt(r) /\ Goto(r, "begin") /\ UNCHANGED reply
       \/ LastAttempt(r) /\ Reply(r, "error", NoBooking)
    /\ UNCHANGED <<now, tables, req, attempt>>

-----------------------------------------------------------------------------
(* HoldSeats: checks before the transaction.                                 *)

Valid(in) ==
    /\ in.user # NoUser
    /\ Len(in.seats) \in 1 .. MaxSeatsPerBooking
    /\ Cardinality(Listed(in)) = Len(in.seats)       \* firstDuplicate

Validate(r) ==
    /\ pc[r] = "submit"
    /\ \/ /\ Valid(req[r])
          /\ Goto(r, IF req[r].key = NoKey THEN "check" ELSE "lookup")
          /\ UNCHANGED reply
       \/ ~Valid(req[r]) /\ Reply(r, "invalid", NoBooking)
    /\ UNCHANGED <<now, tables, req, attempt, tx>>

\* A booking already carries the key: it is the answer, whatever its state.
LookupKey(r) ==
    /\ pc[r] = "lookup"
    /\ \/ \E b \in Requests : KeyHolder(b, r) /\ Reply(r, "booked", b)
       \/ /\ \A b \in Requests : ~KeyHolder(b, r)
          /\ Goto(r, "check")
          /\ UNCHANGED reply
    /\ UNCHANGED <<now, tables, req, attempt, tx>>

\* GetShowtime finds the row; SeatsByIDs finds every seat, in its hall.
ShowtimeFound(in) == in.showtime \in Showtimes
SeatsFound(in)    == Listed(in) \subseteq Hall[in.showtime]

\* GetShowtime, assertBookable and SeatsByIDs, in that order.
Refusal(in) ==
    IF ~ShowtimeFound(in) THEN "showtime_not_found"
    ELSE IF in.showtime \in Called_off THEN "showtime_cancelled"
    ELSE IF now + BookingCutoff > StartsAt[in.showtime] THEN "showtime_started"
    ELSE IF ~SeatsFound(in) THEN "seat_not_found"
    ELSE "none"

CheckBookable(r) ==
    /\ pc[r] = "check"
    /\ \/ Refusal(req[r]) = "none" /\ Goto(r, "begin") /\ UNCHANGED reply
       \/ Refusal(req[r]) # "none" /\ Reply(r, Refusal(req[r]), NoBooking)
    /\ UNCHANGED <<now, tables, req, attempt, tx>>

-----------------------------------------------------------------------------
(* BookingRepository.Hold: the transaction.                                  *)

BeginUncounted(r) ==
    /\ pc[r] = "begin"
    /\ Goto(r, "lapse")
    /\ began' = [began EXCEPT ![r] = now]
    /\ UNCHANGED <<now, tables, req, attempt, lapsed, until, claimed, reply>>

BeginTx(r) ==
    /\ pc[r] = "begin"
    /\ Goto(r, "lapse")
    /\ began' = [began EXCEPT ![r] = now]
    /\ attempt' = [attempt EXCEPT ![r] = @ + 1]
    /\ UNCHANGED <<now, tables, req, lapsed, until, claimed, reply>>

\* releaseLapsedForShowtime reaches one row to expire, in any order.  A row
\* another transaction has locked makes the statement wait.
LapseRow(r) ==
    /\ pc[r] = "lapse"
    /\ \E b \in Due(r) : /\ ~Locked(b)
                         /\ lapsed' = [lapsed EXCEPT ![r] = @ \cup {b}]
    /\ UNCHANGED <<now, tables, req, pc, attempt, began, until, claimed, reply>>

LapseEnd(r) ==
    /\ pc[r] = "lapse"
    /\ Due(r) \subseteq lapsed[r]
    /\ Goto(r, "insert")
    /\ UNCHANGED <<now, tables, req, attempt, tx, reply>>

InsertWithoutIndex(r) ==
    /\ pc[r] = "insert"
    /\ until' = [until EXCEPT ![r] = now + HoldTTL]
    /\ Goto(r, "claim")
    /\ UNCHANGED <<now, tables, req, attempt, began, lapsed, claimed, reply>>

\* INSERT INTO bookings.  bookings_idempotency_idx lets it pass, makes it wait
\* for a transaction that inserted the same key, or refuses it.
InsertBooking(r) ==
    /\ pc[r] = "insert"
    /\ ~Blocked(r)
    /\ \/ /\ \A b \in Requests : ~KeyHolder(b, r)
          /\ until' = [until EXCEPT ![r] = now + HoldTTL]
          /\ Goto(r, "claim")
          /\ UNCHANGED <<began, lapsed, claimed>>
       \/ /\ \E b \in Requests : KeyHolder(b, r)
          /\ EndTx(r)
          /\ Goto(r, "replay")
    /\ UNCHANGED <<now, tables, req, attempt, reply>>

\* One INSERT INTO booking_seats.  booking_seats_one_active_claim_idx lets it
\* pass, makes it wait for the transaction that holds the index entry, or
\* refuses it: then the whole transaction is undone.
ClaimSeat(r) ==
    /\ pc[r] = "claim"
    /\ ~Blocked(r)
    /\ \E c \in Remaining(r) :
         /\ IsNext(r, c)
         /\ \/ /\ ~Taken(r, c)
               /\ claimed' = [claimed EXCEPT ![r] = @ \cup {c}]
               /\ Goto(r, IF Remaining(r) = {c} THEN "commit" ELSE "claim")
               /\ UNCHANGED <<began, lapsed, until, reply>>
            \/ /\ Taken(r, c)
               /\ EndTx(r)
               /\ Reply(r, "seat_unavailable", NoBooking)
    /\ UNCHANGED <<now, tables, req, attempt>>

\* What the transaction wrote becomes visible in one step.  The commit may
\* land although the caller only sees an error.
Commit(r) ==
    /\ pc[r] = "commit"
    /\ status'  = [b \in Requests |-> IF b = r THEN "held"
                                      ELSE IF b \in lapsed[r] THEN "expired" ELSE status[b]]
    /\ expires' = [b \in Requests |-> IF b = r THEN until[r]
                                      ELSE IF b \in lapsed[r] THEN NoTime ELSE expires[b]]
    /\ claims'  = [b \in Requests |-> IF b = r THEN claimed[r]
                                      ELSE IF b \in lapsed[r] THEN {} ELSE claims[b]]
    /\ EndTx(r)
    /\ Reply(r, "booked", r) \/ Reply(r, "error", NoBooking)
    /\ UNCHANGED <<now, req, attempt>>

\* errIdempotentReplay: the winner's booking is read after the rollback.
Replay(r) ==
    /\ pc[r] = "replay"
    /\ \/ \E b \in Requests : KeyHolder(b, r) /\ Reply(r, "booked", b)
       \/ /\ \A b \in Requests : ~KeyHolder(b, r)
          /\ Reply(r, "booking_not_found", NoBooking)
    /\ UNCHANGED <<now, tables, req, attempt, tx>>

\* PostgreSQL breaks a cycle of waits by failing one of its members (40P01).
DeadlockVictim(r) == InCycle(r) /\ RollbackAndRetry(r)

\* The random reference is already taken (bookings_reference_key).
ReferenceCollision(r) ==
    /\ pc[r] = "insert"
    /\ \E b \in Requests : Committed(b)
    /\ RollbackAndRetry(r)

\* The request's context ends or the connection is lost; WithTx rolls back.
Abort(r) ==
    /\ pc[r] \notin {"submit", "done"}
    /\ EndTx(r)
    /\ Reply(r, "error", NoBooking)
    /\ UNCHANGED <<now, tables, req, attempt>>

-----------------------------------------------------------------------------
(* The other writers of bookings.  None of them waits for anything once it   *)
(* has its first row lock, so each is one step.                              *)

ConfirmUnchecked(b) ==
    /\ Committed(b)
    /\ ~Locked(b)
    /\ status' = [status EXCEPT ![b] = "confirmed"]
    /\ expires' = [expires EXCEPT ![b] = NoTime]
    /\ UNCHANGED <<now, claims, req, pc, attempt, tx, reply>>

\* BookingRepository.Confirm
Confirm(b) ==
    /\ status[b] = "held"
    /\ ~Locked(b)
    /\ status' = [status EXCEPT ![b] = "confirmed"]
    /\ expires' = [expires EXCEPT ![b] = NoTime]
    /\ UNCHANGED <<now, claims, req, pc, attempt, tx, reply>>

ReleaseNothing(b) == claims' = claims

\* UPDATE booking_seats SET active = false
ReleaseSeats(b) == claims' = [claims EXCEPT ![b] = {}]

\* BookingRepository.Cancel
Cancel(b) ==
    /\ IsActive(b)
    /\ ~Locked(b)
    /\ status' = [status EXCEPT ![b] = "cancelled"]
    /\ expires' = [expires EXCEPT ![b] = NoTime]
    /\ ReleaseSeats(b)
    /\ UNCHANGED <<now, req, pc, attempt, tx, reply>>

\* BookingRepository.ExtendHold, called with time.Now() + PaymentWindow
ExtendHold(b) ==
    /\ status[b] = "held"
    /\ ~Locked(b)
    /\ expires' = [expires EXCEPT ![b] = IF @ < now + PaymentWindow THEN now + PaymentWindow ELSE @]
    /\ UNCHANGED <<now, status, claims, req, pc, attempt, tx, reply>>

\* HoldExpirer.sweep: the holds that lapsed first, at most SweepBatch of them,
\* passing over the rows another transaction has locked.
Sweep ==
    LET due == {b \in Requests : HoldLapsed(b, now) /\ ~Locked(b)}
    IN  \E batch \in SUBSET due :
          /\ batch # {}
          /\ Cardinality(batch) <= SweepBatch
          /\ Cardinality(batch) = SweepBatch \/ batch = due
          /\ \A b \in batch, d \in due \ batch : expires[b] <= expires[d]
          /\ status'  = [b \in Requests |-> IF b \in batch THEN "expired" ELSE status[b]]
          /\ expires' = [b \in Requests |-> IF b \in batch THEN NoTime ELSE expires[b]]
          /\ claims'  = [b \in Requests |-> IF b \in batch THEN {} ELSE claims[b]]
          /\ UNCHANGED <<now, req, pc, attempt, tx, reply>>

\* Time passes, but not beyond the deadline of an open transaction.
Tick ==
    /\ now < MaxTime
    /\ \A r \in Requests : InTx(r) => now - began[r] < RequestTimeout
    /\ now' = now + 1
    /\ UNCHANGED <<tables, req, pc, attempt, tx, reply>>

-----------------------------------------------------------------------------
Init ==
    /\ now = 0
    /\ status  = [b \in Requests |-> "none"]
    /\ expires = [b \in Requests |-> NoTime]
    /\ claims  = [b \in Requests |-> {}]
    /\ req \in Traffic
    /\ pc      = [r \in Requests |-> "submit"]
    /\ attempt = [r \in Requests |-> 0]
    /\ began   = [r \in Requests |-> NoTime]
    /\ lapsed  = [r \in Requests |-> {}]
    /\ until   = [r \in Requests |-> NoTime]
    /\ claimed = [r \in Requests |-> {}]
    /\ outcome = [r \in Requests |-> "none"]
    /\ booking = [r \in Requests |-> NoBooking]

\* The statements a server executes for a call, and the database's verdicts.
Step(r) ==
    \/ Validate(r) \/ LookupKey(r) \/ CheckBookable(r)
    \/ BeginTx(r) \/ LapseRow(r) \/ LapseEnd(r)
    \/ InsertBooking(r) \/ ClaimSeat(r) \/ Commit(r) \/ Replay(r)
    \/ DeadlockVictim(r) \/ ReferenceCollision(r)

Next ==
    \/ \E r \in Requests : Step(r) \/ Abort(r)
    \/ \E b \in Requests : Confirm(b) \/ Cancel(b) \/ ExtendHold(b)
    \/ Sweep
    \/ Tick

Spec == Init /\ [][Next]_vars

\* A server runs the calls it has accepted and PostgreSQL looks for deadlocks
\* (deadlock_timeout); the sweeper's ticker never stops.
Fairness == WF_vars(Sweep) /\ \A r \in Requests : WF_vars(Step(r))

FairSpec == Spec /\ Fairness

-----------------------------------------------------------------------------
(* Properties.                                                               *)

AllClaims == UNION {ClaimsOf(in) : in \in Inputs}

\* Every variable has its type; no call makes more attempts than Hold allows.
TypeOK ==
    /\ now \in Nat
    /\ status \in [Requests -> {"none", "held", "confirmed", "cancelled", "expired"}]
    /\ expires \in [Requests -> Nat \cup {NoTime}]
    /\ claims \in [Requests -> SUBSET AllClaims]
    /\ req \in [Requests -> Inputs]
    /\ pc \in [Requests -> {"submit", "lookup", "check", "begin", "lapse", "insert",
                            "claim", "commit", "replay", "done"}]
    /\ attempt \in [Requests -> 0 .. HoldMaxAttempts]
    /\ began \in [Requests -> Nat \cup {NoTime}]
    /\ lapsed \in [Requests -> SUBSET Requests]
    /\ until \in [Requests -> Nat \cup {NoTime}]
    /\ claimed \in [Requests -> SUBSET AllClaims]
    /\ outcome \in [Requests -> {"none", "booked", "invalid", "showtime_not_found",
                                 "showtime_cancelled", "showtime_started", "seat_not_found",
                                 "seat_unavailable", "booking_not_found", "error"}]
    /\ booking \in [Requests -> Requests \cup {NoBooking}]

\* A seat of a showtime is never claimed by two bookings: the promise of
\* booking_seats_one_active_claim_idx that Hold relies on.
OneActiveClaim ==
    \A a, b \in Requests : a # b => claims[a] \cap claims[b] = {}

\* A booking that holds its seats holds every seat it was made for, and one
\* that does not holds none: no booking is partly claimed, and no seat stays
\* claimed for a booking that is over (Hold and Cancel write both tables in
\* one transaction).  A booking has an expiry exactly while it is held.
SeatsMatchStatus ==
    \A b \in Requests :
        /\ claims[b] = IF IsActive(b) THEN Wanted(b) ELSE {}
        /\ expires[b] # NoTime <=> status[b] = "held"

\* One booking per user and idempotency key, and every call that carried the
\* key and was told a booking was told that one, its own user's.
OneBookingPerKey ==
    /\ \A a, b \in Requests : KeyHolder(a, b) /\ Committed(b) => a = b
    /\ \A r \in Requests :
         outcome[r] = "booked" => \/ booking[r] = r
                                  \/ booking[r] \in Requests /\ SameKey(booking[r], r)

\* The call that lost the insert of its key finds the winner's booking when it
\* looks it up after its rollback (Hold's errIdempotentReplay path).
ReplayFindsWinner ==
    \A r \in Requests : pc[r] = "replay" => \E b \in Requests : KeyHolder(b, r)

-----------------------------------------------------------------------------
(* The inductive invariant behind the safety properties: what an open         *)
(* transaction may rely on.                                                  *)

\* A call has written nothing before its transaction and keeps nothing after
\* it; a transaction has claimed only seats it wants, and all of them when it
\* is about to commit.  A call has no committed row until it is done.
TxInv ==
    \A r \in Requests :
        /\ ~InTx(r) => lapsed[r] = {} /\ claimed[r] = {}
        /\ InTx(r) => began[r] \in 0 .. now
        /\ pc[r] # "done" => status[r] = "none"
        /\ pc[r] \in {"lapse", "insert"} => claimed[r] = {}
        /\ pc[r] \in {"claim", "commit"} => until[r] # NoTime
        /\ claimed[r] \subseteq Wanted(r)
        /\ pc[r] = "commit" => claimed[r] = Wanted(r)
        /\ pc[r] \in {"submit", "lookup", "check"} => attempt[r] = 0
        /\ pc[r] = "begin" => attempt[r] < HoldMaxAttempts

\* A row one transaction is expiring is held, had lapsed when the transaction
\* began, and no other transaction is expiring it.
RowLockInv ==
    /\ \A r \in Requests : \A b \in lapsed[r] : HoldLapsed(b, began[r])
    /\ \A r, p \in Requests : r # p => lapsed[r] \cap lapsed[p] = {}

\* A seat is being claimed by one transaction at most, and is claimed already
\* only by a booking that very transaction is expiring.
IndexLockInv ==
    /\ \A r, p \in Requests : r # p => claimed[r] \cap claimed[p] = {}
    /\ \A r, b \in Requests : claimed[r] \cap claims[b] # {} => b \in lapsed[r]

\* Two rows with one key are never both inserted, committed or not.
KeyLockInv ==
    \A r, p \in Requests :
        /\ r # p /\ SameKey(p, r)
        /\ Inserted(r) \/ Committed(r)
        => ~(Inserted(p) \/ Committed(p))

\* A transaction is shorter than a hold.  So once it has expired the lapsed holds
\* of its showtime, no other hold of the showtime that had lapsed when it began
\* can appear.
LapseInv ==
    \A r \in Requests :
        /\ InTx(r) => now <= began[r] + RequestTimeout
        /\ Inserted(r) => until[r] >= began[r] + HoldTTL
        /\ pc[r] \in {"insert", "claim", "commit"} => Due(r) \subseteq lapsed[r]

IInv ==
    /\ TypeOK /\ TxInv /\ RowLockInv /\ IndexLockInv /\ KeyLockInv
    /\ SeatsMatchStatus /\ OneActiveClaim /\ OneBookingPerKey /\ ReplayFindsWinner
    /\ LapseInv

\* What a transaction has claimed comes before what it has still to claim, so
\* that two transactions that only claim never wait for each other.
OrderInv ==
    \A r \in Requests : \A c \in claimed[r], d \in Remaining(r) : c[2] < d[2]

-----------------------------------------------------------------------------
\* What Get says of a booking and what SeatMap says of its seats agree,
\* whether or not the sweeper has caught up.
OneStory ==
    \A b \in Requests : \A c \in claims[b] :
        SeatStatus(c) = CASE ReportedStatus(b) = "confirmed" -> "sold"
                          [] ReportedStatus(b) = "held" -> "held"
                          [] OTHER -> "available"

\* Claiming seats in the order of their ids leaves one way for transactions to
\* wait on each other in a circle: one of them is expiring a hold whose seat
\* another wants (the deadlock Hold retries).
DeadlockNeedsLapse ==
    \A r \in Requests : InCycle(r) =>
        \E p \in Requests : InCycle(p) /\ lapsed[p] # {}

\* The lifecycle of domain/booking.go: the two terminal states are final, a
\* confirmed booking never expires, and a hold expires only once its window has
\* passed, however a hold, a checkout and the sweeper meet on the row.
LifecycleStep ==
    \A b \in Requests :
        status'[b] # status[b] =>
            \/ status[b] = "none" /\ status'[b] = "held"
            \/ status[b] = "held" /\ status'[b] \in {"confirmed", "cancelled"}
            \/ status[b] = "held" /\ status'[b] = "expired" /\ expires[b] <= now
            \/ status[b] = "confirmed" /\ status'[b] = "cancelled"

Lifecycle == [][LifecycleStep]_vars

\* A call is refused a seat only when, at the start of its last attempt, an
\* active booking that had not lapsed claims it: it never loses to a hold the
\* sweeper has not got to.
RefusalStep ==
    \A r \in Requests :
        outcome[r] # "seat_unavailable" /\ outcome'[r] = "seat_unavailable" =>
            \E b \in Requests : /\ claims[b] \cap Wanted(r) # {}
                                /\ \/ status[b] = "confirmed"
                                   \/ status[b] = "held" /\ expires[b] > began[r]

RefusedOnlyIfTaken == [][RefusalStep]_vars

\* Every call is answered: waits for locks end, deadlocks are broken and the
\* retries are bounded.
EveryCallAnswered == \A r \in Requests : <>(pc[r] = "done")

\* A hold whose window has passed does not stay on the books.
LapsedHoldsGo ==
    \A b \in Requests :
        (status[b] = "held" /\ expires[b] <= now) ~> ~(status[b] = "held" /\ expires[b] <= now)

-----------------------------------------------------------------------------
\* The booking that owns a place, according to a table of claims.
Owner(table, c) == IF \E b \in Requests : c \in table[b]
                   THEN CHOOSE b \in Requests : c \in table[b]
                   ELSE NoBooking

Ledger == INSTANCE SeatLedger WITH
    Bookings <- Requests, Places <- AllClaims, Nobody <- NoBooking,
    stage <- status, owner <- [c \in AllClaims |-> Owner(claims, c)]

\* The repository, statement by statement and under every interleaving,
\* behaves as the ledger does: reservations are atomic, and a seat changes
\* hands only as the ledger allows.
LedgerSpec == Ledger!Spec
=============================================================================
