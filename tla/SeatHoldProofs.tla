--------------------------- MODULE SeatHoldProofs ---------------------------
(***************************************************************************)
(* Proofs about SeatHold, for any number of calls, seats and showtimes.      *)
(*                                                                           *)
(* IInv is the inductive invariant: one lemma per action shows that the      *)
(* action preserves it, NextIInv puts them together, and the theorems about  *)
(* the safety properties follow.  The action properties and the refinement   *)
(* of SeatLedger rest on IInv as well, and with OrderInv so does what is said *)
(* of deadlocks.  Fairness is not used anywhere: EveryCallAnswered and         *)
(* LapsedHoldsGo are left to model checking.                                 *)
(***************************************************************************)
EXTENDS SeatHold, TLAPS

-----------------------------------------------------------------------------
(* One lemma per action, one step per conjunct of the invariant.             *)

\* HoldSeats's checks of its input write no table and open no transaction.
LEMMA ValidatePreserves ==
    ASSUME IInv, NEW r \in Requests, Validate(r)
    PROVE  IInv'
<1>1. TypeOK'
  BY DEF IInv, TypeOK, TxInv, InTx, Validate, Goto, Reply, tables, tx, reply, NoTime
<1>2. TxInv'
  BY DEF IInv, TypeOK, TxInv, InTx, Wanted, Validate, Goto, Reply, tables, tx, reply, NoTime
<1>3. RowLockInv'
  BY DEF IInv, TypeOK, TxInv, RowLockInv, HoldLapsed, InTx, Validate, Goto, Reply, tables,
         tx, reply
<1>4. IndexLockInv'
  BY DEF IInv, TypeOK, TxInv, IndexLockInv, InTx, Validate, Goto, Reply, tables, tx, reply
<1>5. KeyLockInv'
  BY DEF IInv, TypeOK, TxInv, KeyLockInv, SameKey, Committed, Inserted, Validate, Goto,
         Reply, tables, tx, reply
<1>6. SeatsMatchStatus'
  BY DEF IInv, TypeOK, TxInv, SeatsMatchStatus, IsActive, Wanted, NoTime, Validate, Goto,
         Reply, tables, tx, reply
<1>7. OneActiveClaim'
  BY DEF IInv, TypeOK, OneActiveClaim, Validate, Goto, Reply, tables, tx, reply
<1>8. OneBookingPerKey'
  BY DEF IInv, TypeOK, TxInv, OneBookingPerKey, KeyHolder, Committed, SameKey, Validate,
         Goto, Reply, tables, tx, reply
<1>9. ReplayFindsWinner'
  BY DEF IInv, TypeOK, TxInv, ReplayFindsWinner, KeyHolder, Committed, SameKey, Validate,
         Goto, Reply, tables, tx, reply
<1>10. LapseInv'
  BY DEF IInv, TypeOK, TxInv, LapseInv, InTx, Inserted, Due, HoldLapsed, NoTime, Validate,
         Goto, Reply, tables, tx, reply
<1> QED
  BY <1>1, <1>2, <1>3, <1>4, <1>5, <1>6, <1>7, <1>8, <1>9, <1>10 DEF IInv

\* GetByIdempotencyKey before the transaction answers with a committed booking
\* of the caller's own key, or goes on.
LEMMA LookupKeyPreserves ==
    ASSUME IInv, NEW r \in Requests, LookupKey(r)
    PROVE  IInv'
<1>1. TypeOK'
  BY DEF IInv, TypeOK, TxInv, InTx, LookupKey, Goto, Reply, tables, tx, reply, NoTime
<1>2. TxInv'
  BY DEF IInv, TypeOK, TxInv, InTx, Wanted, LookupKey, Goto, Reply, tables, tx, reply,
         NoTime
<1>3. RowLockInv'
  BY DEF IInv, TypeOK, TxInv, RowLockInv, HoldLapsed, InTx, LookupKey, Goto, Reply,
         tables, tx, reply
<1>4. IndexLockInv'
  BY DEF IInv, TypeOK, TxInv, IndexLockInv, InTx, LookupKey, Goto, Reply, tables, tx, reply
<1>5. KeyLockInv'
  BY DEF IInv, TypeOK, TxInv, KeyLockInv, SameKey, Committed, Inserted, LookupKey, Goto,
         Reply, tables, tx, reply
<1>6. SeatsMatchStatus'
  BY DEF IInv, TypeOK, TxInv, SeatsMatchStatus, IsActive, Wanted, NoTime, LookupKey, Goto,
         Reply, tables, tx, reply
<1>7. OneActiveClaim'
  BY DEF IInv, TypeOK, OneActiveClaim, LookupKey, Goto, Reply, tables, tx, reply
<1>8. OneBookingPerKey'
  BY DEF IInv, TypeOK, TxInv, OneBookingPerKey, KeyHolder, Committed, SameKey, LookupKey,
         Goto, Reply, tables, tx, reply
<1>9. ReplayFindsWinner'
  BY DEF IInv, TypeOK, TxInv, ReplayFindsWinner, KeyHolder, Committed, SameKey, LookupKey,
         Goto, Reply, tables, tx, reply
<1>10. LapseInv'
  BY DEF IInv, TypeOK, TxInv, LapseInv, InTx, Inserted, Due, HoldLapsed, NoTime,
         LookupKey, Goto, Reply, tables, tx, reply
<1> QED
  BY <1>1, <1>2, <1>3, <1>4, <1>5, <1>6, <1>7, <1>8, <1>9, <1>10 DEF IInv

\* assertBookable and SeatsByIDs refuse the call or let it on to its first
\* attempt.
LEMMA CheckBookablePreserves ==
    ASSUME IInv, NEW r \in Requests, CheckBookable(r)
    PROVE  IInv'
<1>1. TypeOK'
  BY DEF IInv, TypeOK, TxInv, InTx, CheckBookable, Goto, Reply, Refusal, tables, tx,
         reply, NoTime
<1>2. TxInv'
  <2>1. 0 < HoldMaxAttempts
    BY InputAssumption
  <2> QED
    BY <2>1 DEF IInv, TypeOK, TxInv, InTx, Wanted, CheckBookable, Goto, Reply, NoTime,
                tables, tx
<1>3. RowLockInv'
  BY DEF IInv, TypeOK, TxInv, RowLockInv, HoldLapsed, InTx, CheckBookable, Goto, Reply,
         Refusal, tables, tx, reply
<1>4. IndexLockInv'
  BY DEF IInv, TypeOK, TxInv, IndexLockInv, InTx, CheckBookable, Goto, Reply, Refusal,
         tables, tx, reply
<1>5. KeyLockInv'
  BY DEF IInv, TypeOK, TxInv, KeyLockInv, SameKey, Committed, Inserted, CheckBookable,
         Goto, Reply, Refusal, tables, tx, reply
<1>6. SeatsMatchStatus'
  BY DEF IInv, TypeOK, TxInv, SeatsMatchStatus, IsActive, Wanted, NoTime, CheckBookable,
         Goto, Reply, Refusal, tables, tx, reply
<1>7. OneActiveClaim'
  BY DEF IInv, TypeOK, OneActiveClaim, CheckBookable, Goto, Reply, Refusal, tables, tx,
         reply
<1>8. OneBookingPerKey'
  BY DEF IInv, TypeOK, TxInv, OneBookingPerKey, KeyHolder, Committed, SameKey,
         CheckBookable, Goto, Reply, Refusal, tables, tx, reply
<1>9. ReplayFindsWinner'
  BY DEF IInv, TypeOK, TxInv, ReplayFindsWinner, KeyHolder, Committed, SameKey,
         CheckBookable, Goto, Reply, Refusal, tables, tx, reply
<1>10. LapseInv'
  BY DEF IInv, TypeOK, TxInv, LapseInv, InTx, Inserted, Due, HoldLapsed, NoTime,
         CheckBookable, Goto, Reply, Refusal, tables, tx, reply
<1> QED
  BY <1>1, <1>2, <1>3, <1>4, <1>5, <1>6, <1>7, <1>8, <1>9, <1>10 DEF IInv

\* WithTx opens a transaction that has written nothing; now() is frozen, and
\* the attempt is counted.
LEMMA BeginTxPreserves ==
    ASSUME IInv, NEW r \in Requests, BeginTx(r)
    PROVE  IInv'
<1>1. TypeOK'
  BY InputAssumption DEF IInv, TypeOK, TxInv, InTx, BeginTx, Goto, tables, tx, reply, NoTime
<1>2. TxInv'
  BY InputAssumption DEF IInv, TypeOK, TxInv, InTx, Wanted, BeginTx, Goto, tables, tx,
                         reply, NoTime
<1>3. RowLockInv'
  BY DEF IInv, TypeOK, TxInv, RowLockInv, HoldLapsed, InTx, BeginTx, Goto, tables, tx, reply
<1>4. IndexLockInv'
  BY DEF IInv, TypeOK, TxInv, IndexLockInv, InTx, BeginTx, Goto, tables, tx, reply
<1>5. KeyLockInv'
  BY DEF IInv, TypeOK, TxInv, KeyLockInv, SameKey, Committed, Inserted, BeginTx, Goto,
         tables, tx, reply
<1>6. SeatsMatchStatus'
  BY DEF IInv, TypeOK, TxInv, SeatsMatchStatus, IsActive, Wanted, NoTime, BeginTx, Goto,
         tables, tx, reply
<1>7. OneActiveClaim'
  BY DEF IInv, TypeOK, OneActiveClaim, BeginTx, Goto, tables, tx, reply
<1>8. OneBookingPerKey'
  BY DEF IInv, TypeOK, TxInv, OneBookingPerKey, KeyHolder, Committed, SameKey, BeginTx,
         Goto, tables, tx, reply
<1>9. ReplayFindsWinner'
  BY DEF IInv, TypeOK, TxInv, ReplayFindsWinner, KeyHolder, Committed, SameKey, BeginTx,
         Goto, tables, tx, reply
<1>10. LapseInv'
  BY TimeAssumption DEF IInv, TypeOK, TxInv, LapseInv, InTx, Inserted, Due, HoldLapsed,
                        NoTime, BeginTx, Goto, tables, tx, reply
<1> QED
  BY <1>1, <1>2, <1>3, <1>4, <1>5, <1>6, <1>7, <1>8, <1>9, <1>10 DEF IInv

\* releaseLapsedForShowtime locks a lapsed row nobody else has locked.
LEMMA LapseRowPreserves ==
    ASSUME IInv, NEW r \in Requests, LapseRow(r)
    PROVE  IInv'
<1>1. TypeOK'
  BY DEF IInv, TypeOK, TxInv, InTx, LapseRow, Due, Locked, tables, tx, reply, NoTime
<1>2. TxInv'
  BY DEF IInv, TypeOK, TxInv, InTx, Wanted, LapseRow, Due, Locked, tables, tx, reply, NoTime
<1>3. RowLockInv'
  BY DEF IInv, TypeOK, TxInv, RowLockInv, HoldLapsed, InTx, LapseRow, Due, Locked, tables,
         tx, reply
<1>4. IndexLockInv'
  BY DEF IInv, TypeOK, TxInv, IndexLockInv, InTx, LapseRow, Due, Locked, tables, tx, reply
<1>5. KeyLockInv'
  BY DEF IInv, TypeOK, TxInv, KeyLockInv, SameKey, Committed, Inserted, LapseRow, Due,
         Locked, tables, tx, reply
<1>6. SeatsMatchStatus'
  BY DEF IInv, TypeOK, TxInv, SeatsMatchStatus, IsActive, Wanted, NoTime, LapseRow, Due,
         Locked, tables, tx, reply
<1>7. OneActiveClaim'
  BY DEF IInv, TypeOK, OneActiveClaim, LapseRow, Due, Locked, tables, tx, reply
<1>8. OneBookingPerKey'
  BY DEF IInv, TypeOK, TxInv, OneBookingPerKey, KeyHolder, Committed, SameKey, LapseRow,
         Due, Locked, tables, tx, reply
<1>9. ReplayFindsWinner'
  BY DEF IInv, TypeOK, TxInv, ReplayFindsWinner, KeyHolder, Committed, SameKey, LapseRow,
         Due, Locked, tables, tx, reply
<1>10. LapseInv'
  BY DEF IInv, TypeOK, TxInv, LapseInv, InTx, Inserted, Due, HoldLapsed, NoTime, LapseRow,
         Due, Locked, tables, tx, reply
<1> QED
  BY <1>1, <1>2, <1>3, <1>4, <1>5, <1>6, <1>7, <1>8, <1>9, <1>10 DEF IInv

\* releaseLapsedForShowtime ends when it has every lapsed hold of the
\* showtime.
LEMMA LapseEndPreserves ==
    ASSUME IInv, NEW r \in Requests, LapseEnd(r)
    PROVE  IInv'
<1>1. TypeOK'
  BY DEF IInv, TypeOK, TxInv, InTx, LapseEnd, Goto, tables, tx, reply, NoTime
<1>2. TxInv'
  BY DEF IInv, TypeOK, TxInv, InTx, Wanted, LapseEnd, Goto, tables, tx, reply, NoTime
<1>3. RowLockInv'
  BY DEF IInv, TypeOK, TxInv, RowLockInv, HoldLapsed, InTx, LapseEnd, Goto, tables, tx,
         reply
<1>4. IndexLockInv'
  BY DEF IInv, TypeOK, TxInv, IndexLockInv, InTx, LapseEnd, Goto, tables, tx, reply
<1>5. KeyLockInv'
  BY DEF IInv, TypeOK, TxInv, KeyLockInv, SameKey, Committed, Inserted, LapseEnd, Goto,
         tables, tx, reply
<1>6. SeatsMatchStatus'
  BY DEF IInv, TypeOK, TxInv, SeatsMatchStatus, IsActive, Wanted, NoTime, LapseEnd, Goto,
         tables, tx, reply
<1>7. OneActiveClaim'
  BY DEF IInv, TypeOK, OneActiveClaim, LapseEnd, Goto, tables, tx, reply
<1>8. OneBookingPerKey'
  BY DEF IInv, TypeOK, TxInv, OneBookingPerKey, KeyHolder, Committed, SameKey, LapseEnd,
         Goto, tables, tx, reply
<1>9. ReplayFindsWinner'
  BY DEF IInv, TypeOK, TxInv, ReplayFindsWinner, KeyHolder, Committed, SameKey, LapseEnd,
         Goto, tables, tx, reply
<1>10. LapseInv'
  BY DEF IInv, TypeOK, TxInv, LapseInv, InTx, Inserted, Due, HoldLapsed, NoTime, LapseEnd,
         Goto, tables, tx, reply
<1> QED
  BY <1>1, <1>2, <1>3, <1>4, <1>5, <1>6, <1>7, <1>8, <1>9, <1>10 DEF IInv

\* INSERT INTO bookings under bookings_idempotency_idx: no second row of a
\* key, neither committed nor in an open transaction; a refused insert has
\* found the key's row.
LEMMA InsertBookingPreserves ==
    ASSUME IInv, NEW r \in Requests, InsertBooking(r)
    PROVE  IInv'
<1>1. TypeOK'
  BY TimeAssumption DEF IInv, TypeOK, TxInv, InTx, InsertBooking, Goto, EndTx, tables, tx,
                        reply, NoTime
<1>2. TxInv'
  BY TimeAssumption DEF IInv, TypeOK, TxInv, InTx, Wanted, InsertBooking, Goto, EndTx,
                        tables, tx, reply, NoTime
<1>3. RowLockInv'
  BY DEF IInv, TypeOK, TxInv, RowLockInv, HoldLapsed, InTx, InsertBooking, Goto, EndTx,
         tables, tx, reply
<1>4. IndexLockInv'
  BY DEF IInv, TypeOK, TxInv, IndexLockInv, InTx, InsertBooking, Goto, EndTx, tables, tx,
         reply
<1>5. KeyLockInv'
  <2>1. \A p \in Requests : p # r /\ SameKey(p, r) /\ Inserted(r)' => ~Inserted(p) /\ ~Committed(p)
    BY DEF IInv, TypeOK, InsertBooking, Blocked, WaitsFor, KeyHolder, Inserted, Goto
  <2>2. \A p \in Requests : p # r => (Inserted(p)' <=> Inserted(p))
    BY DEF IInv, TypeOK, InsertBooking, Inserted, Goto
  <2>3. \A p \in Requests : Committed(p)' <=> Committed(p)
    BY DEF InsertBooking, Committed, tables
  <2>4. \A p, q \in Requests : SameKey(p, q)' <=> SameKey(p, q)
    BY DEF InsertBooking, SameKey
  <2>5. ~Committed(r)
    BY DEF IInv, TxInv, InsertBooking, Committed
  <2>6. \A p, q \in Requests : SameKey(p, q) => SameKey(q, p)
    BY DEF SameKey
  <2> QED
    BY <2>1, <2>2, <2>3, <2>4, <2>5, <2>6 DEF IInv, KeyLockInv
<1>6. SeatsMatchStatus'
  BY DEF IInv, TypeOK, TxInv, SeatsMatchStatus, IsActive, Wanted, NoTime, InsertBooking,
         Goto, EndTx, tables, tx, reply
<1>7. OneActiveClaim'
  BY DEF IInv, TypeOK, OneActiveClaim, InsertBooking, Goto, EndTx, tables, tx, reply
<1>8. OneBookingPerKey'
  BY DEF IInv, TypeOK, TxInv, OneBookingPerKey, KeyHolder, Committed, SameKey,
         InsertBooking, Goto, EndTx, tables, tx, reply
<1>9. ReplayFindsWinner'
  BY DEF IInv, TypeOK, TxInv, ReplayFindsWinner, KeyHolder, Committed, SameKey,
         InsertBooking, Goto, EndTx, tables, tx, reply
<1>10. LapseInv'
  BY TimeAssumption DEF IInv, TypeOK, TxInv, LapseInv, InTx, Inserted, Due, HoldLapsed,
                        NoTime, InsertBooking, Goto, EndTx, tables, tx, reply
<1> QED
  BY <1>1, <1>2, <1>3, <1>4, <1>5, <1>6, <1>7, <1>8, <1>9, <1>10 DEF IInv

\* INSERT INTO booking_seats under booking_seats_one_active_claim_idx: a
\* granted seat is claimed by no other transaction, and by no booking this one
\* is not expiring.
LEMMA ClaimSeatPreserves ==
    ASSUME IInv, NEW r \in Requests, ClaimSeat(r)
    PROVE  IInv'
<1> DEFINE Refused == /\ EndTx(r)
                       /\ Reply(r, "seat_unavailable", NoBooking)
           Granted(c) == /\ c \in Wanted(r)
                         /\ \A p \in Requests : p # r => c \notin claimed[p]
                         /\ \A b \in Requests : c \in claims[b] => b \in lapsed[r]
                         /\ claimed' = [claimed EXCEPT ![r] = @ \cup {c}]
                         /\ pc' = [pc EXCEPT ![r] =
                                     IF Wanted(r) \ claimed[r] = {c} THEN "commit" ELSE "claim"]
                         /\ UNCHANGED <<began, lapsed, until, reply>>
<1>a. \/ Refused
      \/ \E c : Granted(c)
  BY DEF ClaimSeat, Blocked, WaitsFor, HoldsIndexEntry, Taken, Remaining, Goto
<1>b. pc[r] = "claim" /\ UNCHANGED <<now, tables, req, attempt>>
  BY DEF ClaimSeat
<1>c. Wanted(r) \subseteq AllClaims
  BY DEF IInv, TypeOK, Wanted, AllClaims
<1>1. TypeOK'
  <2>1. CASE Refused
    BY <1>b, <2>1 DEF IInv, TypeOK, EndTx, Reply, Goto, NoTime, tables
  <2>2. ASSUME NEW c, Granted(c) PROVE TypeOK'
    BY <1>b, <1>c, <2>2 DEF IInv, TypeOK, tables, reply
  <2> QED
    BY <1>a, <2>1, <2>2
<1>2. TxInv'
  <2>1. CASE Refused
    BY <1>b, <2>1 DEF IInv, TypeOK, TxInv, InTx, Wanted, EndTx, Reply, Goto, NoTime, tables
  <2>2. ASSUME NEW c, Granted(c) PROVE TxInv'
    BY <1>b, <2>2 DEF IInv, TypeOK, TxInv, InTx, Wanted, NoTime, tables
  <2> QED
    BY <1>a, <2>1, <2>2
<1>3. RowLockInv'
  BY DEF IInv, TypeOK, TxInv, RowLockInv, HoldLapsed, InTx, ClaimSeat, Goto, EndTx, Reply,
         tables, tx, reply
<1>4. IndexLockInv'
  <2>1. CASE Refused
    BY <1>b, <2>1 DEF IInv, TypeOK, IndexLockInv, EndTx, tables
  <2>2. ASSUME NEW c, Granted(c) PROVE IndexLockInv'
    BY <1>b, <2>2 DEF IInv, TypeOK, IndexLockInv, tables
  <2> QED
    BY <1>a, <2>1, <2>2
<1>5. KeyLockInv'
  BY DEF IInv, TypeOK, TxInv, KeyLockInv, SameKey, Committed, Inserted, ClaimSeat, Goto,
         EndTx, Reply, tables, tx, reply
<1>6. SeatsMatchStatus'
  BY DEF IInv, TypeOK, TxInv, SeatsMatchStatus, IsActive, Wanted, NoTime, ClaimSeat, Goto,
         EndTx, Reply, tables, tx, reply
<1>7. OneActiveClaim'
  BY DEF IInv, TypeOK, OneActiveClaim, ClaimSeat, Goto, EndTx, Reply, tables, tx, reply
<1>8. OneBookingPerKey'
  BY DEF IInv, TypeOK, TxInv, OneBookingPerKey, KeyHolder, Committed, SameKey, ClaimSeat,
         Goto, EndTx, Reply, tables, tx, reply
<1>9. ReplayFindsWinner'
  BY DEF IInv, TypeOK, TxInv, ReplayFindsWinner, KeyHolder, Committed, SameKey, ClaimSeat,
         Goto, EndTx, Reply, tables, tx, reply
<1>10. LapseInv'
  BY DEF IInv, TypeOK, TxInv, LapseInv, InTx, Inserted, Due, HoldLapsed, NoTime,
         ClaimSeat, Goto, EndTx, Reply, tables, tx, reply
<1> QED
  BY <1>1, <1>2, <1>3, <1>4, <1>5, <1>6, <1>7, <1>8, <1>9, <1>10 DEF IInv

\* COMMIT of Hold publishes the booking, its seats and the holds it expired in
\* one step: the seats were free or became so in this very step.
LEMMA CommitPreserves ==
    ASSUME IInv, NEW r \in Requests, Commit(r)
    PROVE  IInv'
<1>1. TypeOK'
  BY DEF IInv, TypeOK, TxInv, InTx, Commit, EndTx, Reply, Goto, tables, tx, reply, NoTime
<1>2. TxInv'
  <2>1. \A b \in lapsed[r] : status[b] = "held" /\ pc[b] = "done"
    BY DEF IInv, TypeOK, TxInv, RowLockInv, HoldLapsed
  <2> QED
    BY <2>1 DEF IInv, TypeOK, TxInv, InTx, Wanted, Commit, EndTx, Reply, Goto, NoTime
<1>3. RowLockInv'
  BY DEF IInv, TypeOK, TxInv, RowLockInv, HoldLapsed, InTx, Commit, EndTx, Reply, Goto,
         tables, tx, reply
<1>4. IndexLockInv'
  BY DEF IInv, TypeOK, TxInv, IndexLockInv, InTx, Commit, EndTx, Reply, Goto, tables, tx,
         reply
<1>5. KeyLockInv'
  <2>1. \A b \in lapsed[r] : Committed(b)
    BY DEF IInv, TypeOK, RowLockInv, HoldLapsed, Committed
  <2>2. Inserted(r)
    BY DEF Commit, Inserted
  <2>3. \A p \in Requests : Committed(p)' => Committed(p) \/ p = r
    BY <2>1 DEF IInv, TypeOK, Commit, Committed
  <2>4. \A p \in Requests : Inserted(p)' => Inserted(p)
    BY DEF IInv, TypeOK, Commit, Reply, Goto, Inserted
  <2>5. \A p, q \in Requests : SameKey(p, q)' <=> SameKey(p, q)
    BY DEF Commit, SameKey
  <2> QED
    BY <2>2, <2>3, <2>4, <2>5 DEF IInv, KeyLockInv
<1>6. SeatsMatchStatus'
  BY DEF IInv, TypeOK, TxInv, SeatsMatchStatus, IsActive, Wanted, NoTime, Commit, EndTx,
         Reply, Goto, tables, tx, reply
<1>7. OneActiveClaim'
  <2>1. \A b \in Requests : b # r /\ b \notin lapsed[r] => claimed[r] \cap claims[b] = {}
    BY DEF IInv, IndexLockInv
  <2> QED
    BY <2>1 DEF IInv, TypeOK, OneActiveClaim, Commit
<1>8. OneBookingPerKey'
  <2>1. \A a, b \in Requests : KeyHolder(a, b)' /\ Committed(b)' => a = b
    BY <1>5 DEF KeyLockInv, KeyHolder
  <2>2. \A p \in Requests : (outcome[p] = "booked" =>
          booking[p] = p \/ (booking[p] \in Requests /\ SameKey(booking[p], p)))'
    BY DEF IInv, TypeOK, OneBookingPerKey, SameKey, Commit, Reply
  <2> QED
    BY <2>1, <2>2 DEF OneBookingPerKey
<1>9. ReplayFindsWinner'
  BY DEF IInv, TypeOK, TxInv, ReplayFindsWinner, KeyHolder, Committed, SameKey, Commit,
         EndTx, Reply, Goto, tables, tx, reply
<1>10. LapseInv'
  BY TimeAssumption DEF IInv, TypeOK, TxInv, LapseInv, InTx, Inserted, Due, HoldLapsed,
                        NoTime, Commit, EndTx, Reply, Goto, tables, tx, reply
<1> QED
  BY <1>1, <1>2, <1>3, <1>4, <1>5, <1>6, <1>7, <1>8, <1>9, <1>10 DEF IInv

\* The errIdempotentReplay path writes nothing.
LEMMA ReplayPreserves ==
    ASSUME IInv, NEW r \in Requests, Replay(r)
    PROVE  IInv'
<1>1. TypeOK'
  BY DEF IInv, TypeOK, TxInv, InTx, Replay, Reply, Goto, tables, tx, reply, NoTime
<1>2. TxInv'
  BY DEF IInv, TypeOK, TxInv, InTx, Wanted, Replay, Reply, Goto, tables, tx, reply, NoTime
<1>3. RowLockInv'
  BY DEF IInv, TypeOK, TxInv, RowLockInv, HoldLapsed, InTx, Replay, Reply, Goto, tables,
         tx, reply
<1>4. IndexLockInv'
  BY DEF IInv, TypeOK, TxInv, IndexLockInv, InTx, Replay, Reply, Goto, tables, tx, reply
<1>5. KeyLockInv'
  BY DEF IInv, TypeOK, TxInv, KeyLockInv, SameKey, Committed, Inserted, Replay, Reply,
         Goto, tables, tx, reply
<1>6. SeatsMatchStatus'
  BY DEF IInv, TypeOK, TxInv, SeatsMatchStatus, IsActive, Wanted, NoTime, Replay, Reply,
         Goto, tables, tx, reply
<1>7. OneActiveClaim'
  BY DEF IInv, TypeOK, OneActiveClaim, Replay, Reply, Goto, tables, tx, reply
<1>8. OneBookingPerKey'
  BY DEF IInv, TypeOK, TxInv, OneBookingPerKey, KeyHolder, Committed, SameKey, Replay,
         Reply, Goto, tables, tx, reply
<1>9. ReplayFindsWinner'
  BY DEF IInv, TypeOK, TxInv, ReplayFindsWinner, KeyHolder, Committed, SameKey, Replay,
         Reply, Goto, tables, tx, reply
<1>10. LapseInv'
  BY DEF IInv, TypeOK, TxInv, LapseInv, InTx, Inserted, Due, HoldLapsed, NoTime, Replay,
         Reply, Goto, tables, tx, reply
<1> QED
  BY <1>1, <1>2, <1>3, <1>4, <1>5, <1>6, <1>7, <1>8, <1>9, <1>10 DEF IInv

\* A rolled back attempt leaves nothing behind, and Hold starts another only
\* while attempts are left.
LEMMA RollbackAndRetryPreserves ==
    ASSUME IInv, NEW r \in Requests, RollbackAndRetry(r), InTx(r)
    PROVE  IInv'
<1>1. TypeOK'
  BY DEF IInv, TypeOK, RollbackAndRetry, EndTx, Goto, Reply, NoTime, tables, reply
<1>2. TxInv'
  BY InputAssumption DEF IInv, TypeOK, TxInv, InTx, Wanted, RollbackAndRetry, EndTx, Goto,
                         Reply, LastAttempt, tables, tx, reply, NoTime
<1>3. RowLockInv'
  BY DEF IInv, TypeOK, TxInv, RowLockInv, HoldLapsed, InTx, RollbackAndRetry, EndTx, Goto,
         Reply, LastAttempt, tables, tx, reply
<1>4. IndexLockInv'
  BY DEF IInv, TypeOK, TxInv, IndexLockInv, InTx, RollbackAndRetry, EndTx, Goto, Reply,
         LastAttempt, tables, tx, reply
<1>5. KeyLockInv'
  BY DEF IInv, TypeOK, TxInv, KeyLockInv, SameKey, Committed, Inserted, RollbackAndRetry,
         EndTx, Goto, Reply, LastAttempt, tables, tx, reply
<1>6. SeatsMatchStatus'
  BY DEF IInv, TypeOK, TxInv, SeatsMatchStatus, IsActive, Wanted, NoTime,
         RollbackAndRetry, EndTx, Goto, Reply, LastAttempt, tables, tx, reply
<1>7. OneActiveClaim'
  BY DEF IInv, TypeOK, OneActiveClaim, RollbackAndRetry, EndTx, Goto, Reply, LastAttempt,
         tables, tx, reply
<1>8. OneBookingPerKey'
  BY DEF IInv, TypeOK, TxInv, OneBookingPerKey, KeyHolder, Committed, SameKey,
         RollbackAndRetry, EndTx, Goto, Reply, LastAttempt, tables, tx, reply
<1>9. ReplayFindsWinner'
  BY DEF IInv, TypeOK, TxInv, ReplayFindsWinner, KeyHolder, Committed, SameKey,
         RollbackAndRetry, EndTx, Goto, Reply, LastAttempt, tables, tx, reply
<1>10. LapseInv'
  BY DEF IInv, TypeOK, TxInv, LapseInv, InTx, Inserted, Due, HoldLapsed, NoTime,
         RollbackAndRetry, EndTx, Goto, Reply, LastAttempt, tables, tx, reply
<1> QED
  BY <1>1, <1>2, <1>3, <1>4, <1>5, <1>6, <1>7, <1>8, <1>9, <1>10 DEF IInv

\* A call cut off at any statement leaves nothing behind.
LEMMA AbortPreserves ==
    ASSUME IInv, NEW r \in Requests, Abort(r)
    PROVE  IInv'
<1>1. TypeOK'
  BY DEF IInv, TypeOK, TxInv, InTx, Abort, EndTx, Reply, Goto, tables, tx, reply, NoTime
<1>2. TxInv'
  BY DEF IInv, TypeOK, TxInv, InTx, Wanted, Abort, EndTx, Reply, Goto, tables, tx, reply,
         NoTime
<1>3. RowLockInv'
  BY DEF IInv, TypeOK, TxInv, RowLockInv, HoldLapsed, InTx, Abort, EndTx, Reply, Goto,
         tables, tx, reply
<1>4. IndexLockInv'
  BY DEF IInv, TypeOK, TxInv, IndexLockInv, InTx, Abort, EndTx, Reply, Goto, tables, tx,
         reply
<1>5. KeyLockInv'
  BY DEF IInv, TypeOK, TxInv, KeyLockInv, SameKey, Committed, Inserted, Abort, EndTx,
         Reply, Goto, tables, tx, reply
<1>6. SeatsMatchStatus'
  BY DEF IInv, TypeOK, TxInv, SeatsMatchStatus, IsActive, Wanted, NoTime, Abort, EndTx,
         Reply, Goto, tables, tx, reply
<1>7. OneActiveClaim'
  BY DEF IInv, TypeOK, OneActiveClaim, Abort, EndTx, Reply, Goto, tables, tx, reply
<1>8. OneBookingPerKey'
  BY DEF IInv, TypeOK, TxInv, OneBookingPerKey, KeyHolder, Committed, SameKey, Abort,
         EndTx, Reply, Goto, tables, tx, reply
<1>9. ReplayFindsWinner'
  BY DEF IInv, TypeOK, TxInv, ReplayFindsWinner, KeyHolder, Committed, SameKey, Abort,
         EndTx, Reply, Goto, tables, tx, reply
<1>10. LapseInv'
  BY DEF IInv, TypeOK, TxInv, LapseInv, InTx, Inserted, Due, HoldLapsed, NoTime, Abort,
         EndTx, Reply, Goto, tables, tx, reply
<1> QED
  BY <1>1, <1>2, <1>3, <1>4, <1>5, <1>6, <1>7, <1>8, <1>9, <1>10 DEF IInv

\* Confirm moves a held row no transaction is expiring.
LEMMA ConfirmPreserves ==
    ASSUME IInv, NEW b \in Requests, Confirm(b)
    PROVE  IInv'
<1>1. TypeOK'
  BY DEF IInv, TypeOK, TxInv, InTx, Confirm, Locked, tables, tx, reply, NoTime
<1>2. TxInv'
  BY DEF IInv, TypeOK, TxInv, InTx, Wanted, Confirm, Locked, tables, tx, reply, NoTime
<1>3. RowLockInv'
  BY DEF IInv, TypeOK, TxInv, RowLockInv, HoldLapsed, InTx, Confirm, Locked, tables, tx,
         reply
<1>4. IndexLockInv'
  BY DEF IInv, TypeOK, TxInv, IndexLockInv, InTx, Confirm, Locked, tables, tx, reply
<1>5. KeyLockInv'
  BY DEF IInv, TypeOK, TxInv, KeyLockInv, SameKey, Committed, Inserted, Confirm, Locked,
         tables, tx, reply
<1>6. SeatsMatchStatus'
  BY DEF IInv, TypeOK, TxInv, SeatsMatchStatus, IsActive, Wanted, NoTime, Confirm, Locked,
         tables, tx, reply
<1>7. OneActiveClaim'
  BY DEF IInv, TypeOK, OneActiveClaim, Confirm, Locked, tables, tx, reply
<1>8. OneBookingPerKey'
  BY DEF IInv, TypeOK, TxInv, OneBookingPerKey, KeyHolder, Committed, SameKey, Confirm,
         Locked, tables, tx, reply
<1>9. ReplayFindsWinner'
  BY DEF IInv, TypeOK, TxInv, ReplayFindsWinner, KeyHolder, Committed, SameKey, Confirm,
         Locked, tables, tx, reply
<1>10. LapseInv'
  BY DEF IInv, TypeOK, TxInv, LapseInv, InTx, Inserted, Due, HoldLapsed, NoTime, Confirm,
         Locked, tables, tx, reply
<1> QED
  BY <1>1, <1>2, <1>3, <1>4, <1>5, <1>6, <1>7, <1>8, <1>9, <1>10 DEF IInv

\* Cancel moves the row and gives up its seats together.
LEMMA CancelPreserves ==
    ASSUME IInv, NEW b \in Requests, Cancel(b)
    PROVE  IInv'
<1>1. TypeOK'
  BY DEF IInv, TypeOK, TxInv, InTx, Cancel, IsActive, ReleaseSeats, Locked, tables, tx,
         reply, NoTime
<1>2. TxInv'
  BY DEF IInv, TypeOK, TxInv, InTx, Wanted, Cancel, IsActive, ReleaseSeats, Locked,
         tables, tx, reply, NoTime
<1>3. RowLockInv'
  BY DEF IInv, TypeOK, TxInv, RowLockInv, HoldLapsed, InTx, Cancel, IsActive,
         ReleaseSeats, Locked, tables, tx, reply
<1>4. IndexLockInv'
  BY DEF IInv, TypeOK, TxInv, IndexLockInv, InTx, Cancel, IsActive, ReleaseSeats, Locked,
         tables, tx, reply
<1>5. KeyLockInv'
  BY DEF IInv, TypeOK, TxInv, KeyLockInv, SameKey, Committed, Inserted, Cancel, IsActive,
         ReleaseSeats, Locked, tables, tx, reply
<1>6. SeatsMatchStatus'
  BY DEF IInv, TypeOK, TxInv, SeatsMatchStatus, IsActive, Wanted, NoTime, Cancel,
         IsActive, ReleaseSeats, Locked, tables, tx, reply
<1>7. OneActiveClaim'
  BY DEF IInv, TypeOK, OneActiveClaim, Cancel, IsActive, ReleaseSeats, Locked, tables, tx,
         reply
<1>8. OneBookingPerKey'
  BY DEF IInv, TypeOK, TxInv, OneBookingPerKey, KeyHolder, Committed, SameKey, Cancel,
         IsActive, ReleaseSeats, Locked, tables, tx, reply
<1>9. ReplayFindsWinner'
  BY DEF IInv, TypeOK, TxInv, ReplayFindsWinner, KeyHolder, Committed, SameKey, Cancel,
         IsActive, ReleaseSeats, Locked, tables, tx, reply
<1>10. LapseInv'
  BY DEF IInv, TypeOK, TxInv, LapseInv, InTx, Inserted, Due, HoldLapsed, NoTime, Cancel,
         IsActive, ReleaseSeats, Locked, tables, tx, reply
<1> QED
  BY <1>1, <1>2, <1>3, <1>4, <1>5, <1>6, <1>7, <1>8, <1>9, <1>10 DEF IInv

\* ExtendHold only moves an expiry forward, of a row no transaction is
\* expiring.
LEMMA ExtendHoldPreserves ==
    ASSUME IInv, NEW b \in Requests, ExtendHold(b)
    PROVE  IInv'
<1>1. TypeOK'
  BY TimeAssumption DEF IInv, TypeOK, TxInv, InTx, ExtendHold, Locked, tables, tx, reply,
                        NoTime
<1>2. TxInv'
  BY TimeAssumption DEF IInv, TypeOK, TxInv, InTx, Wanted, ExtendHold, Locked, tables, tx,
                        reply, NoTime
<1>3. RowLockInv'
  BY DEF IInv, TypeOK, TxInv, RowLockInv, HoldLapsed, InTx, ExtendHold, Locked, tables,
         tx, reply
<1>4. IndexLockInv'
  BY DEF IInv, TypeOK, TxInv, IndexLockInv, InTx, ExtendHold, Locked, tables, tx, reply
<1>5. KeyLockInv'
  BY DEF IInv, TypeOK, TxInv, KeyLockInv, SameKey, Committed, Inserted, ExtendHold,
         Locked, tables, tx, reply
<1>6. SeatsMatchStatus'
  BY DEF IInv, TypeOK, TxInv, SeatsMatchStatus, IsActive, Wanted, NoTime, ExtendHold,
         Locked, tables, tx, reply
<1>7. OneActiveClaim'
  BY DEF IInv, TypeOK, OneActiveClaim, ExtendHold, Locked, tables, tx, reply
<1>8. OneBookingPerKey'
  BY DEF IInv, TypeOK, TxInv, OneBookingPerKey, KeyHolder, Committed, SameKey, ExtendHold,
         Locked, tables, tx, reply
<1>9. ReplayFindsWinner'
  BY DEF IInv, TypeOK, TxInv, ReplayFindsWinner, KeyHolder, Committed, SameKey,
         ExtendHold, Locked, tables, tx, reply
<1>10. LapseInv'
  BY TimeAssumption DEF IInv, TypeOK, TxInv, LapseInv, InTx, Inserted, Due, HoldLapsed,
                        NoTime, ExtendHold, Locked, tables, tx, reply
<1> QED
  BY <1>1, <1>2, <1>3, <1>4, <1>5, <1>6, <1>7, <1>8, <1>9, <1>10 DEF IInv

\* ExpireDueHolds expires rows no transaction has locked, with their seats.
LEMMA SweepPreserves ==
    ASSUME IInv, Sweep
    PROVE  IInv'
<1>1. TypeOK'
  BY DEF IInv, TypeOK, TxInv, InTx, Sweep, HoldLapsed, Locked, tables, tx, reply, NoTime
<1>2. TxInv'
  BY DEF IInv, TypeOK, TxInv, InTx, Wanted, Sweep, HoldLapsed, Locked, tables, tx, reply,
         NoTime
<1>3. RowLockInv'
  BY DEF IInv, TypeOK, TxInv, RowLockInv, HoldLapsed, InTx, Sweep, HoldLapsed, Locked,
         tables, tx, reply
<1>4. IndexLockInv'
  BY DEF IInv, TypeOK, TxInv, IndexLockInv, InTx, Sweep, HoldLapsed, Locked, tables, tx,
         reply
<1>5. KeyLockInv'
  BY DEF IInv, TypeOK, TxInv, KeyLockInv, SameKey, Committed, Inserted, Sweep, HoldLapsed,
         Locked, tables, tx, reply
<1>6. SeatsMatchStatus'
  <2>1. PICK batch \in SUBSET {b \in Requests : HoldLapsed(b, now) /\ ~Locked(b)} :
          /\ status'  = [b \in Requests |-> IF b \in batch THEN "expired" ELSE status[b]]
          /\ expires' = [b \in Requests |-> IF b \in batch THEN NoTime ELSE expires[b]]
          /\ claims'  = [b \in Requests |-> IF b \in batch THEN {} ELSE claims[b]]
          /\ req' = req
    BY DEF Sweep
  <2> QED
    BY <2>1 DEF IInv, TypeOK, SeatsMatchStatus, IsActive, Wanted, NoTime
<1>7. OneActiveClaim'
  BY DEF IInv, TypeOK, OneActiveClaim, Sweep, HoldLapsed, Locked, tables, tx, reply
<1>8. OneBookingPerKey'
  BY DEF IInv, TypeOK, TxInv, OneBookingPerKey, KeyHolder, Committed, SameKey, Sweep,
         HoldLapsed, Locked, tables, tx, reply
<1>9. ReplayFindsWinner'
  BY DEF IInv, TypeOK, TxInv, ReplayFindsWinner, KeyHolder, Committed, SameKey, Sweep,
         HoldLapsed, Locked, tables, tx, reply
<1>10. LapseInv'
  BY DEF IInv, TypeOK, TxInv, LapseInv, InTx, Inserted, Due, HoldLapsed, NoTime, Sweep,
         HoldLapsed, Locked, tables, tx, reply
<1> QED
  BY <1>1, <1>2, <1>3, <1>4, <1>5, <1>6, <1>7, <1>8, <1>9, <1>10 DEF IInv

\* The clock may pass no open transaction's deadline.
LEMMA TickPreserves ==
    ASSUME IInv, Tick
    PROVE  IInv'
<1>1. TypeOK'
  BY DEF IInv, TypeOK, TxInv, InTx, Tick, tables, tx, reply, NoTime
<1>2. TxInv'
  BY DEF IInv, TypeOK, TxInv, InTx, Wanted, Tick, tables, tx, reply, NoTime
<1>3. RowLockInv'
  BY DEF IInv, TypeOK, TxInv, RowLockInv, HoldLapsed, InTx, Tick, tables, tx, reply
<1>4. IndexLockInv'
  BY DEF IInv, TypeOK, TxInv, IndexLockInv, InTx, Tick, tables, tx, reply
<1>5. KeyLockInv'
  BY DEF IInv, TypeOK, TxInv, KeyLockInv, SameKey, Committed, Inserted, Tick, tables, tx,
         reply
<1>6. SeatsMatchStatus'
  BY DEF IInv, TypeOK, TxInv, SeatsMatchStatus, IsActive, Wanted, NoTime, Tick, tables,
         tx, reply
<1>7. OneActiveClaim'
  BY DEF IInv, TypeOK, OneActiveClaim, Tick, tables, tx, reply
<1>8. OneBookingPerKey'
  BY DEF IInv, TypeOK, TxInv, OneBookingPerKey, KeyHolder, Committed, SameKey, Tick,
         tables, tx, reply
<1>9. ReplayFindsWinner'
  BY DEF IInv, TypeOK, TxInv, ReplayFindsWinner, KeyHolder, Committed, SameKey, Tick,
         tables, tx, reply
<1>10. LapseInv'
  BY TimeAssumption DEF IInv, TypeOK, TxInv, LapseInv, InTx, Inserted, Due, HoldLapsed,
                        NoTime, Tick, tables, tx, reply
<1> QED
  BY <1>1, <1>2, <1>3, <1>4, <1>5, <1>6, <1>7, <1>8, <1>9, <1>10 DEF IInv

-----------------------------------------------------------------------------
(* The invariant.                                                            *)

\* The empty tables the service starts from satisfy the invariant.
LEMMA InitIInv == Init => IInv
<1> SUFFICES ASSUME Init PROVE IInv
  OBVIOUS
<1>1. TypeOK
  BY InputAssumption DEF Init, TypeOK, NoTime
<1>2. TxInv /\ RowLockInv /\ IndexLockInv /\ KeyLockInv /\ LapseInv
  BY <1>1 DEF Init, TypeOK, TxInv, RowLockInv, IndexLockInv, KeyLockInv, LapseInv, InTx,
              Inserted, Committed
<1>3. SeatsMatchStatus /\ OneActiveClaim /\ OneBookingPerKey /\ ReplayFindsWinner
  BY <1>1 DEF Init, SeatsMatchStatus, OneActiveClaim, OneBookingPerKey, ReplayFindsWinner,
              IsActive, KeyHolder, Committed, NoTime
<1> QED
  BY <1>1, <1>2, <1>3 DEF IInv

\* Whoever PostgreSQL fails, for a deadlock or a reference collision, is
\* inside its transaction.
LEMMA VictimInTx ==
    ASSUME NEW r \in Requests, DeadlockVictim(r) \/ ReferenceCollision(r)
    PROVE  RollbackAndRetry(r) /\ InTx(r)
BY DEF DeadlockVictim, ReferenceCollision, InCycle, Blocked, WaitsFor, InTx

\* The invariant speaks of the module's variables only.
LEMMA StutterPreserves == ASSUME IInv, UNCHANGED vars PROVE IInv'
<1> USE DEF vars, tables, tx, reply
<1>1. TypeOK' /\ TxInv' /\ RowLockInv' /\ IndexLockInv'
  BY DEF IInv, TypeOK, TxInv, RowLockInv, IndexLockInv, InTx, Wanted, HoldLapsed
<1>2. KeyLockInv' /\ OneBookingPerKey' /\ ReplayFindsWinner'
  BY DEF IInv, KeyLockInv, OneBookingPerKey, ReplayFindsWinner, KeyHolder, SameKey,
         Committed, Inserted
<1>3. SeatsMatchStatus' /\ OneActiveClaim' /\ LapseInv'
  BY DEF IInv, SeatsMatchStatus, OneActiveClaim, LapseInv, IsActive, Wanted, InTx,
         Inserted, Due, HoldLapsed
<1> QED
  BY <1>1, <1>2, <1>3 DEF IInv

\* Every step of the repository, of any interleaved call, preserves the
\* invariant.
LEMMA NextIInv == IInv /\ [Next]_vars => IInv'
<1> SUFFICES ASSUME IInv, [Next]_vars PROVE IInv'
  OBVIOUS
<1>1. ASSUME NEW r \in Requests, Step(r) PROVE IInv'
  BY <1>1, ValidatePreserves, LookupKeyPreserves, CheckBookablePreserves, BeginTxPreserves,
     LapseRowPreserves, LapseEndPreserves, InsertBookingPreserves, ClaimSeatPreserves,
     CommitPreserves, ReplayPreserves, RollbackAndRetryPreserves, VictimInTx DEF Step
<1>2. ASSUME NEW r \in Requests, Abort(r) PROVE IInv'
  BY <1>2, AbortPreserves
<1>3. ASSUME NEW b \in Requests, Confirm(b) \/ Cancel(b) \/ ExtendHold(b) PROVE IInv'
  BY <1>3, ConfirmPreserves, CancelPreserves, ExtendHoldPreserves
<1>4. CASE Sweep
  BY <1>4, SweepPreserves
<1>5. CASE Tick
  BY <1>5, TickPreserves
<1>6. CASE UNCHANGED vars
  BY <1>6, StutterPreserves
<1> QED
  BY <1>1, <1>2, <1>3, <1>4, <1>5, <1>6 DEF Next

\* The inductive invariant holds throughout: what an open Hold transaction
\* relies on (its row, index and key locks) is never taken from it.
THEOREM Invariance == Spec => []IInv
<1> QED
  BY InitIInv, NextIInv, PTL DEF Spec

\* Type correctness, which includes the bound on Hold's retry loop.
THEOREM TypeCorrect == Spec => []TypeOK
<1>1. IInv => TypeOK
  BY DEF IInv
<1> QED
  BY <1>1, Invariance, PTL

\* No seat of a showtime is ever claimed by two bookings, however the calls of
\* Hold, Confirm, Cancel and the sweeper interleave.
THEOREM NoDoubleBooking == Spec => []OneActiveClaim
<1>1. IInv => OneActiveClaim
  BY DEF IInv
<1> QED
  BY <1>1, Invariance, PTL

\* A booking that is held or confirmed has every seat it was made for and any
\* other has none, so Hold, Cancel and the sweeper never leave the two tables
\* apart.
THEOREM AllOrNothing == Spec => []SeatsMatchStatus
<1>1. IInv => SeatsMatchStatus
  BY DEF IInv
<1> QED
  BY <1>1, Invariance, PTL

\* One booking per user and Idempotency-Key, and it is what every call with the
\* key is told.
THEOREM Idempotence == Spec => []OneBookingPerKey
<1>1. IInv => OneBookingPerKey
  BY DEF IInv
<1> QED
  BY <1>1, Invariance, PTL

\* A call that lost the race for its key finds the winner's booking when it
\* looks it up after its rollback, so errIdempotentReplay never ends in "not
\* found".
THEOREM ReplayIsAnswered == Spec => []ReplayFindsWinner
<1>1. IInv => ReplayFindsWinner
  BY DEF IInv
<1> QED
  BY <1>1, Invariance, PTL

\* GetByID with HoldLapsed and the SeatMap query tell the same story about a
\* seat, whether or not the sweeper has caught up.
THEOREM ViewsAgree == Spec => []OneStory
<1>1. IInv => OneStory
  <2> SUFFICES ASSUME IInv, NEW b \in Requests, NEW c \in claims[b]
               PROVE  SeatStatus(c) = CASE ReportedStatus(b) = "confirmed" -> "sold"
                                        [] ReportedStatus(b) = "held" -> "held"
                                        [] OTHER -> "available"
    BY DEF OneStory
  <2>1. \A a \in Requests : c \in claims[a] <=> a = b
    BY DEF IInv, OneActiveClaim
  <2>2. status[b] \in {"held", "confirmed"}
    BY DEF IInv, SeatsMatchStatus, IsActive
  <2>3. expires[b] \in Int /\ now \in Int
    BY DEF IInv, TypeOK, NoTime
  <2>4. CASE status[b] = "confirmed"
    BY <2>1, <2>4 DEF SeatStatus, ReportedStatus, HoldLapsed
  <2>5. CASE status[b] = "held" /\ expires[b] > now
    BY <2>1, <2>3, <2>5 DEF SeatStatus, ReportedStatus, HoldLapsed
  <2>6. CASE status[b] = "held" /\ expires[b] <= now
    BY <2>1, <2>3, <2>6 DEF SeatStatus, ReportedStatus, HoldLapsed
  <2> QED
    BY <2>2, <2>3, <2>4, <2>5, <2>6
<1> QED
  BY <1>1, Invariance, PTL

-----------------------------------------------------------------------------
(* Action properties.                                                        *)

\* Each step moves a booking along the lifecycle of domain/booking.go or not
\* at all.
LEMMA LifecycleOfStep ==
    ASSUME IInv, [Next]_vars
    PROVE  LifecycleStep
<1> DEFINE Moves(b) ==
      status'[b] # status[b] =>
            \/ status[b] = "none" /\ status'[b] = "held"
            \/ status[b] = "held" /\ status'[b] \in {"confirmed", "cancelled"}
            \/ status[b] = "held" /\ status'[b] = "expired" /\ expires[b] <= now
            \/ status[b] = "confirmed" /\ status'[b] = "cancelled"
<1> SUFFICES \A b \in Requests : Moves(b)
  BY DEF LifecycleStep
<1>1. ASSUME NEW r \in Requests, Step(r), ~Commit(r) PROVE status' = status
  BY <1>1 DEF Step, Validate, LookupKey, CheckBookable, BeginTx, LapseRow, LapseEnd,
              InsertBooking,
     ClaimSeat, Replay, DeadlockVictim, ReferenceCollision, RollbackAndRetry, tables
<1>2. ASSUME NEW r \in Requests, Commit(r) PROVE \A b \in Requests : Moves(b)
  <2>1. status[r] = "none"
    BY <1>2 DEF IInv, TxInv, Commit
  <2>2. \A b \in lapsed[r] : status[b] = "held" /\ expires[b] <= now
    <3> TAKE b \in lapsed[r]
    <3>1. HoldLapsed(b, began[r]) /\ b \in Requests
      BY DEF IInv, RowLockInv, TypeOK
    <3>2. began[r] \in 0 .. now /\ now \in Nat
      BY <1>2 DEF IInv, TypeOK, TxInv, InTx, Commit
    <3>3. expires[b] \in Int
      BY <3>1 DEF IInv, TypeOK, NoTime
    <3> QED
      BY <3>1, <3>2, <3>3 DEF HoldLapsed
  <2> QED
    BY <1>2, <2>1, <2>2 DEF Commit
<1>3. ASSUME NEW r \in Requests, Abort(r) PROVE status' = status
  BY <1>3 DEF Abort, tables
<1>4. ASSUME NEW b \in Requests, Confirm(b) \/ Cancel(b) \/ ExtendHold(b)
      PROVE  \A d \in Requests : Moves(d)
  BY <1>4 DEF IInv, TypeOK, Confirm, Cancel, ExtendHold, IsActive
<1>5. ASSUME Sweep PROVE \A b \in Requests : Moves(b)
  BY <1>5 DEF IInv, TypeOK, Sweep, HoldLapsed
<1>6. ASSUME Tick \/ UNCHANGED vars PROVE status' = status
  BY <1>6 DEF Tick, vars, tables
<1> QED
  BY <1>1, <1>2, <1>3, <1>4, <1>5, <1>6 DEF Next

\* The booking lifecycle of domain/booking.go: cancelled and expired are
\* final, a confirmed booking never expires, and Hold and the sweeper expire a
\* hold only once its window has passed.
THEOREM LifecycleHolds == Spec => Lifecycle
<1>1. IInv /\ [Next]_vars => [LifecycleStep]_vars
  BY LifecycleOfStep
<1> QED
  BY <1>1, Invariance, PTL DEF Spec, Lifecycle

\* ErrSeatUnavailable comes from a claim that is active and had not lapsed
\* when the transaction began.
LEMMA RefusalOfStep ==
    ASSUME IInv, [Next]_vars
    PROVE  RefusalStep
<1> SUFFICES ASSUME NEW r \in Requests, outcome[r] # "seat_unavailable",
                    outcome'[r] = "seat_unavailable"
             PROVE  \E b \in Requests : /\ claims[b] \cap Wanted(r) # {}
                                        /\ \/ status[b] = "confirmed"
                                           \/ status[b] = "held" /\ expires[b] > began[r]
  BY DEF RefusalStep
<1>1. PICK c \in Wanted(r) : Taken(r, c) /\ pc[r] = "claim"
  <2>1. ASSUME NEW p \in Requests, Step(p), ~ClaimSeat(p) PROVE outcome'[r] # "seat_unavailable"
    BY <2>1 DEF IInv, TypeOK, Step, Validate, LookupKey, CheckBookable, Refusal, BeginTx,
                LapseRow,
       LapseEnd, InsertBooking, Commit, Replay, DeadlockVictim, ReferenceCollision,
       RollbackAndRetry, Reply, reply
  <2>2. ASSUME NEW p \in Requests, ClaimSeat(p), p # r PROVE outcome'[r] = outcome[r]
    BY <2>2 DEF IInv, TypeOK, ClaimSeat, Reply, reply
  <2>3. ASSUME ClaimSeat(r) PROVE \E c \in Wanted(r) : Taken(r, c) /\ pc[r] = "claim"
    BY <2>3 DEF ClaimSeat, Remaining, reply
  <2>4. ASSUME NEW p \in Requests, Abort(p) PROVE outcome'[r] # "seat_unavailable"
    BY <2>4 DEF IInv, TypeOK, Abort, Reply
  <2>5. ASSUME NEW b \in Requests, Confirm(b) \/ Cancel(b) \/ ExtendHold(b)
        PROVE  outcome' = outcome
    BY <2>5 DEF Confirm, Cancel, ExtendHold, reply
  <2>6. ASSUME Sweep \/ Tick \/ UNCHANGED vars PROVE outcome' = outcome
    BY <2>6 DEF Sweep, Tick, vars, reply
  <2> QED
    BY <2>1, <2>2, <2>3, <2>4, <2>5, <2>6 DEF Next
<1>2. PICK b \in Requests : c \in claims[b] /\ b \notin lapsed[r]
  BY <1>1 DEF Taken
<1>3. IsActive(b) /\ c \in Wanted(b)
  BY <1>2 DEF IInv, SeatsMatchStatus
<1>4. req[b].showtime = req[r].showtime
  BY <1>1, <1>3 DEF Wanted, ClaimsOf
<1>5. ~HoldLapsed(b, began[r])
  BY <1>1, <1>2, <1>4 DEF IInv, LapseInv, Due
<1>6. expires[b] \in Int /\ began[r] \in Int
  BY DEF IInv, TypeOK, NoTime
<1> QED
  BY <1>1, <1>2, <1>3, <1>5, <1>6 DEF HoldLapsed, IsActive

\* Hold never refuses a seat because of a hold that had lapsed when the
\* attempt began (releaseLapsedForShowtime); needs a request timeout shorter
\* than a hold.
THEOREM NoRefusalForLapsed == Spec => RefusedOnlyIfTaken
<1>1. IInv /\ [Next]_vars => [RefusalStep]_vars
  BY RefusalOfStep
<1> QED
  BY <1>1, Invariance, PTL DEF Spec, RefusedOnlyIfTaken

-----------------------------------------------------------------------------
(* Deadlocks.                                                                *)

\* The ids of the seats a call wants are numbers, and no two seats of one
\* showtime share one.
LEMMA SeatIds ==
    ASSUME IInv, NEW r \in Requests
    PROVE  /\ \A c \in Wanted(r) : c[2] \in Int
           /\ \A c, d \in Wanted(r) : c[2] = d[2] => c = d
           /\ Remaining(r) \subseteq Wanted(r)
<1>1. req[r].seats \in Seq(Int)
  BY InputAssumption DEF IInv, TypeOK
<1>2. Listed(req[r]) \subseteq Int
  BY <1>1 DEF Listed
<1> QED
  BY <1>2 DEF Wanted, ClaimsOf, Remaining

\* HoldSeats claims in the order of the seat ids: ClaimSeat takes the least of
\* what remains, and every other step keeps what is claimed or drops all of it.
LEMMA OrderOfStep ==
    ASSUME IInv, IInv', OrderInv, [Next]_vars
    PROVE  OrderInv'
<1>1. req' = req
  BY DEF Next, Step, Validate, LookupKey, CheckBookable, BeginTx, LapseRow, LapseEnd,
         InsertBooking, ClaimSeat, Commit, Replay, DeadlockVictim, ReferenceCollision,
         RollbackAndRetry, Abort, Confirm, Cancel, ExtendHold, Sweep, Tick, vars
<1>2. ASSUME NEW r \in Requests, claimed'[r] = claimed[r] \/ claimed'[r] = {}
      PROVE  \A c \in claimed'[r], d \in Remaining(r)' : c[2] < d[2]
  BY <1>1, <1>2 DEF OrderInv, Remaining, Wanted
<1>3. ASSUME NEW p \in Requests, Step(p), ~ClaimSeat(p)
      PROVE  \A r \in Requests : claimed'[r] = claimed[r] \/ claimed'[r] = {}
  BY <1>3 DEF IInv, TypeOK, Step, Validate, LookupKey, CheckBookable, BeginTx, LapseRow,
              LapseEnd, InsertBooking, Commit, Replay, DeadlockVictim, ReferenceCollision,
              RollbackAndRetry, EndTx, tx
<1>4. ASSUME NEW p \in Requests, ClaimSeat(p) PROVE OrderInv'
  <2>1. PICK c \in Remaining(p) :
          /\ IsNext(p, c)
          /\ \/ claimed' = [claimed EXCEPT ![p] = @ \cup {c}]
             \/ claimed' = [claimed EXCEPT ![p] = {}]
    BY <1>4 DEF ClaimSeat, EndTx
  <2>2. CASE claimed' = [claimed EXCEPT ![p] = {}]
    <3>1. \A r \in Requests : claimed'[r] = claimed[r] \/ claimed'[r] = {}
      BY <2>2 DEF IInv, TypeOK
    <3> QED
      BY <3>1, <1>2 DEF OrderInv
  <2>3. CASE claimed' = [claimed EXCEPT ![p] = @ \cup {c}]
    <3>1. \A r \in Requests : r # p => claimed'[r] = claimed[r]
      BY <2>3 DEF IInv, TypeOK
    <3>2. claimed'[p] = claimed[p] \cup {c}
      BY <2>3 DEF IInv, TypeOK
    <3>3. Remaining(p)' = Remaining(p) \ {c}
      BY <3>2, <1>1 DEF Remaining, Wanted
    <3>4. \A d \in Remaining(p) \ {c} : c[2] < d[2]
      BY <2>1, SeatIds DEF IsNext, Remaining
    <3>5. \A a \in claimed'[p], d \in Remaining(p)' : a[2] < d[2]
      BY <3>2, <3>3, <3>4 DEF OrderInv
    <3> QED
      BY <1>2, <3>1, <3>5 DEF OrderInv
  <2> QED
    BY <2>1, <2>2, <2>3
<1>5. ASSUME NEW p \in Requests, Abort(p)
      PROVE  \A r \in Requests : claimed'[r] = claimed[r] \/ claimed'[r] = {}
  BY <1>5 DEF IInv, TypeOK, Abort, EndTx
<1>6. ASSUME \/ \E b \in Requests : Confirm(b) \/ Cancel(b) \/ ExtendHold(b)
             \/ Sweep \/ Tick \/ UNCHANGED vars
      PROVE  claimed' = claimed
  BY <1>6 DEF Confirm, Cancel, ExtendHold, Sweep, Tick, vars, tx
<1> QED
  BY <1>2, <1>3, <1>4, <1>5, <1>6 DEF Next, OrderInv

\* Waiting through others extends, and is transitive.
LEMMA WaitingExtends ==
    ASSUME NEW p \in Requests, NEW q \in Requests, NEW s \in Requests
    PROVE  /\ WaitsFor(p, q) => WaitsThrough(p, q)
           /\ WaitsThrough(p, q) /\ WaitsFor(q, s) => WaitsThrough(p, s)
           /\ WaitsThrough(p, q) /\ WaitsThrough(q, s) => WaitsThrough(p, s)
<1>1. WaitsFor(p, q) => WaitsThrough(p, q)
  BY DEF WaitsThrough
<1>2. ASSUME WaitsThrough(p, q), WaitsFor(q, s) PROVE WaitsThrough(p, s)
  BY <1>2 DEF WaitsThrough
<1>3. ASSUME WaitsThrough(p, q), WaitsThrough(q, s) PROVE WaitsThrough(p, s)
  <2> SUFFICES ASSUME NEW S \in SUBSET Requests,
                      \A a \in S \cup {p}, b \in Requests : WaitsFor(a, b) => b \in S
               PROVE  s \in S
    BY DEF WaitsThrough
  <2>1. q \in S
    BY <1>3 DEF WaitsThrough
  <2> QED
    BY <1>3, <2>1 DEF WaitsThrough
<1> QED
  BY <1>1, <1>2, <1>3

\* Whoever waits through others waits, and whoever is waited for through others
\* is waited for.
LEMMA WaitingEnds ==
    ASSUME NEW p \in Requests, NEW q \in Requests, WaitsThrough(p, q)
    PROVE  Blocked(p) /\ \E a \in Requests : WaitsFor(a, q)
<1>1. Blocked(p)
  <2> SUFFICES ASSUME ~Blocked(p) PROVE FALSE
    OBVIOUS
  <2> DEFINE N == {}
  <2>1. N \in SUBSET Requests
    OBVIOUS
  <2>2. \A a \in N \cup {p}, b \in Requests : WaitsFor(a, b) => b \in N
    BY DEF Blocked
  <2>3. q \in N
    <3> HIDE DEF N
    <3> QED
      BY <2>1, <2>2 DEF WaitsThrough
  <2> QED
    BY <2>3
<1>2. \E a \in Requests : WaitsFor(a, q)
  <2> DEFINE S == {b \in Requests : \E a \in Requests : WaitsFor(a, b)}
  <2>1. S \in SUBSET Requests
    OBVIOUS
  <2>2. \A a \in S \cup {p}, b \in Requests : WaitsFor(a, b) => b \in S
    OBVIOUS
  <2>3. q \in S
    BY <2>1, <2>2 DEF WaitsThrough
  <2> QED
    BY <2>3
<1> QED
  BY <1>1, <1>2

\* One that waits, and is waited for although it expires nothing, is claiming
\* seats, and what is wanted of it comes before what it wants itself.
LEMMA ClaimersWait ==
    ASSUME IInv, OrderInv, NEW p \in Requests, NEW q \in Requests,
           WaitsFor(p, q), lapsed[q] = {}, Blocked(q)
    PROVE  /\ pc[q] = "claim"
           /\ pc[p] = "claim" =>
                \E c \in Remaining(p) : IsNext(p, c) /\ \A d \in Remaining(q) : c[2] < d[2]
<1>1. pc[q] \in {"lapse", "insert", "claim"}
  BY DEF Blocked, WaitsFor
<1>2. claimed[q] # {} => pc[q] \in {"claim", "commit"}
  BY DEF IInv, TxInv, InTx
<1>3. pc[q] = "claim"
  BY <1>1, <1>2 DEF WaitsFor, HoldsIndexEntry, Inserted
<1>4. ASSUME pc[p] = "claim"
      PROVE  \E c \in Remaining(p) : IsNext(p, c) /\ \A d \in Remaining(q) : c[2] < d[2]
  <2>1. PICK c \in Remaining(p) : IsNext(p, c) /\ c \in claimed[q]
    BY <1>4 DEF WaitsFor, HoldsIndexEntry
  <2> QED
    BY <2>1 DEF OrderInv
<1> QED
  BY <1>3, <1>4

\* Around a circle of claims the seats wanted would grow for ever.
LEMMA CirclesLapse == ASSUME IInv, OrderInv PROVE DeadlockNeedsLapse
<1> SUFFICES ASSUME NEW r \in Requests, InCycle(r),
                    \A p \in Requests : InCycle(p) => lapsed[p] = {}
             PROVE  FALSE
  BY DEF DeadlockNeedsLapse
<1> DEFINE Around(q) == WaitsThrough(r, q) /\ WaitsThrough(q, r)
           Later(q)  == /\ pc[q] = "claim"
                        /\ \A c \in Remaining(r), d \in Remaining(q) :
                             IsNext(r, c) => c[2] < d[2]
           Ahead     == {q \in Requests : /\ WaitsThrough(r, q)
                                          /\ WaitsThrough(q, r) => Later(q)}
<1>1. Around(r)
  BY DEF InCycle
<1>2. ASSUME NEW q \in Requests, Around(q)
      PROVE  InCycle(q) /\ Blocked(q) /\ lapsed[q] = {}
  BY <1>2, WaitingExtends, WaitingEnds DEF InCycle
<1>3. pc[r] = "claim"
  <2>1. PICK p \in Requests : WaitsFor(p, r)
    BY <1>1, WaitingEnds
  <2> QED
    BY <1>1, <1>2, <2>1, ClaimersWait
<1>4. ASSUME NEW p \in Ahead \cup {r}, NEW q \in Requests, WaitsFor(p, q)
      PROVE  q \in Ahead
  <2>1. p \in Requests /\ WaitsThrough(r, p)
    BY <1>1
  <2>2. WaitsThrough(r, q)
    BY <1>4, <2>1, WaitingExtends
  <2> SUFFICES ASSUME WaitsThrough(q, r) PROVE Later(q)
    BY <2>2
  <2>3. WaitsThrough(p, r)
    BY <1>4, <2>1, WaitingExtends
  <2>4. pc[p] = "claim"
    BY <1>3, <2>3
  <2>5. Blocked(q) /\ lapsed[q] = {}
    BY <1>2, <2>2
  <2>6. PICK c \in Remaining(p) : IsNext(p, c) /\ \A d \in Remaining(q) : c[2] < d[2]
    BY <1>4, <2>1, <2>4, <2>5, ClaimersWait
  <2>7. \A b \in Remaining(r) : IsNext(r, b) => b[2] <= c[2]
    <3>1. CASE p = r
      BY <2>6, <3>1 DEF IsNext
    <3>2. CASE p # r
      <4>1. Later(p)
        BY <2>3, <3>2
      <4> QED
        BY <2>1, <2>6, <4>1, SeatIds
    <3> QED
      BY <3>1, <3>2
  <2>8. \A b \in Remaining(r), d \in Remaining(q) : IsNext(r, b) => b[2] < d[2]
    BY <2>1, <2>6, <2>7, SeatIds
  <2>9. pc[q] = "claim"
    BY <1>4, <2>1, <2>5, ClaimersWait
  <2> QED
    BY <2>8, <2>9
<1>5. r \in Ahead
  <2>1. Ahead \in SUBSET Requests
    OBVIOUS
  <2> QED
    BY <1>1, <1>4, <2>1 DEF WaitsThrough
<1>6. Later(r)
  BY <1>1, <1>5
<1>7. PICK c \in Remaining(r) : IsNext(r, c)
  BY <1>1, <1>2, <1>3 DEF Blocked, WaitsFor
<1> QED
  BY <1>6, <1>7, SeatIds

\* The only deadlocks are those Hold's comment names: the claims alone, made
\* in the order of the ids, never deadlock.
THEOREM OnlyLapsesDeadlock == Spec => []DeadlockNeedsLapse
<1>1. Init => OrderInv
  BY DEF Init, OrderInv
<1>2. IInv /\ IInv' /\ OrderInv /\ [Next]_vars => OrderInv'
  BY OrderOfStep
<1>3. IInv /\ OrderInv => DeadlockNeedsLapse
  BY CirclesLapse
<1> QED
  BY <1>1, <1>2, <1>3, Invariance, PTL DEF Spec

-----------------------------------------------------------------------------
(* The refinement.                                                           *)

\* In a table of disjoint claims a place has at most one owner, and Owner
\* finds it.
LEMMA OwnerLemma ==
    ASSUME NEW table, NEW c,
           \A a, b \in Requests : a # b => table[a] \cap table[b] = {}
    PROVE  /\ \A b \in Requests : Owner(table, c) = b <=> c \in table[b]
           /\ (\A b \in Requests : c \notin table[b]) => Owner(table, c) = NoBooking
           /\ Owner(table, c) \in Requests \cup {NoBooking}
<1>1. CASE \E b \in Requests : c \in table[b]
  <2>1. PICK b \in Requests : c \in table[b]
    BY <1>1
  <2>2. \A a \in Requests : c \in table[a] => a = b
    BY <2>1
  <2>3. Owner(table, c) = CHOOSE a \in Requests : c \in table[a]
    BY <1>1 DEF Owner
  <2>4. Owner(table, c) \in Requests /\ c \in table[Owner(table, c)]
    BY <2>1, <2>3
  <2>5. Owner(table, c) = b
    BY <2>2, <2>4
  <2> QED
    BY <2>1, <2>2, <2>5
<1>2. CASE ~\E b \in Requests : c \in table[b]
  <2>1. Owner(table, c) = NoBooking
    BY <1>2 DEF Owner
  <2> QED
    BY <1>2, <2>1, InputAssumption
<1> QED
  BY <1>1, <1>2

\* Empty tables are an empty ledger.
LEMMA LedgerInit == Init => Ledger!Init
<1> SUFFICES ASSUME Init PROVE Ledger!Init
  OBVIOUS
<1>1. status = [b \in Requests |-> "none"]
  BY DEF Init
<1>2. \A c : Owner(claims, c) = NoBooking
  BY DEF Init, Owner
<1> QED
  BY <1>1, <1>2 DEF Ledger!Init

\* Hold's COMMIT is one reservation of the ledger, the sweeper's batch a
\* lapse, Confirm a sale and Cancel a release; every other statement changes
\* nothing the ledger sees.
LEMMA LedgerStep ==
    ASSUME IInv, IInv', [Next]_vars
    PROVE  [Ledger!Next]_(Ledger!vars)
<1> DEFINE own(c) == Owner(claims, c)
<1>o. /\ \A c : \A b \in Requests : own(c) = b <=> c \in claims[b]
      /\ \A c : (\A b \in Requests : c \notin claims[b]) => own(c) = NoBooking
      /\ \A c : own(c) \in Requests \cup {NoBooking}
  <2>1. \A a, b \in Requests : a # b => claims[a] \cap claims[b] = {}
    BY DEF IInv, OneActiveClaim
  <2> QED
    BY <2>1, OwnerLemma
<1>p. /\ \A c : \A b \in Requests : own(c)' = b <=> c \in claims'[b]
      /\ \A c : (\A b \in Requests : c \notin claims'[b]) => own(c)' = NoBooking
      /\ \A c : own(c)' \in Requests \cup {NoBooking}
  <2>1. \A a, b \in Requests : a # b => claims'[a] \cap claims'[b] = {}
    BY DEF IInv, OneActiveClaim
  <2> QED
    BY <2>1, OwnerLemma
<1>n. NoBooking \notin Requests
  BY InputAssumption
<1> HIDE DEF own
<1>s. ASSUME status' = status, claims' = claims PROVE UNCHANGED Ledger!vars
  BY <1>s DEF Ledger!vars, own, Owner
<1>1. ASSUME NEW r \in Requests, Step(r), ~Commit(r) PROVE UNCHANGED Ledger!vars
  <2>1. status' = status /\ claims' = claims
    BY <1>1 DEF Step, Validate, LookupKey, CheckBookable, BeginTx, LapseRow, LapseEnd,
       InsertBooking, ClaimSeat, Replay, DeadlockVictim, ReferenceCollision, RollbackAndRetry, tables
  <2> QED
    BY <2>1, <1>s
<1>2. ASSUME NEW r \in Requests, Commit(r) PROVE Ledger!Next
  <2>1. status[r] = "none" /\ r \notin lapsed[r] /\ lapsed[r] \in SUBSET Requests
    BY <1>2 DEF IInv, TypeOK, TxInv, RowLockInv, HoldLapsed, Commit
  <2>2. \A g \in lapsed[r] : status[g] = "held"
    BY DEF IInv, RowLockInv, HoldLapsed
  <2>3. claimed[r] \in SUBSET AllClaims
    BY DEF IInv, TypeOK
  <2>4. \A c \in claimed[r] : own(c) \in lapsed[r] \cup {NoBooking}
    BY <1>o DEF IInv, IndexLockInv
  <2>5. \A c \in AllClaims : own(c)' = IF c \in claimed[r] THEN r
                                       ELSE IF own(c) \in lapsed[r] THEN NoBooking ELSE own(c)
    <3> TAKE c \in AllClaims
    <3>0. \A b \in Requests : claims'[b] = IF b = r THEN claimed[r]
                                           ELSE IF b \in lapsed[r] THEN {} ELSE claims[b]
      BY <1>2 DEF Commit
    <3>9. claims[r] = {}
      BY <2>1 DEF IInv, SeatsMatchStatus, IsActive
    <3>1. CASE c \in claimed[r]
      BY <3>0, <3>1, <1>p
    <3>2. CASE c \notin claimed[r] /\ own(c) \in lapsed[r]
      <4>1. \A b \in Requests : c \in claims[b] => b \in lapsed[r]
        BY <3>2, <1>o
      <4> QED
        BY <3>0, <3>2, <4>1, <1>p
    <3>3. CASE c \notin claimed[r] /\ own(c) \notin lapsed[r]
      <4>1. CASE own(c) \in Requests
        <5>1. c \in claims[own(c)] /\ own(c) # r
          BY <4>1, <1>o, <3>9
        <5>2. c \in claims'[own(c)]
          BY <5>1, <3>0, <3>3, <4>1
        <5> QED
          BY <5>2, <4>1, <3>3, <1>p
      <4>2. CASE own(c) = NoBooking
        <5>1. \A b \in Requests : c \notin claims[b]
          BY <4>2, <1>o, <1>n
        <5>2. \A b \in Requests : c \notin claims'[b]
          BY <5>1, <3>0, <3>3
        <5> QED
          BY <5>2, <4>2, <3>3, <1>p
      <4> QED
        BY <4>1, <4>2, <1>o
    <3> QED
      BY <3>1, <3>2, <3>3
  <2>6. status' = [b \in Requests |-> IF b = r THEN "held"
                                      ELSE IF b \in lapsed[r] THEN "expired" ELSE status[b]]
    BY <1>2 DEF Commit
  <2>7. Ledger!Reserve(r, claimed[r], lapsed[r])
    BY <2>1, <2>2, <2>3, <2>4, <2>5, <2>6 DEF Ledger!Reserve, own
  <2>8. r \in Ledger!In("none") /\ lapsed[r] \in SUBSET Ledger!In("held")
    BY <2>1, <2>2 DEF Ledger!In
  <2> QED
    BY <2>3, <2>7, <2>8 DEF Ledger!Next
<1>3. ASSUME NEW r \in Requests, Abort(r) PROVE UNCHANGED Ledger!vars
  BY <1>3, <1>s DEF Abort, tables
<1>4. ASSUME NEW b \in Requests, Confirm(b) PROVE Ledger!Next
  <2>1. Ledger!Sell(b)
    BY <1>4 DEF Confirm, Ledger!Sell, Owner
  <2> QED
    BY <2>1 DEF Ledger!Next
<1>5. ASSUME NEW b \in Requests, Cancel(b) PROVE Ledger!Next
  <2>1. \A c : own(c)' = IF own(c) = b THEN NoBooking ELSE own(c)
    <3> TAKE c
    <3>1. \A d \in Requests : c \in claims'[d] <=> c \in claims[d] /\ d # b
      BY <1>5 DEF IInv, TypeOK, Cancel, ReleaseSeats
    <3>2. CASE own(c) = b
      BY <3>1, <3>2, <1>o, <1>p
    <3>3. CASE own(c) # b
      BY <3>1, <3>3, <1>o, <1>p, <1>n
    <3> QED
      BY <3>2, <3>3
  <2>2. Ledger!Release(b)
    BY <1>5, <2>1 DEF Cancel, IsActive, Ledger!Release, own
  <2> QED
    BY <2>2 DEF Ledger!Next
<1>6. ASSUME NEW b \in Requests, ExtendHold(b) PROVE UNCHANGED Ledger!vars
  BY <1>6, <1>s DEF ExtendHold
<1>7. ASSUME Sweep PROVE Ledger!Next
  <2>1. PICK batch \in SUBSET Requests :
          /\ batch # {}
          /\ \A b \in batch : status[b] = "held"
          /\ status'  = [b \in Requests |-> IF b \in batch THEN "expired" ELSE status[b]]
          /\ claims'  = [b \in Requests |-> IF b \in batch THEN {} ELSE claims[b]]
    BY <1>7 DEF Sweep, HoldLapsed
  <2>2. \A c : own(c)' = IF own(c) \in batch THEN NoBooking ELSE own(c)
    <3> TAKE c
    <3>1. \A d \in Requests : c \in claims'[d] <=> c \in claims[d] /\ d \notin batch
      BY <2>1
    <3>2. CASE own(c) \in batch
      BY <3>1, <3>2, <1>o, <1>p
    <3>3. CASE own(c) \notin batch
      BY <3>1, <3>3, <1>o, <1>p, <1>n
    <3> QED
      BY <3>2, <3>3
  <2>3. Ledger!Lapse(batch)
    BY <2>1, <2>2 DEF Ledger!Lapse, own
  <2>4. batch \in SUBSET Ledger!In("held")
    BY <2>1 DEF Ledger!In
  <2> QED
    BY <2>3, <2>4 DEF Ledger!Next
<1>8. ASSUME Tick \/ UNCHANGED vars PROVE UNCHANGED Ledger!vars
  BY <1>8, <1>s DEF Tick, vars, tables
<1> QED
  BY <1>1, <1>2, <1>3, <1>4, <1>5, <1>6, <1>7, <1>8 DEF Next

\* The booking repository implements the ledger: with all its statements,
\* locks, retries and interleavings, a reservation is atomic and a seat
\* changes hands only as SeatLedger allows.
THEOREM ImplementsLedger == Spec => LedgerSpec
<1>1. IInv /\ IInv' /\ [Next]_vars => [Ledger!Next]_(Ledger!vars)
  BY LedgerStep
<1> QED
  BY <1>1, LedgerInit, Invariance, PTL DEF Spec, LedgerSpec, Ledger!Spec

=============================================================================
