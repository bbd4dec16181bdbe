----------------------------- MODULE MCSeatHold -----------------------------
(* Instances of SeatHold for TLC: one hall of two seats.                     *)
EXTENDS SeatHold, TLC

CONSTANTS r1, r2, alice, bob, k, evening, matinee, gala, nowhere

Call(u, key, st, seats) == [user |-> u, key |-> key, showtime |-> st, seats |-> seats]

\* Calls that fight over the two seats, in both list orders, with and without
\* a shared idempotency key.
RaceInputs == {
    Call(alice, NoKey, evening, <<1, 2>>), Call(bob, NoKey, evening, <<2, 1>>),
    Call(alice, k, evening, <<2>>),        Call(bob, k, evening, <<1>>) }

\* Every refusal of HoldSeats, two showtimes that share a hall, and a replay
\* whose seats differ.
WideInputs == {
    Call(alice, k, evening, <<1>>),       Call(alice, k, matinee, <<2>>),
    Call(bob, k, evening, <<2, 1>>),      Call(bob, NoKey, matinee, <<1>>),
    Call(NoUser, NoKey, evening, <<1>>),  Call(bob, NoKey, evening, << >>),
    Call(bob, NoKey, evening, <<1, 1>>),  Call(bob, NoKey, evening, <<1, 2, 3>>),
    Call(bob, NoKey, evening, <<1, 9>>),  Call(bob, NoKey, gala, <<1>>),
    Call(bob, NoKey, nowhere, <<1>>) }

AnyTraffic == [Requests -> Inputs]

\* The fewest calls with which transactions deadlock: the third expires the
\* first one's hold on seat 2 while the second, which has seat 1, wants it.
DeadlockInputs == {Call(alice, NoKey, evening, <<1, 2>>), Call(bob, k, evening, <<2>>)}

\* Two calls of any kind beside a third that is refused at once, or that pattern.
MixedInputs == WideInputs \cup DeadlockInputs
MixedTraffic ==
    {f \in [Requests -> WideInputs] : \A r \in Requests \ {r1, r2} : f[r].user = NoUser}
    \cup {(r1 :> Call(bob, k, evening, <<2>>)) @@ [r \in Requests |-> Call(alice, NoKey, evening, <<1, 2>>)]}

OneShow   == {evening}
ThreeShows == {evening, matinee, gala}
TwoSeats  == [st \in Showtimes |-> {1, 2}]
Late      == [st \in Showtimes |-> IF st = evening THEN 4 ELSE 3]
GalaIsOff == {gala}
AnyRequest == Permutations(Requests)
=============================================================================
