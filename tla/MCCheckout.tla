----------------------------- MODULE MCCheckout -----------------------------
(* Instances of Checkout for TLC: everything concerns one booking.           *)
EXTENDS Checkout, TLC

CONSTANTS b1

OneBooking == [p \in Calls |-> b1]

\* Every call is made.
All == {Calls}

\* Two checkouts beside one cancellation, or two cancellations beside one checkout,
\* and every release.
PairAndOne ==
    {made \in SUBSET Calls :
        /\ Releases \subseteq made
        /\ {Cardinality(made \cap Checkouts), Cardinality(made \cap Cancels)} = {1, 2}}

\* Checkouts, cancellations, releases and handlers are interchangeable.
AnyCall == Permutations(Checkouts) \cup Permutations(Cancels) \cup Permutations(Handlers)
=============================================================================
