----------------------------- MODULE RateLimiter -----------------------------
(***************************************************************************)
(* The per-client throttle of the HTTP layer: a token bucket per address,   *)
(* and the eviction of idle buckets.  A mutex makes every call of allow one *)
(* step.  Time is counted in ticks and tokens in units, so that fractions   *)
(* of a token stay whole numbers: a tick brings Rate units and a request    *)
(* costs Cost of them.                                                       *)
(***************************************************************************)
EXTENDS Integers, Sequences

CONSTANTS
    Clients,   \* addresses, as clientIP reports them
    Burst,     \* RATE_LIMIT_BURST
    Rate,      \* RATE_LIMIT_RPS, in units per tick
    Cost,      \* units of one token
    BucketTTL, \* ipBucketTTL
    MaxTime    \* bound on the clock

\* newIPLimiter: a burst that is not positive is one.
Capacity == (IF Burst <= 0 THEN 1 ELSE Burst) * Cost

\* A bucket fills up within its time to live: the defaults need two seconds of
\* ten minutes.  The configuration does not check it.
ASSUME RefillAssumption ==
    /\ Burst \in Int
    /\ {Rate, Cost, BucketTTL} \subseteq Nat \ {0}
    /\ MaxTime \in Nat
    /\ Capacity <= Rate * BucketTTL

VARIABLES
    now,
    present, \* keys of buckets
    seen,    \* ipBucket.seen, which is also when tokens was brought up to date
    tokens,  \* rate.Limiter
    lastGC,
    grants,  \* history: when each client's requests were let through
    answer   \* each client's last answer

vars == <<now, present, seen, tokens, lastGC, grants, answer>>

Minimum(x, y) == IF x <= y THEN x ELSE y

-----------------------------------------------------------------------------
GainUncapped(c) == tokens[c] + Rate * (now - seen[c])

\* rate.Limiter: the units a bucket has gained since it was last used.
Gain(c) == Minimum(Capacity, tokens[c] + Rate * (now - seen[c]))

AnyIdle(c) == seen[c] < now
NeverIdle(c) == FALSE

Idle(c) == now - seen[c] > BucketTTL

\* The buckets that survive the collection, if one is due.
Kept ==
    IF now - lastGC > BucketTTL THEN {c \in present : ~Idle(c)} ELSE present

FreshEmpty == 0

\* rate.NewLimiter: a new bucket is full.
Fresh == Capacity

\* RateLimit passes the request on or answers 429.
Answer(ok) == IF ok THEN "allowed" ELSE "refused"

\* ipLimiter.allow
Allow(c) ==
    LET had == IF c \in Kept THEN Gain(c) ELSE Fresh
        ok  == had >= Cost
    IN  /\ present' = Kept \cup {c}
        /\ lastGC'  = IF now - lastGC > BucketTTL THEN now ELSE lastGC
        /\ seen'    = [seen EXCEPT ![c] = now]
        /\ tokens'  = [tokens EXCEPT ![c] = IF ok THEN had - Cost ELSE had]
        /\ grants'  = IF ok THEN [grants EXCEPT ![c] = Append(@, now)] ELSE grants
        /\ answer'  = [answer EXCEPT ![c] = Answer(ok)]
        /\ UNCHANGED now

Tick ==
    /\ now < MaxTime
    /\ now' = now + 1
    /\ UNCHANGED <<present, seen, tokens, lastGC, grants, answer>>

Init ==
    /\ now = 0 /\ lastGC = 0
    /\ present = {}
    /\ seen   = [c \in Clients |-> 0]
    /\ tokens = [c \in Clients |-> Capacity]
    /\ grants = [c \in Clients |-> << >>]
    /\ answer = [c \in Clients |-> "none"]

Next == Tick \/ \E c \in Clients : Allow(c)

Spec == Init /\ [][Next]_vars

-----------------------------------------------------------------------------
(* Properties.                                                               *)

\* Every variable has its type; a bucket holds a burst at most.
TypeOK ==
    /\ now \in 0 .. MaxTime
    /\ present \subseteq Clients
    /\ seen \in [Clients -> 0 .. now]
    /\ tokens \in [Clients -> 0 .. Capacity]
    /\ lastGC \in 0 .. now
    /\ grants \in [Clients -> Seq(Nat)]
    /\ answer \in [Clients -> {"none", "allowed", "refused"}]

\* Units a client has used since its i-th grant, that one included.
UsedSince(c, i) == (Len(grants[c]) - i + 1) * Cost

\* In every stretch of time a client gets a burst and what the rate brings,
\* never more, although its bucket may be evicted and replaced by a full one
\* in the middle (middleware.go: allow).
RateBound ==
    \A c \in Clients : \A i, j \in DOMAIN grants[c] :
        i <= j => (j - i + 1) * Cost <= Capacity + Rate * (grants[c][j] - grants[c][i])

\* A client is refused only if letting it through would have broken that bound:
\* the throttle is exact, and no client pays for another or for an eviction.
RefusedOnlyOverRate ==
    \A c \in Clients : answer[c] = "refused" /\ seen[c] = now =>
        \E i \in DOMAIN grants[c] :
            UsedSince(c, i) + Cost > Capacity + Rate * (now - grants[c][i])

\* Memory does not grow with the addresses ever seen: whenever a request has
\* been judged, the buckets left are those used in the last two lifetimes.
CollectStep == now' = now => \A c \in present' : now - seen'[c] <= 2 * BucketTTL

\* CollectStep for every call of allow.
OldBucketsGo == [][CollectStep]_vars
=============================================================================
