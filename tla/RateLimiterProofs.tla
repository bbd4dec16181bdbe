------------------------- MODULE RateLimiterProofs -------------------------
(* Proofs about RateLimiter, for every rate, burst and lifetime of buckets   *)
(* in which a bucket fills up within its lifetime.                           *)
EXTENDS RateLimiter, TLAPS

\* What is in the bucket and what was used since a grant never exceed a burst
\* and what the rate has brought since that grant.
CreditInv == \A c \in Clients : \A i \in DOMAIN grants[c] :
    tokens[c] + UsedSince(c, i) <= Capacity + Rate * (seen[c] - grants[c][i])

\* A bucket that is not full is exactly at that limit for some grant.
ExactInv == \A c \in Clients :
    \/ tokens[c] = Capacity
    \/ \E i \in DOMAIN grants[c] :
         tokens[c] + UsedSince(c, i) >= Capacity + Rate * (seen[c] - grants[c][i])

\* A client without a bucket has not been let through, or not for long.
AbsentInv == \A c \in Clients :
    c \in present \/ grants[c] = << >> \/ now - seen[c] > BucketTTL

\* A bucket was young enough at the last collection, or is younger than it.
YoungInv == \A c \in present : lastGC - seen[c] <= BucketTTL

IInv == TypeOK /\ CreditInv /\ ExactInv /\ AbsentInv /\ YoungInv /\ RateBound /\ RefusedOnlyOverRate

-----------------------------------------------------------------------------
(* Arithmetic.                                                               *)

LEMMA Distribute ==
    ASSUME NEW k \in Int, NEW x \in Int, NEW y \in Int, NEW z \in Int
    PROVE  k * (x - z) = k * (x - y) + k * (y - z)
OBVIOUS

LEMMA Monotone ==
    ASSUME NEW k \in Nat, NEW x \in Int, NEW y \in Int, x <= y
    PROVE  k * x <= k * y
OBVIOUS

LEMMA OneMore ==
    ASSUME NEW k \in Int, NEW x \in Int
    PROVE  /\ k * x \in Int
           /\ (x + 1) * k = x * k + k
           /\ x * k \in Int
OBVIOUS

LEMMA CapacityHolds == Capacity \in Nat /\ Cost <= Capacity /\ Cost \in Nat \ {0}
<1>1. Cost \in Nat \ {0} /\ Burst \in Int
  BY RefillAssumption
<1>2. CASE Burst <= 0
  BY <1>1, <1>2 DEF Capacity
<1>3. CASE ~(Burst <= 0)
  <2>1. Burst \in Nat /\ 1 <= Burst
    BY <1>1, <1>3
  <2>2. Cost * 1 <= Cost * Burst
    BY <1>1, <2>1, Monotone
  <2> QED BY <1>1, <1>3, <2>1, <2>2 DEF Capacity
<1> QED BY <1>2, <1>3

-----------------------------------------------------------------------------
LEMMA InitInv == Init => IInv
<1> SUFFICES ASSUME Init PROVE IInv
  OBVIOUS
<1> USE RefillAssumption, CapacityHolds DEF Init
<1>1. TypeOK
  <2>1. grants \in [Clients -> Seq(Nat)]
    OBVIOUS
  <2> QED BY <2>1 DEF TypeOK
<1>2. \A c \in Clients : grants[c] = << >> /\ DOMAIN grants[c] = {}
  <2>1. DOMAIN << >> = {}
    OBVIOUS
  <2> QED BY <2>1
<1>3. CreditInv /\ ExactInv /\ AbsentInv /\ YoungInv /\ RateBound /\ RefusedOnlyOverRate
  BY <1>2 DEF CreditInv, ExactInv, AbsentInv, YoungInv, RateBound, RefusedOnlyOverRate
<1> QED BY <1>1, <1>3 DEF IInv

LEMMA TickStep == ASSUME IInv, Tick PROVE IInv'
<1> USE RefillAssumption DEF IInv, Tick
<1>1. TypeOK'
  BY DEF TypeOK
<1>2. CreditInv' /\ ExactInv' /\ RateBound'
  BY DEF CreditInv, ExactInv, RateBound, UsedSince
<1>3. AbsentInv' /\ YoungInv'
  BY DEF AbsentInv, YoungInv, TypeOK
<1>4. RefusedOnlyOverRate'
  BY DEF RefusedOnlyOverRate, TypeOK
<1> QED BY <1>1, <1>2, <1>3, <1>4

\* What a request finds in its bucket, be it kept, evicted or new.
Had(c) == IF c \in Kept THEN Gain(c) ELSE Fresh

LEMMA HadBounds ==
    ASSUME IInv, NEW c \in Clients
    PROVE  /\ Had(c) \in Nat /\ Had(c) <= Capacity
           /\ \A i \in DOMAIN grants[c] :
                Had(c) + UsedSince(c, i) <= Capacity + Rate * (now - grants[c][i])
           /\ \/ Had(c) = Capacity
              \/ \E i \in DOMAIN grants[c] :
                   Had(c) + UsedSince(c, i) >= Capacity + Rate * (now - grants[c][i])
<1> USE RefillAssumption, CapacityHolds DEF IInv
<1>1. /\ now \in Nat /\ seen[c] \in Nat /\ seen[c] <= now /\ lastGC \in Nat
      /\ tokens[c] \in Nat /\ tokens[c] <= Capacity /\ grants[c] \in Seq(Nat)
  BY DEF TypeOK
<1> DEFINE gain == Rate * (now - seen[c])
<1>2. gain \in Nat
  <2>1. Rate * 0 <= gain
    BY <1>1, Monotone
  <2> QED BY <1>1, <2>1, OneMore
<1>3. ASSUME NEW i \in DOMAIN grants[c]
      PROVE  /\ grants[c][i] \in Nat /\ UsedSince(c, i) \in Int
             /\ Rate * (seen[c] - grants[c][i]) \in Int
             /\ Rate * (now - grants[c][i]) = gain + Rate * (seen[c] - grants[c][i])
  <2>1. grants[c][i] \in Nat /\ i \in Int /\ Len(grants[c]) \in Nat
    BY <1>1, <1>3
  <2>2. Rate * (now - grants[c][i]) = gain + Rate * (seen[c] - grants[c][i])
    <3>1. Rate \in Int /\ now \in Int /\ seen[c] \in Int /\ grants[c][i] \in Int
      BY <1>1, <2>1
    <3>2. Rate * (now - grants[c][i])
            = Rate * (now - seen[c]) + Rate * (seen[c] - grants[c][i])
      BY ONLY <3>1
    <3> QED BY <3>2 DEF gain
  <2>3. UsedSince(c, i) \in Int
    BY <2>1, OneMore DEF UsedSince
  <2>4. Rate * (seen[c] - grants[c][i]) \in Int
    BY <1>1, <2>1, OneMore
  <2> QED BY <2>1, <2>2, <2>3, <2>4
<1> HIDE DEF gain
<1>4. Had(c) = Capacity \/ Had(c) = tokens[c] + gain
  BY DEF Had, Gain, Fresh, Minimum, gain
<1>5. Had(c) \in Nat /\ Had(c) <= Capacity
  BY <1>1, <1>2 DEF Had, Gain, Fresh, Minimum, gain
\* A bucket that was evicted would have been full by now.
<1>6. grants[c] = << >> \/ Had(c) <= tokens[c] + gain
  <2>1. CASE c \in Kept
    BY <1>1, <1>2, <2>1 DEF Had, Gain, Minimum, gain
  <2>2. CASE c \notin Kept /\ grants[c] # << >>
    <3>1. now - seen[c] > BucketTTL
      BY <1>1, <2>2 DEF Kept, Idle, AbsentInv
    <3>2. Rate * BucketTTL <= gain
      <4>1. Rate \in Nat /\ BucketTTL \in Int /\ now - seen[c] \in Int /\ BucketTTL <= now - seen[c]
        BY <1>1, <3>1
      <4> QED BY <4>1, Monotone, Zenon DEF gain
    <3>3. Rate * BucketTTL \in Int
      BY OneMore
    <3> QED BY <1>1, <1>2, <2>2, <3>2, <3>3 DEF Had, Fresh
  <2> QED BY <2>1, <2>2
<1>7. ASSUME NEW i \in DOMAIN grants[c]
      PROVE  Had(c) + UsedSince(c, i) <= Capacity + Rate * (now - grants[c][i])
  <2>1. grants[c] # << >>
    BY <1>7
  <2>2. tokens[c] + UsedSince(c, i) <= Capacity + Rate * (seen[c] - grants[c][i])
    BY DEF CreditInv
  <2> DEFINE then == Rate * (seen[c] - grants[c][i])
             since == Rate * (now - grants[c][i])
  <2>3. then \in Int /\ since = gain + then /\ UsedSince(c, i) \in Int
    BY <1>3
  <2>4. tokens[c] + UsedSince(c, i) <= Capacity + then
    BY <2>2
  <2> HIDE DEF then, since
  <2>5. /\ Had(c) \in Int /\ tokens[c] \in Int /\ gain \in Int /\ Capacity \in Int
        /\ Had(c) <= tokens[c] + gain
    BY <1>1, <1>2, <1>5, <1>6, <2>1
  <2>6. Had(c) + UsedSince(c, i) <= Capacity + since
    BY ONLY <2>3, <2>4, <2>5
  <2> QED BY <2>6 DEF since
<1>8. ASSUME Had(c) # Capacity
      PROVE  \E i \in DOMAIN grants[c] :
               Had(c) + UsedSince(c, i) >= Capacity + Rate * (now - grants[c][i])
  <2>1. Had(c) = tokens[c] + gain /\ tokens[c] # Capacity
    BY <1>1, <1>2, <1>4, <1>5, <1>8
  <2>2. PICK i \in DOMAIN grants[c] :
          tokens[c] + UsedSince(c, i) >= Capacity + Rate * (seen[c] - grants[c][i])
    BY <2>1 DEF ExactInv
  <2>3. Had(c) + UsedSince(c, i) >= Capacity + Rate * (now - grants[c][i])
    <3> DEFINE then == Rate * (seen[c] - grants[c][i])
               since == Rate * (now - grants[c][i])
    <3>1. then \in Int /\ since = gain + then /\ UsedSince(c, i) \in Int
      BY <1>3
    <3>2. tokens[c] + UsedSince(c, i) >= Capacity + then
      BY <2>2
    <3> HIDE DEF then, since
    <3>3. tokens[c] \in Int /\ gain \in Int /\ Capacity \in Int /\ Had(c) = tokens[c] + gain
      BY <1>1, <1>2, <2>1
    <3>4. Had(c) + UsedSince(c, i) >= Capacity + since
      BY ONLY <3>1, <3>2, <3>3
    <3> QED BY <3>4 DEF since
  <2> QED BY <2>3
<1> QED BY <1>5, <1>7, <1>8

-----------------------------------------------------------------------------
\* The parts that do not depend on the answer.
LEMMA AllowBuckets ==
    ASSUME IInv, NEW c \in Clients, Allow(c)
    PROVE  TypeOK' /\ AbsentInv' /\ YoungInv'
<1> USE RefillAssumption, CapacityHolds DEF IInv
<1>1. Had(c) \in Nat /\ Had(c) <= Capacity
  BY HadBounds
<1>2. /\ present' = Kept \cup {c}
      /\ lastGC' = IF now - lastGC > BucketTTL THEN now ELSE lastGC
      /\ seen' = [seen EXCEPT ![c] = now]
      /\ tokens' = [tokens EXCEPT ![c] = IF Had(c) >= Cost THEN Had(c) - Cost ELSE Had(c)]
      /\ grants' = IF Had(c) >= Cost THEN [grants EXCEPT ![c] = Append(@, now)] ELSE grants
      /\ answer' = [answer EXCEPT ![c] = IF Had(c) >= Cost THEN "allowed" ELSE "refused"]
      /\ now' = now
  BY DEF Allow, Had, Answer
<1>3. TypeOK'
  <2>1. tokens' \in [Clients -> 0 .. Capacity]
    BY <1>1, <1>2 DEF TypeOK
  <2>2. grants' \in [Clients -> Seq(Nat)]
    BY <1>2 DEF TypeOK
  <2>3. present' \subseteq Clients
    BY <1>2 DEF TypeOK, Kept
  <2> QED BY <1>2, <2>1, <2>2, <2>3 DEF TypeOK
<1>4. AbsentInv'
  <2> SUFFICES ASSUME NEW d \in Clients, d \notin present', grants'[d] # << >>
               PROVE  now' - seen'[d] > BucketTTL
    BY DEF AbsentInv
  <2>1. d # c /\ seen'[d] = seen[d] /\ grants'[d] = grants[d]
    BY <1>2 DEF TypeOK
  <2> QED BY <1>2, <2>1 DEF TypeOK, AbsentInv, Kept, Idle
<1>5. YoungInv'
  BY <1>2 DEF TypeOK, YoungInv, Kept, Idle
<1> QED BY <1>3, <1>4, <1>5

LEMMA AllowCredit ==
    ASSUME IInv, NEW c \in Clients, Allow(c)
    PROVE  CreditInv' /\ ExactInv' /\ RateBound' /\ RefusedOnlyOverRate'
<1> USE CapacityHolds DEF IInv
<1>0. Rate \in Nat /\ Cost \in Nat
  BY RefillAssumption
<1>n. PICK n \in Nat : n = Len(grants[c])
  BY DEF TypeOK
<1> DEFINE Since(i) == Rate * (now - grants[c][i])
<1>1. /\ Had(c) \in Nat /\ Had(c) <= Capacity
      /\ \A i \in DOMAIN grants[c] : Had(c) + UsedSince(c, i) <= Capacity + Since(i)
      /\ \/ Had(c) = Capacity
         \/ \E i \in DOMAIN grants[c] : Had(c) + UsedSince(c, i) >= Capacity + Since(i)
  BY HadBounds
<1>2. /\ now \in Nat /\ n \in Nat /\ grants[c] \in Seq(Nat) /\ DOMAIN grants[c] = 1 .. n
      /\ seen'[c] = now /\ now' = now
  BY <1>n DEF TypeOK, Allow
<1>3. \A d \in Clients : d # c =>
        /\ seen'[d] = seen[d] /\ tokens'[d] = tokens[d] /\ grants'[d] = grants[d]
        /\ answer'[d] = answer[d]
        /\ \A i : UsedSince(d, i)' = UsedSince(d, i)
  BY DEF TypeOK, Allow, UsedSince
<1>4. \A i \in 1 .. n : Since(i) \in Int /\ UsedSince(c, i) \in Int
  <2> SUFFICES ASSUME NEW i \in 1 .. n PROVE Since(i) \in Int /\ UsedSince(c, i) \in Int
    OBVIOUS
  <2>1. grants[c][i] \in Nat
    BY <1>2
  <2>2. now - grants[c][i] \in Int /\ n - i + 1 \in Int /\ Rate \in Int /\ Cost \in Int
    BY <1>0, <1>2, <2>1
  <2> QED BY <1>n, <2>2, OneMore DEF UsedSince
<1> HIDE DEF Since
<1>5. CASE Had(c) >= Cost
  <2>1. /\ tokens'[c] = Had(c) - Cost
        /\ grants'[c] = Append(grants[c], now)
        /\ answer'[c] = "allowed"
    BY <1>5 DEF Allow, Had, Answer, TypeOK
  <2>2. /\ Len(grants'[c]) = n + 1 /\ DOMAIN grants'[c] = 1 .. n + 1
        /\ grants'[c][n + 1] = now
        /\ \A i \in 1 .. n : grants'[c][i] = grants[c][i]
    BY <1>n, <1>2, <2>1
  <2>3. \A i \in 1 .. n : UsedSince(c, i)' = UsedSince(c, i) + Cost
    <3> SUFFICES ASSUME NEW i \in 1 .. n PROVE UsedSince(c, i)' = UsedSince(c, i) + Cost
      OBVIOUS
    <3>1. n - i + 1 \in Int /\ Cost \in Int /\ (n + 1) - i + 1 = (n - i + 1) + 1
      BY <1>2
    <3>2. ((n - i + 1) + 1) * Cost = (n - i + 1) * Cost + Cost
      BY <3>1, OneMore
    <3> QED BY <1>n, <2>2, <3>1, <3>2 DEF UsedSince
  <2>4. UsedSince(c, n + 1)' = Cost /\ Rate * (seen'[c] - grants'[c][n + 1]) = 0
    <3>1. Len(grants'[c]) - (n + 1) + 1 = 1 /\ seen'[c] - grants'[c][n + 1] = 0
      BY <1>2, <2>2
    <3>2. 1 * Cost = Cost /\ Rate * 0 = 0
      BY <1>0
    <3> QED BY <3>1, <3>2 DEF UsedSince
  <2>5. \A i \in 1 .. n : tokens'[c] + UsedSince(c, i)' <= Capacity + Since(i)
    <3> SUFFICES ASSUME NEW i \in 1 .. n
                 PROVE  tokens'[c] + UsedSince(c, i)' <= Capacity + Since(i)
      OBVIOUS
    <3>1. Had(c) + UsedSince(c, i) <= Capacity + Since(i)
      BY <1>1, <1>2
    <3>2. tokens'[c] + UsedSince(c, i)' = Had(c) + UsedSince(c, i)
      BY <1>0, <1>1, <1>4, <2>1, <2>3
    <3> QED BY <3>1, <3>2
  <2>6. tokens'[c] + UsedSince(c, n + 1)' = Had(c)
    BY <1>1, <2>1, <2>4
  <2>s. \A i \in 1 .. n + 1 : i \in 1 .. n \/ i = n + 1
    BY <1>2
  <2>7. CreditInv'
    <3> SUFFICES ASSUME NEW d \in Clients, NEW i \in DOMAIN grants'[d]
                 PROVE  tokens'[d] + UsedSince(d, i)'
                          <= Capacity + Rate * (seen'[d] - grants'[d][i])
      BY DEF CreditInv
    <3>1. CASE d # c
      BY <1>3, <3>1 DEF CreditInv
    <3>2. CASE d = c /\ i \in 1 .. n
      BY <1>2, <2>2, <2>5, <3>2 DEF Since
    <3>3. CASE d = c /\ i = n + 1
      BY <1>1, <2>2, <2>4, <2>6, <3>3
    <3> QED BY <2>2, <2>s, <3>1, <3>2, <3>3
  <2>8. ExactInv'
    <3> SUFFICES ASSUME NEW d \in Clients, tokens'[d] # Capacity
                 PROVE  \E i \in DOMAIN grants'[d] :
                          tokens'[d] + UsedSince(d, i)'
                            >= Capacity + Rate * (seen'[d] - grants'[d][i])
      BY DEF ExactInv
    <3>1. CASE d # c
      BY <1>3, <3>1 DEF ExactInv
    <3>2. CASE d = c /\ Had(c) = Capacity
      <4>1. n + 1 \in DOMAIN grants'[c]
        BY <1>2, <2>2
      <4> QED BY <2>4, <2>6, <3>2, <4>1
    <3>3. CASE d = c /\ Had(c) # Capacity
      <4>1. PICK i \in 1 .. n : Had(c) + UsedSince(c, i) >= Capacity + Since(i)
        BY <1>1, <1>2, <3>3
      <4>2. tokens'[c] + UsedSince(c, i)' >= Capacity + Since(i)
        BY <1>1, <1>4, <2>1, <2>3, <4>1
      <4>3. i \in DOMAIN grants'[c] /\ Since(i) = Rate * (seen'[c] - grants'[c][i])
        BY <1>2, <2>2 DEF Since
      <4> QED BY <3>3, <4>2, <4>3
    <3> QED BY <3>1, <3>2, <3>3
  <2>9. RateBound'
    <3> SUFFICES ASSUME NEW d \in Clients, NEW i \in DOMAIN grants'[d],
                        NEW j \in DOMAIN grants'[d], i <= j
                 PROVE  (j - i + 1) * Cost <= Capacity + Rate * (grants'[d][j] - grants'[d][i])
      BY DEF RateBound
    <3>1. CASE d # c
      BY <1>3, <3>1 DEF RateBound
    <3>2. CASE d = c /\ j \in 1 .. n
      <4>1. i \in 1 .. n
        BY <1>2, <2>2, <3>2
      <4> QED BY <1>2, <2>2, <3>2, <4>1 DEF RateBound
    <3>3. CASE d = c /\ j = n + 1
      <4>1. (j - i + 1) * Cost = UsedSince(c, i)'
        BY <2>2, <3>3 DEF UsedSince
      <4>2. tokens'[c] + UsedSince(c, i)' <= Capacity + Rate * (now - grants'[c][i])
        BY <1>2, <2>7, <3>3 DEF CreditInv
      <4>3. tokens'[c] \in Nat
        BY <1>1, <1>5, <2>1
      <4>4. UsedSince(c, i)' \in Int /\ Rate * (now - grants'[c][i]) \in Int
        <5>1. CASE i \in 1 .. n
          <6>1. Since(i) \in Int /\ UsedSince(c, i)' \in Int
            BY <1>0, <1>4, <2>3, <5>1
          <6>2. grants'[c][i] = grants[c][i]
            BY <2>2, <5>1
          <6> QED BY <6>1, <6>2 DEF Since
        <5>2. CASE i = n + 1
          BY <1>0, <1>2, <2>4, <5>2
        <5> QED BY <2>2, <2>s, <3>3, <5>1, <5>2
      <4> DEFINE used == UsedSince(c, i)'
                 due  == Rate * (now - grants'[c][i])
      <4> HIDE DEF used, due
      <4>5. used <= Capacity + due
        <5>1. used \in Int /\ due \in Int /\ tokens'[c] + used <= Capacity + due
          BY <4>2, <4>4 DEF used, due
        <5> QED BY <4>3, <5>1
      <4> QED BY <2>2, <3>3, <4>1, <4>5 DEF used, due
    <3> QED BY <2>2, <2>s, <3>1, <3>2, <3>3
  <2>10. RefusedOnlyOverRate'
    BY <1>2, <1>3, <2>1 DEF RefusedOnlyOverRate
  <2> QED BY <2>7, <2>8, <2>9, <2>10
<1>6. CASE ~(Had(c) >= Cost)
  <2>1. tokens'[c] = Had(c) /\ grants' = grants
    BY <1>6 DEF Allow, Had, TypeOK
  <2>2. \A i : UsedSince(c, i)' = UsedSince(c, i)
    BY <2>1 DEF UsedSince
  <2>3. \A i \in 1 .. n : Since(i) = Rate * (seen'[c] - grants'[c][i])
    BY <1>2, <2>1 DEF Since
  <2>4. CreditInv'
    <3> SUFFICES ASSUME NEW d \in Clients, NEW i \in DOMAIN grants'[d]
                 PROVE  tokens'[d] + UsedSince(d, i)'
                          <= Capacity + Rate * (seen'[d] - grants'[d][i])
      BY DEF CreditInv
    <3>1. CASE d # c
      BY <1>3, <3>1 DEF CreditInv
    <3>2. CASE d = c
      <4>1. i \in 1 .. n /\ i \in DOMAIN grants[c]
        BY <1>2, <2>1, <3>2
      <4>2. Had(c) + UsedSince(c, i) <= Capacity + Since(i)
        BY <1>1, <4>1
      <4> QED BY <2>1, <2>2, <2>3, <3>2, <4>1, <4>2
    <3> QED BY <3>1, <3>2
  <2>5. PICK i \in 1 .. n : Had(c) + UsedSince(c, i) >= Capacity + Since(i)
    BY <1>1, <1>2, <1>6
  <2>6. ExactInv'
    BY <1>2, <1>3, <2>1, <2>2, <2>3, <2>5 DEF ExactInv
  <2>7. RateBound'
    BY <2>1 DEF RateBound
  <2>8. RefusedOnlyOverRate'
    <3>1. UsedSince(c, i) + Cost > Capacity + Since(i)
      BY <1>1, <1>4, <1>6, <2>5
    <3>2. i \in DOMAIN grants'[c] /\ UsedSince(c, i)' + Cost
            > Capacity + Rate * (now' - grants'[c][i])
      BY <1>2, <2>1, <2>2, <2>3, <3>1
    <3> QED BY <1>2, <1>3, <2>1, <3>2 DEF RefusedOnlyOverRate
  <2> QED BY <2>4, <2>6, <2>7, <2>8
<1> QED BY <1>1, <1>5, <1>6

-----------------------------------------------------------------------------
LEMMA StutterStep == IInv /\ UNCHANGED vars => IInv'
BY DEF IInv, vars, TypeOK, CreditInv, ExactInv, AbsentInv, YoungInv, RateBound,
       RefusedOnlyOverRate, UsedSince

\* The inductive invariant: a bucket accounts for every grant of its client,
\* those made from a bucket that ipLimiter.allow has evicted since included.
THEOREM Invariance == Spec => []IInv
<1>1. IInv /\ [Next]_vars => IInv'
  <2> SUFFICES ASSUME IInv, [Next]_vars PROVE IInv'
    OBVIOUS
  <2>1. ASSUME NEW c \in Clients, Allow(c) PROVE IInv'
    BY <2>1, AllowBuckets, AllowCredit DEF IInv
  <2> QED BY <2>1, TickStep, StutterStep DEF Next
<1> QED BY InitInv, <1>1, PTL DEF Spec

\* The variables of ipLimiter keep their types, and no bucket exceeds a burst.
THEOREM TypeCorrect == Spec => []TypeOK
<1>1. IInv => TypeOK
  BY DEF IInv
<1> QED BY Invariance, <1>1, PTL

\* Eviction in ipLimiter.allow never lets a client exceed its rate.
THEOREM NeverAboveRate == Spec => []RateBound
<1>1. IInv => RateBound
  BY DEF IInv
<1> QED BY Invariance, <1>1, PTL

\* ipLimiter.allow refuses nobody who is within the rate.
THEOREM NeverRefusedBelowRate == Spec => []RefusedOnlyOverRate
<1>1. IInv => RefusedOnlyOverRate
  BY DEF IInv
<1> QED BY Invariance, <1>1, PTL

\* No bucket outlives two lifetimes by more than the next call of allow.
THEOREM BucketsAreCollected == Spec => OldBucketsGo
<1>1. IInv /\ [Next]_vars => [CollectStep]_vars
  <2> SUFFICES ASSUME IInv, Next, now' = now, NEW d \in present'
               PROVE  now - seen'[d] <= 2 * BucketTTL
    BY DEF vars, CollectStep
  <2>1. PICK c \in Clients : Allow(c)
    BY DEF Next, Tick, IInv, TypeOK
  <2>2. YoungInv' /\ TypeOK'
    BY <2>1, AllowBuckets
  <2>3. lastGC' - seen'[d] <= BucketTTL /\ now - lastGC' <= BucketTTL
    BY <2>1, <2>2, RefillAssumption DEF YoungInv, Allow, IInv, TypeOK
  <2>4. now \in Int /\ lastGC' \in Int /\ seen'[d] \in Int /\ BucketTTL \in Int
    BY <2>2, RefillAssumption DEF IInv, TypeOK
  <2>5. \A x, y, z, t \in Int : x - y <= t /\ y - z <= t => x - z <= 2 * t
    OBVIOUS
  <2> QED BY <2>3, <2>4, <2>5, Zenon
<1> QED BY Invariance, <1>1, PTL DEF Spec, OldBucketsGo
=============================================================================
