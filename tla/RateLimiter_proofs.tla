------------------------- MODULE RateLimiter_proofs -------------------------
(***************************************************************************)
(* The token bucket, for all rates, bursts, clock readings and sequences   *)
(* of calls.  One invariant, Credit, carries all three results: it says    *)
(* what the tokens in the bucket are worth, from above (they, the time     *)
(* still to be credited and the events let through are covered by the      *)
(* burst and what the time since the mark yields) and from below (they are what the time since the last grant has   *)
(* earned, or at least one token).                                         *)
(***************************************************************************)
EXTENDS RateLimiter, TLAPS

\* The order of products, for the nonlinear steps.
LEMMA ProductOrder ==
    ASSUME NEW a \in Int, NEW b \in Int, NEW c \in Nat, a <= b
    PROVE  a * c <= b * c
  BY SMT

\* A product with one factor below zero.
LEMMA ProductNegative ==
    ASSUME NEW a \in Int, NEW c \in Nat, a < 0
    PROVE  a * c <= 0
  BY SMT

\* Products of naturals are naturals.
LEMMA ProductNat ==
    ASSUME NEW a \in Nat, NEW b \in Nat
    PROVE  a * b \in Nat
  BY SMT

\* Products distribute over sums.
LEMMA ProductSum ==
    ASSUME NEW a \in Int, NEW b \in Int, NEW c \in Int
    PROVE  (a + b) * c = a * c + b * c /\ c * (a + b) = c * a + c * b
  BY SMT

\* Time that passes adds what it yields, and no more, to what is owed.
LEMMA OwedYield ==
    ASSUME NEW a \in Nat, NEW b \in Nat, NEW c \in Nat, NEW y \in Nat, NEW z \in Nat,
           (b <= a /\ z = y) \/ (b <= a + 1 /\ z = y + c)
    PROVE  a * c \in Nat /\ b * c \in Nat /\ b * c - a * c <= z - y
  <1>1. a * c \in Nat /\ b * c \in Nat
    BY ProductNat
  <1>2. CASE b <= a /\ z = y
    <2>1. b * c <= a * c
      BY <1>2, ProductOrder
    <2> QED
      BY <1>1, <1>2, <2>1
  <1>3. CASE b <= a + 1 /\ z = y + c
    <2>1. b * c <= (a + 1) * c
      BY <1>3, ProductOrder
    <2>2. (a + 1) * c = a * c + c
      BY SMT
    <2> QED
      BY <1>1, <1>3, <2>1, <2>2
  <1> QED
    BY <1>2, <1>3

\* The time from u to n that is owed, and what an earlier n does to it.
LEMMA OwedShrinks ==
    ASSUME NEW n \in Nat, NEW m \in Nat, NEW u \in Nat, m <= n
    PROVE  /\ (IF n > u THEN n - u ELSE 0) \in Nat
           /\ (IF m > u THEN m - u ELSE 0) \in Nat
           /\ (IF m > u THEN m - u ELSE 0) <= (IF n > u THEN n - u ELSE 0)
  BY SMT

\* A sum stays within a bound that grows with it.
LEMMA SumBound ==
    ASSUME NEW t \in Int, NEW u \in Int, NEW e \in Int, NEW f \in Int, NEW p \in Int,
           NEW b \in Int, NEW y \in Int, NEW z \in Int,
           t + e + p <= b + y, (u + f) - (t + e) <= z - y
    PROVE  u + f + p <= b + z
  BY SMT

\* A common summand does not matter to a difference.
LEMMA SumDifference ==
    ASSUME NEW t \in Int, NEW e \in Int, NEW f \in Int, NEW d \in Int, f - e <= d
    PROVE  (t + f) - (t + e) <= d
  BY SMT

\* Products commute.
LEMMA ProductComm ==
    ASSUME NEW a \in Int, NEW b \in Int
    PROVE  a * b = b * a /\ a * b \in Int
  BY SMT

-----------------------------------------------------------------------------
\* The limits in force are within those recorded since the mark and the grant.
LimitsOrdered == burst <= mark_peak_burst /\ grant_slow_rate <= rate

\* The time the next refill credits.
Owed == IF now > last_update THEN now - last_update ELSE 0

\* What was let through since the mark, t tokens in the bucket and what e ticks
\* still to be credited yield came from the burst and the time since the mark.
SpentAndLeft(t, e) ==
    t + e * rate + (allowed_count - mark_allowed) * One
        <= mark_peak_burst * One + mark_yield

\* With t tokens at time u, the time since the last grant is not lost.
Earned(t, u) == t >= One \/ t >= (u - grant_time) * grant_slow_rate

Credit ==
    /\ TypeOK
    /\ LimitsOrdered
    /\ SpentAndLeft(tokens, Owed)
    /\ Earned(tokens, last_update)

\* The constants' assumptions, and what they say of the current limits.
LEMMA Positive ==
    ASSUME TypeOK
    PROVE  /\ One \in Nat /\ One > 0
           /\ rate \in Nat /\ rate > 0 /\ burst \in Nat /\ burst > 0
           /\ mark_peak_burst \in Nat /\ mark_yield \in Nat
           /\ grant_slow_rate \in Nat /\ grant_slow_rate > 0
           /\ burst * One \in Nat /\ mark_peak_burst * One \in Nat
           /\ burst * One >= One
  <1>1. /\ One \in Nat /\ One > 0
        /\ rate \in Nat /\ rate > 0 /\ burst \in Nat /\ burst > 0
        /\ mark_peak_burst \in Nat /\ mark_yield \in Nat
        /\ grant_slow_rate \in Nat /\ grant_slow_rate > 0
    BY LimiterAssumption DEF TypeOK
  <1>2. burst * One \in Nat /\ mark_peak_burst * One \in Nat
    BY <1>1, ProductNat
  <1>3. 1 * One <= burst * One
    BY <1>1, ProductOrder
  <1> QED
    BY <1>1, <1>2, <1>3

\* refill_tokens keeps the credit: what it adds is what the rate in force
\* yields in the time it advances last_update by, up to the burst.
LEMMA RefillKeepsCredit ==
    ASSUME Credit
    PROVE  /\ Refilled \in Nat /\ Refilled <= burst * One
           /\ RefillTime \in Nat
           /\ now <= RefillTime /\ last_update <= RefillTime
           /\ SpentAndLeft(Refilled, 0)
           /\ Earned(Refilled, RefillTime)
  <1> USE DEF Credit
  <1>1. /\ now \in Nat /\ last_update \in Nat /\ tokens \in Nat /\ tokens <= burst * One
        /\ grant_time \in Nat
        /\ allowed_count \in Nat /\ mark_allowed \in Nat
    BY DEF TypeOK, LimitsOrdered
  <1>2. CASE now <= last_update
    <2>1. Refilled = tokens /\ RefillTime = last_update /\ Owed = 0
      BY <1>1, <1>2 DEF Refilled, RefillTime, Greatest, Owed
    <2> QED
      BY <1>1, <1>2, <2>1
  <1>3. CASE now > last_update
    <2> DEFINE d == now - last_update
    <2>1. d \in Nat /\ now = last_update + d /\ RefillTime = now /\ Owed = d
      BY <1>1, <1>3 DEF RefillTime, Greatest, Owed
    <2>2. Refilled = Least(tokens + d * rate, burst * One)
      BY <1>3 DEF Refilled
    <2>3. d * rate \in Nat
      BY <2>1, Positive, ProductNat
    <2> HIDE DEF d
    <2>4. /\ Refilled \in Nat /\ Refilled <= burst * One
          /\ Refilled <= tokens + d * rate
          /\ Refilled = burst * One \/ Refilled = tokens + d * rate
      BY <1>1, <2>2, <2>3, Positive DEF Least
    <2>5. SpentAndLeft(Refilled, 0)
      <3>1. 0 * rate = 0 /\ (allowed_count - mark_allowed) * One \in Int
        BY <1>1, Positive, ProductComm
      <3>2. tokens + d * rate + (allowed_count - mark_allowed) * One
              <= mark_peak_burst * One + mark_yield
        BY <2>1 DEF SpentAndLeft
      <3>3. mark_peak_burst * One \in Int /\ mark_yield \in Int
        BY Positive
      <3> HIDE DEF Credit
      <3>4. (Refilled + 0) - (tokens + d * rate) <= mark_yield - mark_yield
        BY <1>1, <2>3, <2>4, <3>3
      <3>5. Refilled + 0 + (allowed_count - mark_allowed) * One
              <= mark_peak_burst * One + mark_yield
        BY <1>1, <2>3, <2>4, <3>1, <3>2, <3>3, <3>4, SumBound
      <3> QED
        BY <3>1, <3>5 DEF SpentAndLeft
    <2>6. Earned(Refilled, RefillTime)
      <3>1. CASE Refilled = burst * One \/ tokens >= One
        BY <3>1, <2>3, <2>4, <1>1, Positive DEF Earned
      <3>2. CASE Refilled = tokens + d * rate /\ tokens >= (last_update - grant_time) * grant_slow_rate
        <4>1. d * grant_slow_rate <= d * rate
          BY <2>1, Positive, ProductOrder, ProductComm DEF LimitsOrdered
        <4>2. now - grant_time = (last_update - grant_time) + d
          BY <1>1, <2>1
        <4>3. (now - grant_time) * grant_slow_rate
                = (last_update - grant_time) * grant_slow_rate + d * grant_slow_rate
          BY <1>1, <2>1, <4>2, Positive, ProductSum
        <4>4. /\ (last_update - grant_time) * grant_slow_rate \in Int
              /\ d * grant_slow_rate \in Int
          BY <1>1, <2>1, Positive, ProductComm
        <4> HIDE DEF Credit
        <4>5. Refilled >= (now - grant_time) * grant_slow_rate
          BY <3>2, <4>1, <4>3, <4>4, <2>3, <1>1
        <4> QED
          BY <4>5, <2>1 DEF Earned
      <3> QED
        BY <3>1, <3>2, <2>4 DEF Earned
    <2> QED
      BY <1>1, <1>3, <2>1, <2>4, <2>5, <2>6
  <1> QED
    BY <1>1, <1>2, <1>3

-----------------------------------------------------------------------------
\* A new limiter has a full bucket and nothing spent.
LEMMA InitCredit == Init => Credit
  <1> SUFFICES ASSUME Init PROVE Credit
    OBVIOUS
  <1>1. TypeOK
    <2>1. burst * One \in Nat
      BY LimiterAssumption, ProductNat DEF Init
    <2>2. now \in Nat
      BY LimiterAssumption DEF Init
    <2> QED
      BY <2>1, <2>2 DEF Init, TypeOK
  <1>2. LimitsOrdered
    BY <1>1, Positive DEF Init, LimitsOrdered, TypeOK
  <1>3. SpentAndLeft(tokens, Owed)
    <2>1. Owed = 0 /\ 0 * rate = 0
      BY <1>1, Positive DEF Init, Owed, TypeOK
    <2> QED
      BY <1>1, <2>1, Positive DEF Init, SpentAndLeft, TypeOK
  <1>4. Earned(tokens, last_update)
    BY <1>1, Positive DEF Init, Earned, TypeOK
  <1> QED
    BY <1>1, <1>2, <1>3, <1>4 DEF Credit

\* Every call keeps the credit, and so do the clock and the mark.
LEMMA NextCredit == Credit /\ [Next]_vars => Credit'
  <1> SUFFICES ASSUME Credit, [Next]_vars PROVE Credit'
    OBVIOUS
  <1> USE LimiterAssumption
  <1>1. TypeOK /\ LimitsOrdered
    BY DEF Credit
  <1>2. /\ Refilled \in Nat /\ Refilled <= burst * One
        /\ RefillTime \in Nat
        /\ now <= RefillTime /\ last_update <= RefillTime
        /\ SpentAndLeft(Refilled, 0)
        /\ Earned(Refilled, RefillTime)
    BY RefillKeepsCredit
  \* After a refill no time is owed.
  <1>0. ASSUME last_update' = RefillTime, now' = now PROVE Owed' = 0
    BY <1>0, <1>1, <1>2 DEF Owed, TypeOK
  <1>3. ASSUME NEW n \in 1 .. MaxN, Grant(n) PROVE Credit'
    <2>1. n * One \in Nat
      BY ProductNat, Positive, <1>1
    <2>2. TypeOK'
      BY <1>1, <1>2, <1>3, <2>1, Positive DEF Grant, TypeOK, mark, limits
    <2>3. LimitsOrdered'
      BY <1>1, <1>2, <1>3, Positive DEF Grant, TypeOK, LimitsOrdered, mark, limits
    <2>4. SpentAndLeft(tokens, Owed)'
      <3>1. allowed_count' - mark_allowed' = (allowed_count - mark_allowed) + n
        BY <1>1, <1>3 DEF Grant, TypeOK, mark
      <3>2. (allowed_count' - mark_allowed') * One = (allowed_count - mark_allowed) * One + n * One
        BY <1>1, <3>1, ProductSum, Positive DEF TypeOK
      <3>3. (allowed_count - mark_allowed) * One \in Int
        BY <1>1, Positive, ProductComm DEF TypeOK
      <3>4. 0 * rate = 0 /\ Owed' = 0
        BY <1>0, <1>1, <1>3, Positive DEF Grant
      <3>5. tokens' + 0 + (allowed_count' - mark_allowed') * One
              = Refilled + 0 + (allowed_count - mark_allowed) * One
        BY <1>2, <1>3, <2>1, <3>2, <3>3 DEF Grant
      <3> QED
        BY <1>2, <1>3, <3>4, <3>5 DEF Grant, SpentAndLeft, mark, limits
    <2>5. Earned(tokens, last_update)'
      BY <1>1, <1>2, <1>3, <2>2 DEF Grant, Earned, TypeOK, limits
    <2> QED
      BY <2>2, <2>3, <2>4, <2>5 DEF Credit
  <1>4. ASSUME NEW n \in 1 .. MaxN, Refuse(n) PROVE Credit'
    BY <1>0, <1>1, <1>2, <1>4, Positive
       DEF Credit, Refuse, TypeOK, LimitsOrdered, SpentAndLeft, Earned,
           mark, limits, window, grant
  <1>5. CASE Reset
    <2>1. TypeOK' /\ LimitsOrdered'
      BY <1>1, <1>5, Positive DEF Reset, TypeOK, LimitsOrdered, limits, counts, grant
    <2>2. Owed' = 0
      BY <1>1, <1>5 DEF Reset, Owed, TypeOK
    <2>3. SpentAndLeft(tokens, Owed)' /\ Earned(tokens, last_update)'
      BY <1>1, <1>5, <2>2, Positive
         DEF Reset, TypeOK, SpentAndLeft, Earned, limits, counts, grant
    <2> QED
      BY <2>1, <2>3 DEF Credit
  <1>6. CASE GetTokens
    BY <1>0, <1>1, <1>2, <1>6, Positive
       DEF Credit, GetTokens, TypeOK, LimitsOrdered, SpentAndLeft, Earned,
           mark, limits, counts, window, grant
  <1>7. CASE Stats
    BY <1>7 DEF Credit, Owed, Stats, TypeOK, LimitsOrdered, SpentAndLeft, Earned,
           mark, limits, counts, grant
  <1>8. ASSUME NEW r \in Rates, SetRate(r) PROVE Credit'
    <2>1. r \in Nat /\ r > 0
      OBVIOUS
    <2>2. TypeOK' /\ LimitsOrdered'
      BY <1>1, <1>2, <1>8, <2>1, Positive
         DEF SetRate, TypeOK, LimitsOrdered, Least, counts, window, mark
    <2>3. SpentAndLeft(tokens, Owed)'
      <3>1. Owed' = 0 /\ 0 * rate = 0 /\ 0 * r = 0
        BY <1>0, <1>1, <1>8, <2>1, Positive DEF SetRate
      <3> QED
        BY <1>2, <1>8, <3>1 DEF SpentAndLeft, SetRate, counts, mark
    <2>4. Earned(tokens, last_update)'
      <3> DEFINE y == RefillTime - grant_time
      <3>1. y \in Int
        BY <1>1, <1>2 DEF TypeOK
      <3> HIDE DEF y
      <3>2. /\ grant_slow_rate' \in Nat /\ grant_slow_rate' <= grant_slow_rate
            /\ tokens' = Refilled
        BY <1>1, <1>8, <2>1, Positive DEF SetRate, Least
      <3>3. Refilled >= One \/ Refilled >= y * grant_slow_rate
        BY <1>2 DEF Earned, y
      <3>4. CASE y >= 0
        <4>1. y * grant_slow_rate' <= y * grant_slow_rate
          BY <3>1, <3>2, <3>4, <1>1, Positive, ProductOrder, ProductComm
        <4>2. y * grant_slow_rate' \in Int /\ y * grant_slow_rate \in Int
          BY <3>1, <3>2, <1>1, Positive, ProductComm
        <4>3. Refilled >= One \/ Refilled >= y * grant_slow_rate'
          BY <4>1, <4>2, <3>3, <1>2
        <4> QED
          BY <4>3, <3>2, <1>8 DEF Earned, SetRate, y
      <3>5. CASE y < 0
        <4>1. y * grant_slow_rate' <= 0
          BY <3>1, <3>2, <3>5, ProductNegative
        <4>2. y * grant_slow_rate' \in Int
          BY <3>1, <3>2, ProductComm
        <4>3. Refilled >= y * grant_slow_rate'
          BY <4>1, <4>2, <3>2, <1>2
        <4> QED
          BY <4>3, <3>2, <1>8 DEF Earned, SetRate, y
      <3> QED
        BY <3>1, <3>4, <3>5
    <2> QED
      BY <2>2, <2>3, <2>4 DEF Credit
  <1>9. ASSUME NEW b \in Bursts, SetBurst(b) PROVE Credit'
    <2>1. b \in Nat /\ b > 0 /\ b * One \in Nat /\ b * One >= One
      <3>1. b \in Nat /\ b > 0 /\ One \in Nat
        OBVIOUS
      <3>2. 1 * One <= b * One
        BY <3>1, ProductOrder
      <3> QED
        BY <3>1, <3>2, ProductNat
    <2>2. tokens' \in Nat /\ tokens' <= tokens /\ tokens' <= b * One
          /\ (tokens' = tokens \/ tokens' >= One)
      BY <1>1, <1>9, <2>1 DEF SetBurst, Least, TypeOK
    <2>3. TypeOK' /\ LimitsOrdered'
      BY <1>1, <1>9, <2>1, <2>2, Positive
         DEF SetBurst, TypeOK, LimitsOrdered, Greatest, counts, window, grant
    <2>4. SpentAndLeft(tokens, Owed)'
      <3>1. mark_peak_burst * One <= mark_peak_burst' * One
        <4>1. /\ mark_peak_burst' \in Int /\ mark_peak_burst \in Int
              /\ mark_peak_burst <= mark_peak_burst' /\ One \in Nat
          BY <1>1, <1>9, <2>1, Positive DEF SetBurst, Greatest
        <4> QED
          BY <4>1, ProductOrder
      <3>2. /\ mark_peak_burst * One \in Int /\ mark_peak_burst' * One \in Int
            /\ Owed * rate \in Int /\ mark_yield \in Int
            /\ (allowed_count - mark_allowed) * One \in Int
        BY <1>1, <1>9, <2>1, Positive, ProductComm DEF TypeOK, SetBurst, Greatest, Owed
      <3>3. tokens + Owed * rate + (allowed_count - mark_allowed) * One
              <= mark_peak_burst * One + mark_yield
        BY DEF Credit, SpentAndLeft
      <3>4. tokens' + Owed * rate + (allowed_count - mark_allowed) * One
              <= mark_peak_burst' * One + mark_yield
        BY <1>1, <2>2, <3>1, <3>2, <3>3 DEF TypeOK
      <3> QED
        BY <1>9, <3>4 DEF SpentAndLeft, SetBurst, Owed, counts
    <2>5. Earned(tokens, last_update)'
      BY <1>9, <2>1, <2>2 DEF Credit, Earned, SetBurst, grant
    <2> QED
      BY <2>3, <2>4, <2>5 DEF Credit
  <1>10. CASE Tick \/ ClockSetBack
    <2>1. TypeOK' /\ LimitsOrdered' /\ Earned(tokens, last_update)'
      BY <1>1, <1>10, Positive
         DEF Credit, Tick, ClockSetBack, TypeOK, LimitsOrdered, Earned,
             mark, limits, counts, window, grant
    <2>2. /\ Owed \in Nat /\ Owed' \in Nat
          /\ mark_yield \in Nat /\ mark_yield' \in Nat /\ rate \in Nat
          /\ \/ Owed' <= Owed /\ mark_yield' = mark_yield
             \/ Owed' <= Owed + 1 /\ mark_yield' = mark_yield + rate
      <3>1. now \in Nat /\ now' \in Nat /\ last_update \in Nat /\ rate \in Nat
            /\ mark_yield \in Nat /\ mark_yield' \in Nat
        BY <1>1, <2>1, Positive DEF TypeOK
      <3>2. CASE Tick
        BY <3>1, <3>2 DEF Tick, Owed
      <3>3. CASE ClockSetBack
        <4>1. last_update' = last_update /\ mark_yield' = mark_yield
          BY <3>3 DEF ClockSetBack, mark
        <4>2. now' <= now
          BY <3>1, <3>3 DEF ClockSetBack
        <4>3. /\ (IF now > last_update THEN now - last_update ELSE 0) \in Nat
              /\ (IF now' > last_update THEN now' - last_update ELSE 0) \in Nat
              /\ (IF now' > last_update THEN now' - last_update ELSE 0)
                    <= (IF now > last_update THEN now - last_update ELSE 0)
          BY <3>1, <4>2, OwedShrinks
        <4>4. Owed \in Nat /\ Owed' \in Nat /\ Owed' <= Owed
          BY <4>1, <4>3 DEF Owed
        <4> QED
          BY <3>1, <4>1, <4>4
      <3> QED
        BY <1>10, <3>2, <3>3
    <2>3. /\ tokens' = tokens /\ rate' = rate /\ mark_peak_burst' = mark_peak_burst
          /\ allowed_count' = allowed_count /\ mark_allowed' = mark_allowed
      BY <1>10 DEF Tick, ClockSetBack, limits, counts, mark
    <2>4. tokens \in Int /\ (allowed_count - mark_allowed) * One \in Int
          /\ mark_peak_burst * One \in Int
      BY <1>1, Positive, ProductComm DEF TypeOK
    <2>5. /\ Owed * rate \in Nat /\ Owed' * rate \in Nat
          /\ Owed' * rate - Owed * rate <= mark_yield' - mark_yield
      BY <2>2, OwedYield
    <2>6. tokens + Owed * rate + (allowed_count - mark_allowed) * One
            <= mark_peak_burst * One + mark_yield
      BY DEF Credit, SpentAndLeft
    <2>7. (tokens + Owed' * rate) - (tokens + Owed * rate) <= mark_yield' - mark_yield
      <3>1. mark_yield' - mark_yield \in Int /\ Owed * rate \in Int /\ Owed' * rate \in Int
        BY <2>2, <2>5
      <3> QED
        BY <2>4, <2>5, <3>1, SumDifference
    <2>8. tokens + Owed' * rate + (allowed_count - mark_allowed) * One
            <= mark_peak_burst * One + mark_yield'
      BY <2>2, <2>4, <2>5, <2>6, <2>7, SumBound
    <2> QED
      BY <2>1, <2>3, <2>8 DEF Credit, SpentAndLeft
  <1>11. CASE Mark
    <2>1. TypeOK' /\ LimitsOrdered' /\ Earned(tokens, last_update)'
      BY <1>1, <1>11, Positive DEF Credit, Mark, TypeOK, LimitsOrdered, Earned,
           limits, counts, window, grant
    <2>2. Owed' = 0
      BY <1>1, <1>11 DEF Mark, TypeOK, Owed
    <2>3. tokens <= mark_peak_burst' * One
      BY <1>1, <1>11 DEF Mark, TypeOK
    <2>4. SpentAndLeft(tokens, Owed)'
      BY <1>1, <1>11, <2>2, <2>3, Positive DEF Mark, TypeOK, SpentAndLeft, limits, counts
    <2> QED
      BY <2>1, <2>4 DEF Credit
  <1>12. CASE UNCHANGED vars
    BY <1>12 DEF Credit, TypeOK, LimitsOrdered, SpentAndLeft, Owed, Earned, vars,
           mark, limits, counts, window, grant
  <1> QED
    BY <1>3, <1>4, <1>5, <1>6, <1>7, <1>8, <1>9, <1>10, <1>11, <1>12 DEF Next

-----------------------------------------------------------------------------
\* The inductive invariant: after every call of rate_limiter.c, what was spent
\* and what is left in the bucket is covered by the burst and the time that was
\* paid, and the time since the last grant is paid into the bucket.
THEOREM CreditInvariant == Spec => []Credit
  BY InitCredit, NextCredit, PTL DEF Spec

\* The bucket of rate_limiter.c never holds more than the burst, and every
\* field keeps its type.
THEOREM TypeCorrect == Spec => []TypeOK
  <1>1. Credit => TypeOK
    BY DEF Credit
  <1> QED
    BY <1>1, CreditInvariant, PTL

\* rate_limiter_allow and rate_limiter_allow_n let through no more than the
\* burst and the rate permit, over every window without a reset.
THEOREM AdmissionBounded == Spec => []AdmissionBound
  <1>1. Credit => AdmissionBound
    <2> SUFFICES ASSUME Credit PROVE AdmissionBound
      OBVIOUS
    <2>1. /\ (allowed_count - mark_allowed) * One \in Int
          /\ mark_peak_burst * One \in Int
          /\ tokens \in Nat /\ mark_yield \in Nat /\ Owed * rate \in Nat
      <3>1. TypeOK /\ Owed \in Nat
        BY DEF Credit, TypeOK, Owed
      <3> QED
        BY <3>1, Positive, ProductComm, ProductNat DEF TypeOK
    <2> QED
      BY <2>1 DEF Credit, SpentAndLeft, AdmissionBound
  <1> QED
    BY <1>1, CreditInvariant, PTL

\* rate_limiter_allow refuses an event only while the time since the last
\* grant has not earned a token.
THEOREM EarnedTokensGranted == Spec => EarnedTokenIsGranted
  <1>1. Credit /\ [Next]_vars
          => [Refuse(1) =>
                (Greatest(now, last_update) - grant_time) * grant_slow_rate < One]_vars
    <2> SUFFICES ASSUME Credit, Refuse(1)
                 PROVE  (Greatest(now, last_update) - grant_time) * grant_slow_rate < One
      OBVIOUS
    <2>1. Refilled < One /\ Refilled \in Nat /\ One \in Nat
      BY RefillKeepsCredit, LimiterAssumption DEF Refuse
    <2>2. Refilled >= (RefillTime - grant_time) * grant_slow_rate
      BY <2>1, RefillKeepsCredit DEF Earned
    <2>3. (RefillTime - grant_time) * grant_slow_rate \in Int
      BY RefillKeepsCredit, Positive, ProductComm DEF Credit, TypeOK
    <2>4. (RefillTime - grant_time) * grant_slow_rate < One
      BY <2>1, <2>2, <2>3
    <2> QED
      BY <2>4 DEF RefillTime
  <1> QED
    BY <1>1, CreditInvariant, PTL DEF Spec, EarnedTokenIsGranted
=============================================================================
