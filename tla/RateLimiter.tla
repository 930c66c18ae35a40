---------------------------- MODULE RateLimiter ----------------------------
(***************************************************************************)
(* The token bucket of src/core/rate_limiter.c.  Every call runs under the *)
(* limiter's mutex, so every call is one step.                             *)
(*                                                                         *)
(* Time is counted in ticks and tokens in fractions of a token: One units  *)
(* make a token and a rate is a number of units per tick.  The code uses   *)
(* doubles; their rounding is left out.  gettimeofday is not monotonic:    *)
(* the clock may be set back.                                              *)
(*                                                                         *)
(* mark_* are history variables of a window: allowed_count when it began,  *)
(* the largest burst set in it, and mark_yield, what the time that really  *)
(* passed in it yields at the rates in force.  Mark begins a new window at *)
(* any moment no time is waiting to be credited.  grant_time is the time   *)
(* of the last grant, grant_slow_rate the slowest rate since.              *)
(***************************************************************************)
EXTENDS Integers

CONSTANTS
    One,            \* units in a token
    Rates,          \* rates in units per tick
    Bursts,         \* bucket sizes in tokens
    MaxN,           \* the largest n of rate_limiter_allow_n
    Second,         \* ticks in a second
    MaxTime,        \* bound: the clock
    MaxYield,       \* bound: what the time of a window yields
    MaxAsked        \* bound: events asked for

ASSUME LimiterAssumption ==
    /\ One \in Nat \ {0} /\ Second \in Nat \ {0}
    /\ Rates \subseteq Nat \ {0} /\ Bursts \subseteq Nat \ {0}
    /\ MaxN \in Nat /\ MaxTime \in Nat /\ MaxYield \in Nat /\ MaxAsked \in Nat

VARIABLES
    now,                                    \* gettimeofday
    rate, tokens, burst, last_update,
    allowed_count, denied_count,
    rate_window_start, rate_window_count,
    mark_allowed, mark_yield, mark_peak_burst,
    grant_time, grant_slow_rate

limits == <<rate, burst>>
window == <<rate_window_start, rate_window_count>>
counts == <<allowed_count, denied_count>>
mark == <<mark_allowed, mark_yield, mark_peak_burst>>
grant == <<grant_time, grant_slow_rate>>
vars == <<now, limits, tokens, last_update, counts, window, mark, grant>>

Least(a, b) == IF a < b THEN a ELSE b
Greatest(a, b) == IF a > b THEN a ELSE b

\* rate_limiter_create, which refuses rate <= 0 and burst = 0.
Init ==
    /\ now \in 0 .. MaxTime
    /\ rate \in Rates /\ burst \in Bursts
    /\ tokens = burst * One
    /\ last_update = now
    /\ rate_window_start = now /\ rate_window_count = 0
    /\ allowed_count = 0 /\ denied_count = 0
    /\ mark_allowed = 0 /\ mark_yield = 0 /\ mark_peak_burst = burst
    /\ grant_time = now /\ grant_slow_rate = rate

\* Fault: the refill is not capped.
RefilledUncapped ==
    IF now > last_update THEN tokens + (now - last_update) * rate ELSE tokens

\* refill_tokens: what tokens and last_update become.
Refilled ==
    IF now > last_update
    THEN Least(tokens + (now - last_update) * rate, burst * One)
    ELSE tokens

\* Fault: the time of the refill is not recorded.
RefillTimeKept == last_update

RefillTime == Greatest(now, last_update)

-----------------------------------------------------------------------------
\* rate_limiter_allow is rate_limiter_allow_n with n = 1; n = 0 changes nothing.
Grant(n) ==
    /\ allowed_count + denied_count + n <= MaxAsked
    /\ Refilled >= n * One
    /\ tokens' = Refilled - n * One
    /\ last_update' = RefillTime
    /\ allowed_count' = allowed_count + n
    /\ rate_window_count' = rate_window_count + n
    /\ grant_time' = RefillTime /\ grant_slow_rate' = rate
    /\ UNCHANGED <<now, limits, denied_count, rate_window_start, mark>>

\* Fault: a refused request forgets what the time has earned.
RefuseForgets(n) ==
    /\ allowed_count + denied_count + n <= MaxAsked
    /\ Refilled < n * One
    /\ last_update' = RefillTime
    /\ denied_count' = denied_count + n
    /\ UNCHANGED <<now, limits, tokens, allowed_count, window, mark, grant>>

Refuse(n) ==
    /\ allowed_count + denied_count + n <= MaxAsked
    /\ Refilled < n * One
    /\ tokens' = Refilled
    /\ last_update' = RefillTime
    /\ denied_count' = denied_count + n
    /\ UNCHANGED <<now, limits, allowed_count, window, mark, grant>>

\* rate_limiter_reset: the bucket is full again, so no window reaches back
\* beyond it.
Reset ==
    /\ tokens' = burst * One
    /\ last_update' = now
    /\ rate_window_start' = now
    /\ rate_window_count' = 0
    /\ mark_allowed' = allowed_count /\ mark_yield' = 0 /\ mark_peak_burst' = burst
    /\ UNCHANGED <<now, limits, counts, grant>>

\* Fault: the time that passed is left to be credited at the new rate.
SetRateUncredited(r) ==
    /\ rate' = r
    /\ grant_slow_rate' = Least(grant_slow_rate, r)
    /\ UNCHANGED <<now, burst, tokens, last_update, counts, window, mark, grant_time>>

\* rate_limiter_set_rate credits the time that passed at the old rate.
SetRate(r) ==
    /\ tokens' = Refilled
    /\ last_update' = RefillTime
    /\ rate' = r
    /\ grant_slow_rate' = Least(grant_slow_rate, r)
    /\ UNCHANGED <<now, burst, counts, window, mark, grant_time>>

\* rate_limiter_set_burst credits nothing.
SetBurst(b) ==
    /\ burst' = b
    /\ tokens' = Least(tokens, b * One)
    /\ mark_peak_burst' = Greatest(mark_peak_burst, b)
    /\ UNCHANGED <<now, rate, last_update, counts, window,
                   mark_allowed, mark_yield, grant>>

GetTokens ==
    /\ tokens' = Refilled
    /\ last_update' = RefillTime
    /\ UNCHANGED <<now, limits, counts, window, mark, grant>>

\* rate_limiter_stats starts a new window when the old one is a second long.
Stats ==
    /\ now - rate_window_start >= Second
    /\ rate_window_start' = now
    /\ rate_window_count' = 0
    /\ UNCHANGED <<now, limits, tokens, last_update, counts, mark, grant>>

-----------------------------------------------------------------------------
Tick ==
    /\ now < MaxTime /\ mark_yield + rate <= MaxYield
    /\ now' = now + 1
    /\ mark_yield' = mark_yield + rate
    /\ UNCHANGED <<limits, tokens, last_update, counts, window,
                   mark_allowed, mark_peak_burst, grant>>

ClockSetBack == now > 0 /\ now' \in 0 .. now - 1
                /\ UNCHANGED <<limits, tokens, last_update, counts, window, mark, grant>>

Mark ==
    /\ now <= last_update
    /\ mark_allowed' = allowed_count /\ mark_yield' = 0 /\ mark_peak_burst' = burst
    /\ UNCHANGED <<now, limits, tokens, last_update, counts, window, grant>>

Next ==
    \/ \E n \in 1 .. MaxN : Grant(n) \/ Refuse(n)
    \/ Reset \/ GetTokens \/ Stats
    \/ \E r \in Rates : SetRate(r)
    \/ \E b \in Bursts : SetBurst(b)
    \/ Tick \/ ClockSetBack \/ Mark

Spec == Init /\ [][Next]_vars

-----------------------------------------------------------------------------
\* Properties.

\* Every variable has its type, and the bucket never holds more than it can.
TypeOK ==
    /\ now \in Nat /\ last_update \in Nat
    /\ rate \in Rates /\ burst \in Bursts
    /\ tokens \in Nat /\ tokens <= burst * One
    /\ allowed_count \in Nat /\ denied_count \in Nat
    /\ rate_window_start \in Nat /\ rate_window_count \in Nat
    /\ mark_allowed \in Nat /\ mark_yield \in Nat /\ mark_peak_burst \in Bursts
    /\ grant_time \in Nat /\ grant_slow_rate \in Rates

\* What the limiter promises: over every window that no reset falls into, the
\* events let through are at most the largest burst set in it and what the time
\* that passed in it yields, each stretch of it at the rate then in force.  It
\* holds however set_rate, set_burst and get_tokens fall among the events, and a
\* clock set back buys nothing.
AdmissionBound ==
    (allowed_count - mark_allowed) * One <= mark_peak_burst * One + mark_yield

\* A single event is refused only while the time since the last grant, at the
\* slowest rate set since then, has not earned a token.  The time is the one
\* refill_tokens goes by: it reaches to the clock or, when the clock was set
\* back, to the last refill.  So requests refused in between, set_rate,
\* set_burst and get_tokens cost nothing, and what was paid in outlives a clock
\* set back.  What a set-back does cost is the time not yet paid in and the time
\* until the clock passes last_update again.
EarnedTokenIsGranted ==
    [][ Refuse(1) => (Greatest(now, last_update) - grant_time) * grant_slow_rate < One ]_vars
=============================================================================
