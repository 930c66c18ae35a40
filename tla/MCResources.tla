---------------------------- MODULE MCResources ----------------------------
(***************************************************************************)
(* The components that account for resources, each on small instances: the *)
(* rate limiter, the map of limiters, the object pool and the alert        *)
(* manager.  They share no state, so each behaviour is about one of them.  *)
(* The alert manager has two instances: `alerts' has two evaluators and    *)
(* rules that come and go, `limits' one evaluator and enough events to     *)
(* overwrite all trigger times of a rule.  RateLimiter is extended, with   *)
(* its own constants; the others are instantiated.                         *)
(***************************************************************************)
EXTENDS RateLimiter, Sequences, FiniteSets, TLC

CONSTANTS Callers, Evaluators     \* threads of the object pool and of the alert manager

VARIABLES
    part,
    hash, buckets, live, at, type, limiter, sets, calls, latest,
    objects, free_count, allocated, peak_usage, total_allocs, total_frees, pool_hits,
    pool_misses, poolLive, buffers, dirty, poolAt, mine, count, destroyed, poolCalls,
    resets,
    clock, rules, next_rule_id, rules_mutex, history, history_count, history_index,
    next_alert_id, history_mutex, stats, alertsAt, alertsNow, slot, active, events,
    commands, alertsResets, answers, fired, order, lost

\* A rule without limits, a rate-limited one whose second trigger overwrites the
\* time of the first, and a self-suppressing one.
Rules ==
    {[count |-> 0, window_s |-> 0, suppress_s |-> 0],
     [count |-> 1, window_s |-> 1, suppress_s |-> 0],
     [count |-> 0, window_s |-> 0, suppress_s |-> 2]}
LimitedRules == {[count |-> 2, window_s |-> 1, suppress_s |-> 0]}

\* The threads of a component are interchangeable.
Symmetry == Permutations(Callers) \cup Permutations(Evaluators)

mapState == <<hash, buckets, live, at, type, limiter, sets, calls, latest>>
poolState == <<objects, free_count, allocated, peak_usage, total_allocs, total_frees,
    pool_hits, pool_misses, poolLive, buffers, dirty, poolAt, mine, count, destroyed,
    poolCalls, resets>>
alertsState == <<clock, rules, next_rule_id, rules_mutex, history, history_count,
    history_index, next_alert_id, history_mutex, stats, alertsAt, alertsNow, slot, active,
    events, commands, alertsResets, answers, fired, order, lost>>
suiteVars == <<part, vars, mapState, poolState, alertsState>>

RateLimiterMap == INSTANCE RateLimiterMap WITH Threads <- {"h1", "h2"}, Types <- 0 .. 2,
    Buckets <- 2, MaxSets <- 3, MaxCalls <- 2
ObjectPool == INSTANCE ObjectPool WITH Threads <- Callers, Capacity <- 2, MaxHeap <- 1,
    MaxAllocs <- 3, MaxResets <- 1, live <- poolLive, at <- poolAt, calls <- poolCalls
Alerts == INSTANCE AlertManager WITH Evaluators <- Evaluators, max_rules <- 1,
    max_history <- 2, RuleConfigs <- Rules, MaxTime <- 2, MaxEvents <- 3, MaxIds <- 2,
    MaxCommands <- 1, MaxResets <- 0, MaxAnswers <- 2, ActionResults <- {TRUE},
    at <- alertsAt, now <- alertsNow, resets <- alertsResets
Limits == INSTANCE AlertManager WITH Evaluators <- {"e"}, max_rules <- 1,
    max_history <- 2, RuleConfigs <- LimitedRules, MaxTime <- 3, MaxEvents <- 5, MaxIds <- 1,
    MaxCommands <- 0, MaxResets <- 1, MaxAnswers <- 0, ActionResults <- BOOLEAN,
    at <- alertsAt, now <- alertsNow, resets <- alertsResets

\* Which component this behaviour is about; the others stay as they are.
SuiteInit ==
    /\ part \in {"limiter", "map", "pool", "alerts", "limits"}
    /\ Init
    /\ part # "limiter" => now = 0 /\ rate = (CHOOSE r \in Rates : TRUE)
                                   /\ burst = (CHOOSE b \in Bursts : TRUE)
    /\ RateLimiterMap!Init
    /\ part # "map" => hash = [t \in 0 .. 2 |-> 0]
    /\ ObjectPool!Init
    /\ IF part = "limits" THEN Limits!Init ELSE Alerts!Init

SuiteNext ==
    \/ part = "limiter" /\ Next /\ UNCHANGED <<part, mapState, poolState, alertsState>>
    \/ part = "map" /\ RateLimiterMap!Next /\ UNCHANGED <<part, vars, poolState, alertsState>>
    \/ part = "pool" /\ ObjectPool!Next /\ UNCHANGED <<part, vars, mapState, alertsState>>
    \/ part = "alerts" /\ Alerts!Next /\ UNCHANGED <<part, vars, mapState, poolState>>
    \/ part = "limits" /\ Limits!Next /\ UNCHANGED <<part, vars, mapState, poolState>>

SuiteSpec == SuiteInit /\ [][SuiteNext]_suiteVars

-----------------------------------------------------------------------------
\* Properties; those of the rate limiter are TypeOK, AdmissionBound and
\* EarnedTokenIsGranted of RateLimiter.

\* RateLimiterMap: rate_limiter_map_set and _destroy neither leak a limiter nor
\* free one that an entry holds.
LimitersOwned == part = "map" => RateLimiterMap!TypeOK /\ RateLimiterMap!LimitersOwned

\* RateLimiterMap: rate_limiter_map_allow finds the limiter last set for a type
\* of its own, however types collide in a bucket.
FindsLatest == RateLimiterMap!FindsLatest

\* ObjectPool: every object that object_pool_alloc hands out has one holder.
OneHolder == part = "pool" => ObjectPool!TypeOK /\ ObjectPool!OneHolder

\* ObjectPool: object_pool_alloc hands out objects without contents or buffers.
CleanHandover == part = "pool" => ObjectPool!CleanHandover

\* ObjectPool: the statistics of object_pool_stats settle to the objects in use.
UsageSettles == part = "pool" => ObjectPool!UsageSettles

\* AlertManager: the circular history holds the latest alerts.
HistoryKeepsLatest ==
    /\ part = "alerts" => Alerts!TypeOK /\ Alerts!HistoryKeepsLatest
    /\ part = "limits" => Limits!TypeOK /\ Limits!HistoryKeepsLatest

\* AlertManager: active_count and acknowledged_count follow the history.
CountsFollowHistory ==
    /\ part = "alerts" => Alerts!CountsFollowHistory
    /\ part = "limits" => Limits!CountsFollowHistory

\* AlertManager: alert_manager_evaluate keeps a rule within its rate limit.
RateLimitHolds ==
    /\ part = "alerts" => Alerts!RateLimitHolds
    /\ part = "limits" => Limits!RateLimitHolds

\* AlertManager: a rule that raised an alert is suppressed for its duration.
SuppressionHolds ==
    /\ part = "alerts" => Alerts!SuppressionHolds
    /\ part = "limits" => Limits!SuppressionHolds
=============================================================================
