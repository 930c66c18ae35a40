---------------------------- MODULE AlertManager ----------------------------
(***************************************************************************)
(* The alert manager of src/core/alert_manager.c.  alert_manager_evaluate  *)
(* reads the clock first, then takes rules_mutex and keeps it while it     *)
(* walks the rules, the actions of the matching ones included; the alerts  *)
(* it raises go into a circular history under history_mutex.  active_count *)
(* is incremented under history_mutex but without stats_mutex, the lock    *)
(* that reset_stats clears it under: its load and its store are two steps. *)
(*                                                                         *)
(* Whether a condition holds and whether an action succeeds are            *)
(* nondeterministic choices.  `fired' records, for each rule id, the times *)
(* of its alerts in the order they were raised, `order' whether the        *)
(* evaluations took rules_mutex in the order of their clocks, and `lost'   *)
(* how many alerts were overwritten in which state (history).              *)
(***************************************************************************)
EXTENDS Integers, FiniteSets, Sequences

CONSTANTS
    Evaluators,             \* threads that call alert_manager_evaluate
    max_rules, max_history,
    RuleConfigs,            \* the limits a rule may be added with
    MaxTime,                \* bound: the clock
    MaxEvents,              \* bound: calls of evaluate
    MaxIds,                 \* bound: rules added
    MaxCommands,            \* bound: calls that change a rule
    MaxResets,              \* bound: calls of reset_stats
    MaxAnswers,             \* bound: calls of acknowledge and resolve
    ActionResults           \* the results actions may have

Slot == 1 .. max_rules
Id == 0 .. MaxIds
None == "none"
Destroyed == "destroyed"     \* a mutex after alert_manager_destroy
NoConfig == [count |-> 0, window_s |-> 0, suppress_s |-> 0]

VARIABLES
    clock,
    rules, next_rule_id, rules_mutex,
    history, history_count, history_index, next_alert_id, history_mutex,
    stats,
    at, now, slot, active,      \* the locals of evaluate
    events, commands, resets, answers, fired, order, lost

ruleVars == <<rules, next_rule_id>>
historyVars == <<history, history_count, history_index, next_alert_id, lost>>
evalVars == <<at, now, slot, active, events, order>>
vars == <<clock, ruleVars, rules_mutex, historyVars, history_mutex, stats,
          evalVars, commands, resets, answers, fired>>

Free == [id |-> 0, in_use |-> FALSE, enabled |-> FALSE, config |-> NoConfig,
         trigger_times |-> <<>>, trigger_index |-> 1, suppressed |-> FALSE,
         suppress_until |-> 0]
Zero == [triggered |-> 0, executed |-> 0, failed |-> 0, suppressed |-> 0,
         rate_limited |-> 0, active_count |-> 0, acknowledged_count |-> 0]

Init ==
    /\ clock = 0
    /\ rules = [s \in Slot |-> Free] /\ next_rule_id = 1 /\ rules_mutex = None
    /\ history = [i \in 0 .. max_history - 1 |-> [id |-> 0, state |-> "INACTIVE"]]
    /\ history_count = 0 /\ history_index = 0 /\ next_alert_id = 1
    /\ history_mutex = None
    /\ stats = Zero
    /\ at = [e \in Evaluators |-> "idle"]
    /\ now = [e \in Evaluators |-> 0]
    /\ slot = [e \in Evaluators |-> 1]
    /\ active = [e \in Evaluators |-> 0]
    /\ events = 0 /\ commands = 0 /\ resets = 0 /\ answers = 0
    /\ fired = [i \in Id |-> <<>>]
    /\ order = [latest |-> 0, kept |-> TRUE]
    /\ lost = [INACTIVE |-> 0, ACTIVE |-> 0, ACKNOWLEDGED |-> 0]

Goto(e, label) == at' = [at EXCEPT ![e] = label]
Rule(e) == rules[slot[e]]

Tick ==
    /\ clock < MaxTime /\ clock' = clock + 1
    /\ UNCHANGED <<ruleVars, rules_mutex, historyVars, history_mutex, stats,
                   evalVars, commands, resets, answers, fired>>

-----------------------------------------------------------------------------
\* The rules: each call is one critical section of rules_mutex.

\* The condition may not compile and calloc may fail: the id is consumed and
\* the slot stays free.
AddRule ==
    /\ rules_mutex = None /\ next_rule_id <= MaxIds
    /\ \E s \in Slot, valid \in BOOLEAN, limits \in RuleConfigs :
         /\ ~rules[s].in_use /\ \A u \in 1 .. s - 1 : rules[u].in_use
         /\ rules' = [rules EXCEPT ![s] = [Free EXCEPT !.id = next_rule_id,
                !.in_use = valid, !.enabled = TRUE, !.config = limits]]
    /\ next_rule_id' = next_rule_id + 1
    /\ UNCHANGED <<clock, rules_mutex, historyVars, history_mutex, stats,
                   evalVars, commands, resets, answers, fired>>

ChangeRule(s, rule) ==
    /\ rules_mutex = None /\ rules[s].in_use
    /\ commands < MaxCommands /\ commands' = commands + 1
    /\ rules' = [rules EXCEPT ![s] = rule]
    /\ UNCHANGED <<clock, next_rule_id, rules_mutex, historyVars, history_mutex,
                   stats, evalVars, resets, answers, fired>>

RemoveRule(s) == ChangeRule(s, [rules[s] EXCEPT !.in_use = FALSE])
EnableRule(s) == ChangeRule(s, [rules[s] EXCEPT !.enabled = TRUE])
DisableRule(s) == ChangeRule(s, [rules[s] EXCEPT !.enabled = FALSE])

Suppress(s, duration) ==
    ChangeRule(s, [rules[s] EXCEPT !.suppressed = TRUE, !.suppress_until = clock + duration])

\* The operator allows the rule to fire again at once.
Unsuppress(s) ==
    ChangeRule(s, [rules[s] EXCEPT !.suppressed = FALSE, !.suppress_until = 0])

-----------------------------------------------------------------------------
\* alert_manager_evaluate.

EvaluateCall(e) ==
    /\ at[e] = "idle" /\ rules_mutex # Destroyed
    /\ events < MaxEvents /\ events' = events + 1
    /\ now' = [now EXCEPT ![e] = clock]
    /\ Goto(e, "lock")
    /\ UNCHANGED <<clock, ruleVars, rules_mutex, historyVars, history_mutex,
                   stats, slot, active, order, commands, resets, answers, fired>>

EvaluateLock(e) ==
    /\ at[e] = "lock"
    /\ rules_mutex = None /\ rules_mutex' = e
    /\ order' = [latest |-> now[e], kept |-> order.kept /\ order.latest <= now[e]]
    /\ Goto(e, "loop")
    /\ UNCHANGED <<clock, ruleVars, historyVars, history_mutex, stats, now, slot,
                   active, events, commands, resets, answers, fired>>

IsSuppressed(e) == Rule(e).suppressed /\ now[e] < Rule(e).suppress_until

\* The entry is free, disabled or suppressed, or the condition does not hold;
\* an expired suppression is cleared before the condition is evaluated.
EvaluateSkip(e) ==
    /\ at[e] = "loop" /\ slot[e] \in Slot
    /\ rules' = IF Rule(e).in_use /\ Rule(e).enabled /\ ~IsSuppressed(e)
                THEN [rules EXCEPT ![slot[e]].suppressed = FALSE]
                ELSE rules
    /\ slot' = [slot EXCEPT ![e] = @ + 1]
    /\ UNCHANGED <<clock, next_rule_id, rules_mutex, historyVars, history_mutex,
                   stats, at, now, active, events, order, commands, resets, answers, fired>>

Matches(e) ==
    /\ at[e] = "loop" /\ slot[e] \in Slot
    /\ Rule(e).in_use /\ Rule(e).enabled /\ ~IsSuppressed(e)

\* Fault: a trigger at the very start of the window is not counted.
TriggersInOpenWindow(e) ==
    LET times == Rule(e).trigger_times
    IN  Cardinality({j \in DOMAIN times : times[j] > now[e] - Rule(e).config.window_s})

TriggersInWindow(e) ==
    LET times == Rule(e).trigger_times
    IN  Cardinality({j \in DOMAIN times : times[j] >= now[e] - Rule(e).config.window_s})

\* check_rate_limit: a count or a window of 0 is no limit.
Limited(limits) == limits.count > 0 /\ limits.window_s > 0
RateLimited(e) == Limited(Rule(e).config) /\ TriggersInWindow(e) >= Rule(e).config.count

EvaluateLimited(e) ==
    /\ Matches(e)
    /\ RateLimited(e)
    /\ rules' = [rules EXCEPT ![slot[e]].suppressed = FALSE]
    /\ stats' = [stats EXCEPT !.rate_limited = @ + 1]
    /\ slot' = [slot EXCEPT ![e] = @ + 1]
    /\ UNCHANGED <<clock, next_rule_id, rules_mutex, historyVars, history_mutex,
                   at, now, active, events, order, commands, resets, answers, fired>>

\* trigger_times is filled up to rate_limit_count and then overwritten in turn.
RecordTrigger(rule, t) ==
    IF ~Limited(rule.config) THEN rule
    ELSE [rule EXCEPT
            !.trigger_times = IF Len(@) < rule.config.count THEN Append(@, t)
                              ELSE [@ EXCEPT ![rule.trigger_index] = t],
            !.trigger_index = (@ % rule.config.count) + 1]

\* The trigger is recorded, the action runs, and the totals are updated.
EvaluateTrigger(e) ==
    /\ Matches(e)
    /\ ~RateLimited(e)
    /\ rules' = [rules EXCEPT
          ![slot[e]] = RecordTrigger([@ EXCEPT !.suppressed = FALSE], now[e])]
    /\ \E success \in ActionResults :
         stats' = [stats EXCEPT !.triggered = @ + 1,
                       !.executed = IF success THEN @ + 1 ELSE @,
                       !.failed = IF success THEN @ ELSE @ + 1]
    /\ fired' = [fired EXCEPT ![Rule(e).id] = Append(@, now[e])]
    /\ Goto(e, "record")
    /\ UNCHANGED <<clock, next_rule_id, rules_mutex, historyVars, history_mutex,
                   now, slot, active, events, order, commands, resets, answers>>

\* Fault: the history does not wrap around.
EvaluateRecordNoWrap(e) ==
    /\ at[e] = "record"
    /\ history_mutex = None /\ history_mutex' = e
    /\ history' = [i \in DOMAIN history |-> IF i = history_index
                     THEN [id |-> next_alert_id, state |-> "ACTIVE"] ELSE history[i]]
    /\ lost' = lost
    /\ next_alert_id' = next_alert_id + 1
    /\ history_index' = history_index + 1
    /\ history_count' = IF history_count < max_history THEN history_count + 1 ELSE history_count
    /\ active' = [active EXCEPT ![e] = stats.active_count]
    /\ Goto(e, "count")
    /\ UNCHANGED <<clock, ruleVars, rules_mutex, stats, now, slot, events, order, commands,
                   resets, answers, fired>>

\* Fault: the index of the history is not advanced.
EvaluateRecordInPlace(e) ==
    /\ at[e] = "record"
    /\ history_mutex = None /\ history_mutex' = e
    /\ history' = [history EXCEPT ![history_index] = [id |-> next_alert_id, state |-> "ACTIVE"]]
    /\ lost' = IF history_count < max_history THEN lost
               ELSE [lost EXCEPT ![history[history_index].state] = @ + 1]
    /\ next_alert_id' = next_alert_id + 1
    /\ history_count' = IF history_count < max_history THEN history_count + 1 ELSE history_count
    /\ active' = [active EXCEPT ![e] = stats.active_count]
    /\ Goto(e, "count")
    /\ UNCHANGED <<clock, ruleVars, rules_mutex, history_index, stats, now, slot,
                   events, order, commands, resets, answers, fired>>

\* The critical section of history_mutex, up to the load of active_count...
EvaluateRecord(e) ==
    /\ at[e] = "record"
    /\ history_mutex = None /\ history_mutex' = e
    /\ history' = [history EXCEPT ![history_index] = [id |-> next_alert_id, state |-> "ACTIVE"]]
    /\ lost' = IF history_count < max_history THEN lost
               ELSE [lost EXCEPT ![history[history_index].state] = @ + 1]
    /\ next_alert_id' = next_alert_id + 1
    /\ history_index' = (history_index + 1) % max_history
    /\ history_count' = IF history_count < max_history THEN history_count + 1 ELSE history_count
    /\ active' = [active EXCEPT ![e] = stats.active_count]
    /\ Goto(e, "count")
    /\ UNCHANGED <<clock, ruleVars, rules_mutex, stats, now, slot, events,
                   order, commands, resets, answers, fired>>

\* ... and from its store on.
EvaluateCount(e) ==
    /\ at[e] = "count"
    /\ stats' = [stats EXCEPT !.active_count = active[e] + 1]
    /\ history_mutex' = None
    /\ Goto(e, "suppress")
    /\ UNCHANGED <<clock, ruleVars, rules_mutex, historyVars, now, slot, active,
                   events, order, commands, resets, answers, fired>>

\* Fault: the rule is not suppressed.
EvaluateNotSuppressed(e) ==
    /\ at[e] = "suppress"
    /\ slot' = [slot EXCEPT ![e] = @ + 1]
    /\ Goto(e, "loop")
    /\ UNCHANGED <<clock, ruleVars, rules_mutex, historyVars, history_mutex, stats, now,
                   active, events, order, commands, resets, answers, fired>>

\* The rule is suppressed if it asks for it.
EvaluateSuppress(e) ==
    /\ at[e] = "suppress"
    /\ IF Rule(e).config.suppress_s > 0
         THEN /\ rules' = [rules EXCEPT ![slot[e]].suppressed = TRUE,
                               ![slot[e]].suppress_until = now[e] + Rule(e).config.suppress_s]
              /\ stats' = [stats EXCEPT !.suppressed = @ + 1]
         ELSE UNCHANGED <<rules, stats>>
    /\ slot' = [slot EXCEPT ![e] = @ + 1]
    /\ Goto(e, "loop")
    /\ UNCHANGED <<clock, next_rule_id, rules_mutex, historyVars, history_mutex, now, active,
                   events, order, commands, resets, answers, fired>>

EvaluateReturn(e) ==
    /\ at[e] = "loop" /\ slot[e] \notin Slot
    /\ rules_mutex' = None
    /\ now' = [now EXCEPT ![e] = 0]
    /\ slot' = [slot EXCEPT ![e] = 1]
    /\ active' = [active EXCEPT ![e] = 0]
    /\ Goto(e, "idle")
    /\ UNCHANGED <<clock, ruleVars, historyVars, history_mutex, stats, events,
                   order, commands, resets, answers, fired>>

-----------------------------------------------------------------------------
\* The alerts.

Decrement(n) == IF n > 0 THEN n - 1 ELSE n

\* Fault: an acknowledged alert stays counted as active.
AcknowledgeStillActive(i) ==
    /\ history_mutex = None
    /\ answers < MaxAnswers /\ answers' = answers + 1
    /\ i < history_count /\ history[i].state = "ACTIVE"
    /\ history' = [history EXCEPT ![i].state = "ACKNOWLEDGED"]
    /\ stats' = [stats EXCEPT !.acknowledged_count = @ + 1]
    /\ UNCHANGED <<clock, ruleVars, rules_mutex, history_count, history_index,
                   next_alert_id, lost, history_mutex, evalVars, commands, resets, fired>>

Acknowledge(i) ==
    /\ history_mutex = None
    /\ answers < MaxAnswers /\ answers' = answers + 1
    /\ i < history_count /\ history[i].state = "ACTIVE"
    /\ history' = [history EXCEPT ![i].state = "ACKNOWLEDGED"]
    /\ stats' = [stats EXCEPT !.active_count = Decrement(@), !.acknowledged_count = @ + 1]
    /\ UNCHANGED <<clock, ruleVars, rules_mutex, history_count, history_index,
                   next_alert_id, lost, history_mutex, evalVars, commands, resets, fired>>

Resolve(i) ==
    /\ history_mutex = None
    /\ answers < MaxAnswers /\ answers' = answers + 1
    /\ i < history_count /\ history[i].state \in {"ACTIVE", "ACKNOWLEDGED"}
    /\ history' = [history EXCEPT ![i].state = "INACTIVE"]
    /\ stats' = IF history[i].state = "ACTIVE"
                THEN [stats EXCEPT !.active_count = Decrement(@)]
                ELSE [stats EXCEPT !.acknowledged_count = Decrement(@)]
    /\ UNCHANGED <<clock, ruleVars, rules_mutex, history_count, history_index,
                   next_alert_id, lost, history_mutex, evalVars, commands, resets, fired>>

ResetStats ==
    /\ rules_mutex # Destroyed
    /\ resets < MaxResets /\ resets' = resets + 1
    /\ stats' = Zero
    /\ UNCHANGED <<clock, ruleVars, rules_mutex, historyVars, history_mutex,
                   evalVars, commands, answers, fired>>

\* alert_manager_destroy, called when no other call is running: the rules, the
\* history and the mutexes are gone.
Destroy ==
    /\ \A e \in Evaluators : at[e] = "idle"
    /\ rules_mutex = None /\ rules_mutex' = Destroyed
    /\ history_mutex' = Destroyed
    /\ UNCHANGED <<clock, ruleVars, historyVars, stats, evalVars, commands, resets,
                   answers, fired>>

\* Nothing is being evaluated; the process waits for events.
Idle == (\A e \in Evaluators : at[e] = "idle") /\ UNCHANGED vars

EvaluateStep(e) ==
    \/ EvaluateLock(e) \/ EvaluateSkip(e) \/ EvaluateLimited(e) \/ EvaluateTrigger(e)
    \/ EvaluateRecord(e) \/ EvaluateCount(e) \/ EvaluateSuppress(e) \/ EvaluateReturn(e)

Next ==
    \/ Tick \/ AddRule \/ ResetStats \/ Destroy
    \/ \E s \in Slot : \/ RemoveRule(s) \/ EnableRule(s) \/ DisableRule(s) \/ Unsuppress(s)
                       \/ \E d \in 1 .. MaxTime : Suppress(s, d)
    \/ \E e \in Evaluators : EvaluateCall(e) \/ EvaluateStep(e)
    \/ \E i \in 0 .. max_history - 1 : Acknowledge(i) \/ Resolve(i)
    \/ Idle

Spec == Init /\ [][Next]_vars

-----------------------------------------------------------------------------
\* Properties.

RuleEntry == [id : Id, in_use : BOOLEAN, enabled : BOOLEAN,
              config : RuleConfigs \cup {NoConfig},
              trigger_times : Seq(Nat), trigger_index : Nat \ {0},
              suppressed : BOOLEAN, suppress_until : Nat]
Alert == [id : Nat, state : {"INACTIVE", "ACTIVE", "ACKNOWLEDGED"}]

\* Every variable has its type; trigger_times stays within its allocation.
TypeOK ==
    /\ rules \in [Slot -> RuleEntry]
    /\ \A s \in Slot : Len(rules[s].trigger_times) <= rules[s].config.count
    /\ {rules_mutex, history_mutex} \subseteq Evaluators \cup {None, Destroyed}
    /\ history \in [0 .. max_history - 1 -> Alert]
    /\ history_count \in 0 .. max_history /\ history_index \in 0 .. max_history - 1
    /\ \A f \in DOMAIN stats : stats[f] \in Nat
    /\ slot \in [Evaluators -> 1 .. max_rules + 1]

\* The times at which the rule in slot s raised its alerts.
Fired(s) == fired[rules[s].id]

\* docs/ALERT_SYSTEM.md: "This configuration allows maximum 5 alerts within a
\* 60-second window".  A rule raises no more than rate_limit_count alerts in any
\* window, although only the last rate_limit_count times are kept and each new
\* one overwrites the oldest.  The clock is read before rules_mutex is taken; the
\* bound is claimed as long as no evaluation overtook an earlier one between the
\* two, which would make the time it records older than the ones it replaces.
RateLimitHolds ==
    order.kept =>
        \A s \in {u \in Slot : Limited(rules[u].config)} : \A i \in DOMAIN Fired(s) :
            Cardinality({j \in DOMAIN Fired(s) :
                Fired(s)[j] \in Fired(s)[i] - rules[s].config.window_s .. Fired(s)[i]})
              <= rules[s].config.count

\* docs/ALERT_SYSTEM.md: "After the alert triggers, it will be suppressed for 300
\* seconds".  Two alerts of a rule are suppress_duration_s apart, unless an
\* operator changed the rule or an evaluation overtook an earlier one: that one
\* would find the suppression cleared by the later event.
SuppressionHolds ==
    order.kept /\ commands = 0 =>
        \A s \in {u \in Slot : rules[u].config.suppress_s > 0} :
          \A i \in 2 .. Len(Fired(s)) :
            Fired(s)[i] >= Fired(s)[i - 1] + rules[s].config.suppress_s

\* The history holds the latest alerts, each once, also after it has wrapped
\* around.
HistoryKeepsLatest ==
    {history[i].id : i \in 0 .. history_count - 1}
        = next_alert_id - history_count .. next_alert_id - 1

WithState(state) ==
    Cardinality({i \in 0 .. history_count - 1 : history[i].state = state})

\* docs/ALERT_SYSTEM.md: "active_count; /* Currently active alerts */".  Until
\* the statistics are reset, the counts of active and acknowledged alerts exceed
\* those in the history by exactly the alerts that were overwritten in that state,
\* however evaluations, acknowledgements and resolutions interleave: no alert is
\* counted twice or missed, and only an overwritten one stays counted for good.
CountsFollowHistory ==
    resets = 0 /\ history_mutex \in {None, Destroyed} =>
        /\ stats.active_count = WithState("ACTIVE") + lost.ACTIVE
        /\ stats.acknowledged_count = WithState("ACKNOWLEDGED") + lost.ACKNOWLEDGED
=============================================================================
