----------------------------- MODULE EventHooks -----------------------------
(***************************************************************************)
(* The hook manager of src/core/event_hooks.c.  hook_manager_execute runs  *)
(* with hooks_mutex held from its first line to its last, also while it    *)
(* waits for the concurrency limit and while it runs a synchronous script; *)
(* an asynchronous hook runs in a detached thread that holds no lock and   *)
(* reaches its hook through a pointer to the slot.  exec_cond is shared by *)
(* the callers that wait for the limit and those that wait for the end of  *)
(* all executions; whoever finishes an execution signals one of them.      *)
(*                                                                         *)
(* Conditions are evaluated by a nondeterministic choice; a script that    *)
(* does not end is killed by execute_script at its timeout, so it ends.    *)
(***************************************************************************)
EXTENDS Integers, FiniteSets, FiniteSetsExt

CONSTANTS
    Executors,          \* threads that call hook_manager_execute
    Waiters,            \* threads that call hook_manager_wait
    Owner,              \* the thread that calls hook_manager_destroy
    MaxHooks, MaxConcurrent,
    MaxIds,             \* bound: registrations
    MaxRuns,            \* bound: asynchronous executions
    MaxCalls,           \* bound: calls of execute and of wait
    MaxUnregisters,     \* bound: calls of unregister
    MaxChanges          \* bound: calls of enable, disable and reset_stats

ASSUME HooksAssumption ==
    /\ MaxHooks \in Nat \ {0} /\ MaxConcurrent \in Nat \ {0}
    /\ MaxIds \in Nat /\ MaxRuns \in Nat /\ MaxCalls \in Nat
    /\ MaxUnregisters \in Nat /\ MaxChanges \in Nat

Slot == 1 .. MaxHooks
Id == 0 .. MaxIds
Run == 1 .. MaxRuns
Thread == Executors \cup Waiters \cup {Owner}
None == 0

VARIABLES
    hooks, next_hook_id,
    hooks_mutex,        \* the executor that holds it, or None
    active_executions,
    waiting,            \* the threads in exec_cond
    at, slot,           \* each thread, and the loop index of execute
    runs,               \* the asynchronous executions
    calls, unregisters, changes,
    admitted,           \* history: executions of each hook id since its statistics
                        \* were cleared, those under way then included
    inherited,          \* history: runs of a slot's earlier hook still to be counted
                        \* when the slot was taken again
    before              \* history: the runs in flight when a wait began

table == <<hooks, next_hook_id, unregisters, changes>>
accounts == <<admitted, inherited>>
vars == <<table, hooks_mutex, active_executions, waiting, at, slot, runs,
          calls, accounts, before>>

Unused == [id |-> 0, in_use |-> FALSE, enabled |-> FALSE, async |-> FALSE, executions |-> 0]
NoRun == [hook |-> 1, id |-> 0, at |-> "none"]

Init ==
    /\ hooks = [s \in Slot |-> Unused]
    /\ next_hook_id = 1
    /\ hooks_mutex = None
    /\ active_executions = 0
    /\ waiting = {}
    /\ at = [t \in Thread |-> "idle"]
    /\ slot = [e \in Executors |-> 1]
    /\ runs = [r \in Run |-> NoRun]
    /\ calls = 0 /\ unregisters = 0 /\ changes = 0
    /\ admitted = [i \in Id |-> 0]
    /\ inherited = [s \in Slot |-> {}]
    /\ before = [w \in Waiters \cup {Owner} |-> {}]

InFlight == {r \in Run : runs[r].at \in {"script", "stats", "finish"}}
Uncounted(s) == {r \in Run : runs[r].hook = s /\ runs[r].at \in {"script", "stats"}}
Alive == at[Owner] \in {"idle", "wait"}

Goto(t, label) == at' = [at EXCEPT ![t] = label]

\* Fault: nobody is signalled.
SignalNobody == UNCHANGED waiting

\* pthread_cond_signal(&hm->exec_cond)
Signal ==
    IF waiting = {} THEN UNCHANGED waiting
    ELSE \E t \in waiting : waiting' = waiting \ {t}

\* Fault: the execution is counted out twice.
FinishTwice ==
    /\ active_executions' = active_executions - 2
    /\ Signal

\* The end of an execution: the critical section of exec_mutex.
Finish ==
    /\ active_executions' = active_executions - 1
    /\ Signal

-----------------------------------------------------------------------------
\* Fault: the slot's statistics are not cleared.
RegisterKeepsStats(async, enabled) ==
    /\ Alive /\ hooks_mutex = None /\ next_hook_id <= MaxIds
    /\ \E s \in Slot :
         /\ ~hooks[s].in_use /\ \A u \in 1 .. s - 1 : hooks[u].in_use
         /\ hooks' = [hooks EXCEPT ![s] = [@ EXCEPT !.id = next_hook_id, !.in_use = TRUE,
                          !.enabled = enabled, !.async = async]]
         /\ inherited' = [inherited EXCEPT ![s] = Uncounted(s)]
    /\ next_hook_id' = next_hook_id + 1
    /\ UNCHANGED <<hooks_mutex, active_executions, waiting, at, slot, runs,
                   calls, unregisters, changes, admitted, before>>

\* hook_manager_register takes the first free slot; the condition may turn out
\* not to compile, after the slot was cleared and the id consumed.  The memset
\* clears the slot's statistics and stats_mutex also while an execution of the
\* slot's earlier hook is updating them, which may write back what it had read.
Register(async, enabled) ==
    /\ Alive /\ hooks_mutex = None /\ next_hook_id <= MaxIds
    /\ \E s \in Slot :
         /\ ~hooks[s].in_use /\ \A u \in 1 .. s - 1 : hooks[u].in_use
         /\ \E valid \in BOOLEAN,
              old \in {0} \cup {hooks[s].executions : r \in {q \in Uncounted(s) :
                                                              runs[q].at = "stats"}} :
              hooks' = [hooks EXCEPT ![s] = [id |-> next_hook_id, in_use |-> valid,
                            enabled |-> enabled, async |-> async, executions |-> old]]
         /\ inherited' = [inherited EXCEPT ![s] = Uncounted(s)]
    /\ next_hook_id' = next_hook_id + 1
    /\ UNCHANGED <<hooks_mutex, active_executions, waiting, at, slot, runs,
                   calls, unregisters, changes, admitted, before>>

Unregister(s) ==
    /\ Alive /\ hooks_mutex = None /\ unregisters < MaxUnregisters
    /\ hooks[s].in_use
    /\ hooks' = [hooks EXCEPT ![s].in_use = FALSE]
    /\ unregisters' = unregisters + 1
    /\ UNCHANGED <<next_hook_id, hooks_mutex, active_executions, waiting, at,
                   slot, runs, calls, changes, accounts, before>>

\* hook_manager_enable and hook_manager_disable.
SetEnabled(s, b) ==
    /\ Alive /\ hooks_mutex = None /\ changes < MaxChanges
    /\ hooks[s].in_use /\ hooks[s].enabled # b
    /\ hooks' = [hooks EXCEPT ![s].enabled = b]
    /\ changes' = changes + 1
    /\ UNCHANGED <<next_hook_id, hooks_mutex, active_executions, waiting, at,
                   slot, runs, calls, unregisters, accounts, before>>

\* hook_manager_reset_stats for one hook, or for all (hook_id = -1).
ResetStats(S) ==
    /\ Alive /\ hooks_mutex = None /\ changes < MaxChanges
    /\ \A s \in S : hooks[s].in_use
    /\ hooks' = [s \in Slot |-> IF s \in S THEN [hooks[s] EXCEPT !.executions = 0]
                                          ELSE hooks[s]]
    /\ admitted' = [i \in Id |-> IF \E s \in S : hooks[s].id = i
                                   THEN Cardinality({r \in Run : runs[r].id = i
                                                       /\ runs[r].at \in {"script", "stats"}})
                                   ELSE admitted[i]]
    /\ changes' = changes + 1
    /\ UNCHANGED <<next_hook_id, hooks_mutex, active_executions, waiting, at,
                   slot, runs, calls, unregisters, inherited, before>>

-----------------------------------------------------------------------------
\* hook_manager_execute.

ExecuteCall(e) ==
    /\ at[e] = "idle" /\ at[Owner] = "idle"
    /\ calls < MaxCalls /\ calls' = calls + 1
    /\ hooks_mutex = None /\ hooks_mutex' = e
    /\ Goto(e, "loop")
    /\ UNCHANGED <<table, active_executions, waiting, slot, runs, accounts, before>>

Advance(e) ==
    /\ slot' = [slot EXCEPT ![e] = @ + 1]
    /\ Goto(e, "loop")

\* The slot is unused or disabled, or the condition does not hold.
ExecuteSkip(e) ==
    /\ at[e] = "loop" /\ slot[e] \in Slot
    /\ Advance(e)
    /\ UNCHANGED <<table, hooks_mutex, active_executions, waiting, runs, calls,
                   accounts, before>>

ExecuteMatch(e) ==
    /\ at[e] = "loop" /\ slot[e] \in Slot
    /\ hooks[slot[e]].in_use /\ hooks[slot[e]].enabled
    /\ Goto(e, "limit")
    /\ UNCHANGED <<table, hooks_mutex, active_executions, waiting, slot, runs,
                   calls, accounts, before>>

ExecuteWait(e) ==
    /\ at[e] = "limit" /\ e \notin waiting
    /\ active_executions >= MaxConcurrent
    /\ waiting' = waiting \cup {e}
    /\ UNCHANGED <<table, hooks_mutex, active_executions, at, slot, runs, calls,
                   accounts, before>>

\* Fault: off by one at the limit.
ExecuteAdmitLoose(e) ==
    /\ at[e] = "limit" /\ e \notin waiting
    /\ active_executions <= MaxConcurrent
    /\ active_executions' = active_executions + 1
    /\ Goto(e, IF hooks[slot[e]].async THEN "launch" ELSE "script")
    /\ admitted' = [admitted EXCEPT ![hooks[slot[e]].id] = @ + 1]
    /\ UNCHANGED <<table, hooks_mutex, waiting, slot, runs, calls, inherited, before>>

ExecuteAdmit(e) ==
    /\ at[e] = "limit" /\ e \notin waiting
    /\ active_executions < MaxConcurrent
    /\ active_executions' = active_executions + 1
    /\ Goto(e, IF hooks[slot[e]].async THEN "launch" ELSE "script")
    /\ admitted' = [admitted EXCEPT ![hooks[slot[e]].id] = @ + 1]
    /\ UNCHANGED <<table, hooks_mutex, waiting, slot, runs, calls, inherited, before>>

LaunchAsync(e) ==
    /\ at[e] = "launch"
    /\ \E r \in Run :
         /\ runs[r].at = "none" /\ \A u \in 1 .. r - 1 : runs[u].at # "none"
         /\ runs' = [runs EXCEPT ![r] = [hook |-> slot[e], id |-> hooks[slot[e]].id,
                                         at |-> "script"]]
    /\ Advance(e)
    /\ UNCHANGED <<table, hooks_mutex, active_executions, waiting, calls,
                   accounts, before>>

\* malloc or pthread_create fails.
LaunchFails(e) ==
    /\ at[e] = "launch"
    /\ Finish
    /\ Advance(e)
    /\ admitted' = [admitted EXCEPT ![hooks[slot[e]].id] = @ - 1]
    /\ UNCHANGED <<table, hooks_mutex, runs, calls, inherited, before>>

\* A synchronous script ends; its statistics are updated.
SyncStats(e) ==
    /\ at[e] = "script"
    /\ hooks' = [hooks EXCEPT ![slot[e]].executions = @ + 1]
    /\ Goto(e, "finish")
    /\ UNCHANGED <<next_hook_id, unregisters, changes, hooks_mutex,
                   active_executions, waiting, slot, runs, calls, accounts, before>>

SyncFinish(e) ==
    /\ at[e] = "finish"
    /\ Finish
    /\ Advance(e)
    /\ UNCHANGED <<table, hooks_mutex, runs, calls, accounts, before>>

ExecuteReturn(e) ==
    /\ at[e] = "loop" /\ slot[e] \notin Slot
    /\ hooks_mutex' = None
    /\ slot' = [slot EXCEPT ![e] = 1]
    /\ Goto(e, "idle")
    /\ UNCHANGED <<table, active_executions, waiting, runs, calls, accounts, before>>

-----------------------------------------------------------------------------
\* async_exec_thread: the script, and the statistics, are those of whatever hook
\* the slot holds by then.

AsyncScript(r) ==
    /\ runs[r].at = "script"
    /\ runs' = [runs EXCEPT ![r].at = "stats"]
    /\ UNCHANGED <<table, hooks_mutex, active_executions, waiting, at, slot,
                   calls, accounts, before>>

\* Fault: an asynchronous execution is not counted.
AsyncStatsLost(r) ==
    /\ runs[r].at = "stats"
    /\ runs' = [runs EXCEPT ![r].at = "finish"]
    /\ UNCHANGED <<table, hooks_mutex, active_executions, waiting, at, slot,
                   calls, accounts, before>>

AsyncStats(r) ==
    /\ runs[r].at = "stats"
    /\ hooks' = [hooks EXCEPT ![runs[r].hook].executions = @ + 1]
    /\ runs' = [runs EXCEPT ![r].at = "finish"]
    /\ UNCHANGED <<next_hook_id, unregisters, changes, hooks_mutex,
                   active_executions, waiting, at, slot, calls, accounts, before>>

AsyncFinish(r) ==
    /\ runs[r].at = "finish"
    /\ Finish
    /\ runs' = [runs EXCEPT ![r].at = "done"]
    /\ UNCHANGED <<table, hooks_mutex, at, slot, calls, accounts, before>>

-----------------------------------------------------------------------------
\* hook_manager_wait, and hook_manager_destroy with wait = true, which begins
\* with it and is called when nothing else is.

WaitCall(w) ==
    /\ at[w] = "idle"
    /\ IF w = Owner
         THEN (\A t \in Thread : at[t] \in {"idle", "returned"}) /\ UNCHANGED calls
         ELSE at[Owner] = "idle" /\ calls < MaxCalls /\ calls' = calls + 1
    /\ before' = [before EXCEPT ![w] = InFlight]
    /\ Goto(w, "wait")
    /\ UNCHANGED <<table, hooks_mutex, active_executions, waiting, slot, runs, accounts>>

WaitBlock(w) ==
    /\ at[w] = "wait" /\ w \notin waiting
    /\ active_executions > 0
    /\ waiting' = waiting \cup {w}
    /\ UNCHANGED <<table, hooks_mutex, active_executions, at, slot, runs, calls,
                   accounts, before>>

\* Fault: the waiter is content when one execution is left.
WaitReturnEarly(w) ==
    /\ at[w] = "wait" /\ w \notin waiting
    /\ active_executions <= 1
    /\ Goto(w, IF w = Owner THEN "freed" ELSE "returned")
    /\ UNCHANGED <<table, hooks_mutex, active_executions, waiting, slot, runs,
                   calls, accounts, before>>

WaitReturn(w) ==
    /\ at[w] = "wait" /\ w \notin waiting
    /\ active_executions = 0
    /\ Goto(w, IF w = Owner THEN "freed" ELSE "returned")
    /\ UNCHANGED <<table, hooks_mutex, active_executions, waiting, slot, runs,
                   calls, accounts, before>>

\* POSIX lets pthread_cond_wait return without a signal.
SpuriousWakeup(t) ==
    /\ t \in waiting
    /\ waiting' = waiting \ {t}
    /\ UNCHANGED <<table, hooks_mutex, active_executions, at, slot, runs, calls,
                   accounts, before>>

Freed == at[Owner] = "freed" /\ UNCHANGED vars

ExecuteStep(e) ==
    \/ ExecuteSkip(e) \/ ExecuteMatch(e) \/ ExecuteWait(e) \/ ExecuteAdmit(e)
    \/ LaunchAsync(e) \/ LaunchFails(e) \/ SyncStats(e) \/ SyncFinish(e)
    \/ ExecuteReturn(e)

AsyncStep(r) == AsyncScript(r) \/ AsyncStats(r) \/ AsyncFinish(r)

WaitStep(w) == WaitBlock(w) \/ WaitReturn(w)

Next ==
    \/ \E async, enabled \in BOOLEAN : Register(async, enabled)
    \/ \E s \in Slot : Unregister(s) \/ \E b \in BOOLEAN : SetEnabled(s, b)
    \/ \E S \in {{s} : s \in Slot} \cup {{s \in Slot : hooks[s].in_use}} : ResetStats(S)
    \/ \E e \in Executors : ExecuteCall(e) \/ ExecuteStep(e)
    \/ \E r \in Run : AsyncStep(r)
    \/ \E w \in Waiters \cup {Owner} : WaitCall(w) \/ WaitStep(w)
    \/ \E t \in Thread : SpuriousWakeup(t)
    \/ Freed

Spec == Init /\ [][Next]_vars

\* A thread that can run does run, and a script ends; nobody has to call.
Fairness ==
    /\ \A e \in Executors : WF_vars(ExecuteStep(e))
    /\ \A r \in Run : WF_vars(AsyncStep(r))
    /\ \A w \in Waiters \cup {Owner} : WF_vars(WaitStep(w))

FairSpec == Spec /\ Fairness

-----------------------------------------------------------------------------
\* Properties.

Hook == [id : Id, in_use : BOOLEAN, enabled : BOOLEAN, async : BOOLEAN, executions : Nat]
RunRecord == [hook : Slot, id : Id,
              at : {"none", "script", "stats", "finish", "done"}]

\* Every variable has its type; active_executions never wraps below 0.
TypeOK ==
    /\ hooks \in [Slot -> Hook]
    /\ next_hook_id \in 1 .. MaxIds + 1
    /\ hooks_mutex \in Executors \cup {None}
    /\ active_executions \in Nat
    /\ waiting \subseteq Thread
    /\ slot \in [Executors -> 1 .. MaxHooks + 1]
    /\ runs \in [Run -> RunRecord]

\* include/event_hooks.h: "@max_concurrent: Maximum concurrent hook executions".
\* active_executions counts exactly the executions between admission and end,
\* synchronous and asynchronous, also when a thread cannot be created, and it
\* never exceeds the limit.
ConcurrencyBounded ==
    /\ active_executions = Cardinality(InFlight)
         + Cardinality({e \in Executors : at[e] \in {"launch", "script", "finish"}})
    /\ active_executions <= MaxConcurrent

\* include/event_hooks.h: "hook_manager_wait() - Wait for all pending hook
\* executions".  When it returns, every execution that was in flight when it
\* was called has ended, with its statistics; and hook_manager_destroy with
\* wait = true frees the manager only when no thread can still touch it.
WaitMeansEnded ==
    /\ \A w \in Waiters : at[w] = "returned" => before[w] \cap InFlight = {}
    /\ at[Owner] = "freed" => InFlight = {} /\ waiting = {}

\* Whoever reads hook_manager_get_stats: a hook's statistics count the times
\* hook_manager_execute admitted it since it was registered or its statistics
\* were reset, less those still under way and those that could not be launched,
\* and no execution of another hook.  It holds also in a slot that was used
\* before, unless an execution of the earlier hook was still to be counted
\* when the slot was taken again: that one is charged to the new hook.
StatsAttributed ==
    \A s \in Slot :
        hooks[s].in_use /\ inherited[s] = {} =>
            hooks[s].executions = admitted[hooks[s].id] - Cardinality(Uncounted(s))
                - Cardinality({e \in Executors : slot[e] = s /\ at[e] \in {"launch", "script"}})

\* docs/EVENT_HOOKS.md: "Hooks wait if limit is reached".  They wait, and then
\* they run: hook_manager_execute returns.
ExecuteReturns == \A e \in Executors : at[e] # "idle" ~> at[e] = "idle"

\* hook_manager_destroy returns, and so does hook_manager_execute as long as
\* nobody called hook_manager_wait, whose callers share exec_cond with those
\* that wait for the limit.
CallsReturn ==
    /\ at[Owner] = "wait" ~> at[Owner] = "freed"
    /\ \A e \in Executors :
          at[e] # "idle" ~> at[e] = "idle" \/ \E w \in Waiters : at[w] # "idle"
=============================================================================
