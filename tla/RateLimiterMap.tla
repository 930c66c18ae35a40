--------------------------- MODULE RateLimiterMap ---------------------------
(***************************************************************************)
(* The per-event-type limiters of src/core/rate_limiter.c: a hash table of *)
(* entries under the map's mutex, and a default limiter.  A critical       *)
(* section of the map's mutex is one step.  rate_limiter_map_allow and     *)
(* rate_limiter_map_stats look the limiter up under the mutex and use it   *)
(* after they have released it, which is a second step.                    *)
(*                                                                         *)
(* A limiter is a number; what it answers is the subject of RateLimiter.   *)
(* `live' is the set of limiters that are allocated, and latest[t] the     *)
(* limiter last set for type t (history).                                  *)
(***************************************************************************)
EXTENDS Integers, FiniteSets, SequencesExt

CONSTANTS
    Threads,
    Types,          \* event types, 0 among them
    Buckets,        \* the values of hash_event_type
    MaxSets,        \* bound: calls of map_set
    MaxCalls        \* bound: calls of map_allow and map_stats

Default == 0                \* map->default_limiter
Limiter == 0 .. MaxSets

VARIABLES hash, buckets, live, at, type, limiter, sets, calls, latest
vars == <<hash, buckets, live, at, type, limiter, sets, calls, latest>>

\* Only the collisions of the hash function matter: it is any function.
hash_event_type(t) == hash[t]

Init ==
    /\ hash \in [Types -> 0 .. Buckets - 1]
    /\ buckets = [b \in 0 .. Buckets - 1 |-> <<>>]
    /\ live = {Default}
    /\ at = [h \in Threads |-> "idle"]
    /\ type = [h \in Threads |-> 0]
    /\ limiter = [h \in Threads |-> Default]
    /\ sets = 0 /\ calls = 0
    /\ latest = [t \in Types |-> Default]

Matches(t) ==
    LET chain == buckets[hash_event_type(t)]
    IN  {i \in DOMAIN chain : chain[i].event_type = t}

\* Fault: the first entry of the bucket is taken for the type's.
LookupBucket(t) ==
    IF buckets[hash_event_type(t)] = <<>> THEN Default
    ELSE buckets[hash_event_type(t)][1].limiter

\* The first entry of the chain with the type, or the default limiter.
Lookup(t) ==
    IF Matches(t) = {} THEN Default
    ELSE buckets[hash_event_type(t)][Min(Matches(t))].limiter

Held == UNION {{e.limiter : e \in ToSet(buckets[b])} : b \in DOMAIN buckets}

Destroyed == Default \notin live

-----------------------------------------------------------------------------
\* Fault: the limiter that is replaced is not destroyed.
SetReplaceLeaks(t) ==
    /\ sets < MaxSets /\ ~Destroyed
    /\ Matches(t) # {}
    /\ live' = live \cup {sets + 1}
    /\ buckets' = [buckets EXCEPT ![hash_event_type(t)][Min(Matches(t))].limiter = sets + 1]
    /\ sets' = sets + 1
    /\ latest' = [latest EXCEPT ![t] = sets + 1]
    /\ UNCHANGED <<hash, at, type, limiter, calls>>

\* rate_limiter_map_set with valid limits: the limiter of an entry that exists
\* is destroyed and replaced, unless rate_limiter_create fails.
SetReplace(t) ==
    /\ sets < MaxSets /\ ~Destroyed
    /\ Matches(t) # {}
    /\ \/ LET b == hash_event_type(t)
              i == Min(Matches(t))
          IN  /\ live' = (live \ {buckets[b][i].limiter}) \cup {sets + 1}
              /\ buckets' = [buckets EXCEPT ![b][i].limiter = sets + 1]
              /\ latest' = [latest EXCEPT ![t] = sets + 1]
       \/ UNCHANGED <<live, buckets, latest>>
    /\ sets' = sets + 1
    /\ UNCHANGED <<hash, at, type, limiter, calls>>

\* Fault: a limiter that could not be created is entered as NULL.
SetInsertUnchecked(t) ==
    /\ sets < MaxSets /\ ~Destroyed
    /\ Matches(t) = {}
    /\ buckets' = [buckets EXCEPT ![hash_event_type(t)] =
           <<[event_type |-> t, limiter |-> -1]>> \o @]
    /\ sets' = sets + 1
    /\ UNCHANGED <<hash, live, at, type, limiter, calls, latest>>

\* Otherwise an entry is put in front of the chain, unless the limiter or the
\* entry cannot be allocated.
SetInsert(t) ==
    /\ sets < MaxSets /\ ~Destroyed
    /\ Matches(t) = {}
    /\ \/ /\ live' = live \cup {sets + 1}
          /\ buckets' = [buckets EXCEPT ![hash_event_type(t)] =
                 <<[event_type |-> t, limiter |-> sets + 1]>> \o @]
          /\ latest' = [latest EXCEPT ![t] = sets + 1]
       \/ UNCHANGED <<live, buckets, latest>>
    /\ sets' = sets + 1
    /\ UNCHANGED <<hash, at, type, limiter, calls>>

\* rate_limiter_map_allow and rate_limiter_map_stats, up to the unlock.
Find(h, t) ==
    /\ at[h] = "idle" /\ calls < MaxCalls /\ ~Destroyed
    /\ limiter' = [limiter EXCEPT ![h] = Lookup(t)]
    /\ type' = [type EXCEPT ![h] = t]
    /\ at' = [at EXCEPT ![h] = "use"]
    /\ calls' = calls + 1
    /\ UNCHANGED <<hash, buckets, live, sets, latest>>

\* rate_limiter_allow or rate_limiter_stats on the limiter that was found.
Use(h) ==
    /\ at[h] = "use"
    /\ at' = [at EXCEPT ![h] = "idle"]
    /\ UNCHANGED <<hash, buckets, live, type, limiter, sets, calls, latest>>

\* rate_limiter_map_destroy, which nothing may run beside.
Destroy ==
    /\ ~Destroyed
    /\ \A h \in Threads : at[h] = "idle"
    /\ live' = live \ ({Default} \cup Held)
    /\ UNCHANGED <<hash, buckets, at, type, limiter, sets, calls, latest>>

Done == Destroyed /\ UNCHANGED vars

Next ==
    \/ \E t \in Types : SetReplace(t) \/ SetInsert(t)
    \/ \E h \in Threads : Use(h) \/ \E t \in Types : Find(h, t)
    \/ Destroy \/ Done

Spec == Init /\ [][Next]_vars

-----------------------------------------------------------------------------
\* Properties.

Entry == [event_type : Types, limiter : Limiter]

\* Every variable has its type.
TypeOK ==
    /\ hash \in [Types -> 0 .. Buckets - 1]
    /\ buckets \in [0 .. Buckets - 1 -> Seq(Entry)]
    /\ live \subseteq Limiter
    /\ at \in [Threads -> {"idle", "use"}]
    /\ type \in [Threads -> Types] /\ limiter \in [Threads -> Limiter]
    /\ latest \in [Types -> Limiter]

\* The limiters that are allocated are the default one and those of the
\* entries, each of one entry: map_set leaks none and frees none that an entry
\* still holds, also when it runs out of memory half way, and map_destroy
\* frees all.
LimitersOwned ==
    /\ live = IF Destroyed THEN {} ELSE {Default} \cup Held
    /\ \A b, c \in DOMAIN buckets :
         \A i \in DOMAIN buckets[b], j \in DOMAIN buckets[c] :
            buckets[b][i].limiter = buckets[c][j].limiter => b = c /\ i = j

\* A lookup for a type that has a limiter of its own finds the one last set for
\* it, however types collide in a bucket and however often it was replaced.
\* As long as nothing was set for type 0 either, the others find the default.
FindsLatest ==
    [][ \A h \in Threads :
          /\ at[h] = "idle" /\ at'[h] = "use"
          /\ latest[type'[h]] # Default \/ latest[0] = Default
          => limiter'[h] = latest[type'[h]] ]_vars

\* What event_processor.h says of event_processor_set_rate_limit, which hands
\* its type to rate_limiter_map_set: 0 stands for the global limit.  Once it is
\* set, an event whose type has no limiter of its own is held to it.
GlobalLimitApplies ==
    [][ \A h \in Threads :
          /\ at[h] = "idle" /\ at'[h] = "use"
          /\ latest[type'[h]] = Default
          => limiter'[h] = latest[0] ]_vars
=============================================================================
