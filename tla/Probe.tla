------------------------------- MODULE Probe -------------------------------
(***************************************************************************)
(* The lancache reachability probe of /health (lancache/heartbeat.py): a   *)
(* cached answer with a time to live, one lock that collapses concurrent   *)
(* refreshes, and a one-shot flag by which an operator forces a refresh.   *)
(***************************************************************************)
EXTENDS Naturals, Sequences

CONSTANTS
    Clients,  \* requests that may probe at once
    TTL,      \* cache_ttl_sec, in ticks
    MaxForced \* bound: invalidations

ASSUME ProbeAssumption == TTL \in Nat /\ MaxForced \in Nat

VARIABLES
    cache,    \* _last_result: its age, and (history) how many invalidations
              \*   preceded the refresh that brought it
    force,    \* _force_refresh
    lock,     \* the FIFO line of _refresh_lock: its head holds it
    refresh,  \* the refresh under way: NoRefresh, or the invalidations before it
    caller,   \* per client: where its probe stands, and what it was answered
    forced    \* history: invalidations so far

pvars == <<cache, force, lock, refresh, caller, forced>>

Never     == TTL + 1
NoRefresh == MaxForced + 1

\* `asked`: invalidations before the probe began.  `got`: those before the
\* refresh whose result it was given.  `beside`: it was given the cached result
\* while a refresh that began after `asked` was under way.
NoCaller == [pc |-> "idle", asked |-> 0, got |-> 0, beside |-> FALSE]

ProbeInit ==
    /\ cache = [age |-> Never, began |-> 0]
    /\ force = FALSE /\ lock = <<>> /\ refresh = NoRefresh
    /\ caller = [c \in Clients |-> NoCaller]
    /\ forced = 0

-----------------------------------------------------------------------------
CacheFresh == ~force /\ cache.age < TTL

\* The cached result as a caller is given it.
Given(c) == caller' = [caller EXCEPT ![c].pc = "told",
                       ![c].got = cache.began, ![c].beside = refresh \in caller[c].asked..MaxForced]

\* probe: the fast path needs neither the lock nor the network.
ProbeCached(c) ==
    /\ caller[c].pc = "probe" /\ CacheFresh
    /\ Given(c)
    /\ UNCHANGED <<cache, force, lock, refresh, forced>>

\* The slow path queues for the lock.
ProbeWaits(c) ==
    /\ caller[c].pc = "probe" /\ ~CacheFresh
    /\ caller' = [caller EXCEPT ![c].pc = "wait"]
    /\ lock' = Append(lock, c)
    /\ UNCHANGED <<cache, force, refresh, forced>>

Holds(c) == caller[c].pc = "wait" /\ lock # <<>> /\ Head(lock) = c

\* With the lock: another caller may have refreshed meanwhile.
ProbeShares(c) ==
    /\ Holds(c) /\ refresh = NoRefresh /\ CacheFresh
    /\ Given(c)
    /\ lock' = Tail(lock)
    /\ UNCHANGED <<cache, force, refresh, forced>>

\* The flag is cleared where the refresh begins.
RefreshBegins(c) ==
    /\ Holds(c) /\ refresh = NoRefresh /\ ~CacheFresh
    /\ force' = FALSE
    /\ refresh' = forced
    /\ UNCHANGED <<cache, lock, caller, forced>>

\* Mutant of RefreshEnds: the flag is cleared where the refresh ends.
ClearsAtEnd(c) ==
    /\ Holds(c) /\ refresh # NoRefresh
    /\ cache' = [age |-> 0, began |-> refresh]
    /\ refresh' = NoRefresh
    /\ lock' = Tail(lock)
    /\ caller' = [caller EXCEPT ![c].pc = "told", ![c].got = refresh]
    /\ force' = FALSE
    /\ UNCHANGED forced

\* Whether the heartbeat answered with 2xx and the cache's header, did not, or the
\* request failed: a result and its time are written, and the lock is released.
RefreshEnds(c) ==
    /\ Holds(c) /\ refresh # NoRefresh
    /\ cache' = [age |-> 0, began |-> refresh]
    /\ refresh' = NoRefresh
    /\ lock' = Tail(lock)
    /\ caller' = [caller EXCEPT ![c].pc = "told", ![c].got = refresh]
    /\ UNCHANGED <<force, forced>>

Invalidate ==
    /\ forced < MaxForced
    /\ force' = TRUE /\ forced' = forced + 1
    /\ UNCHANGED <<cache, lock, refresh, caller>>

Ages ==
    /\ cache.age < TTL
    /\ cache' = [cache EXCEPT !.age = @ + 1]
    /\ UNCHANGED <<force, lock, refresh, caller, forced>>

ProbeStep(c) == \/ ProbeCached(c) \/ ProbeWaits(c) \/ ProbeShares(c)
                \/ RefreshBegins(c) \/ RefreshEnds(c)

-----------------------------------------------------------------------------
ProbeTypeOK ==
    /\ cache \in [age : 0..Never, began : 0..MaxForced]
    /\ force \in BOOLEAN /\ refresh \in 0..NoRefresh /\ forced \in 0..MaxForced
    /\ lock \in Seq(Clients)
    /\ caller \in [Clients -> [pc : {"idle", "probe", "wait", "told"}, asked : 0..MaxForced,
                               got : 0..MaxForced, beside : BOOLEAN]]

\* An invalidation is never swallowed: a probe that begins after it is answered
\* with a refresh that began after it, unless it was answered while such a
\* refresh was under way (heartbeat.py:86-95).
InvalidationLands ==
    \A c \in Clients : caller[c].pc = "told" =>
        caller[c].got >= caller[c].asked \/ caller[c].beside
=============================================================================
