----------------------------- MODULE CacheGuard -----------------------------
(***************************************************************************)
(* The cache guard (tools/cache_catcher): one thread reads the filesystem  *)
(* events and alerts on mass deletions and on files made unreadable, a     *)
(* second pushes both monitors on a clock (a third is KeyBudget).  They    *)
(* share the times of the last alerts, and each push may be lost.  Uptime  *)
(* Kuma (external) shows what it was told last.                            *)
(* Times are ages in units of the liveness interval; a push or an email    *)
(* takes seconds, so that the clock waits for whoever is due.              *)
(***************************************************************************)
EXTENDS KeyBudget

CONSTANTS
    Threshold, \* EVICT_THRESHOLD and PURGE_THRESHOLD
    Window,    \* EVICT_WINDOW
    Cooldown,  \* COOLDOWN
    Latch,     \* EVICT_LATCH_SEC
    MaxEvents, \* bound: events over all
    MaxLost    \* bound: pushes that do not arrive, and restarts

ASSUME GuardAssumption ==
    /\ {Threshold, Window, Cooldown, Latch, MaxEvents, MaxLost} \subseteq Nat
    /\ 0 < Threshold /\ Window < Cooldown /\ Cooldown <= Latch

VARIABLES
    events,    \* fanotify's queue
    evictTs,   \* _evict_ts: ages, oldest first
    purgeTs,   \* _purge_ts
    lastSent,  \* _last_sent: the age of the last alert of each kind
    guard,     \* what the thread that reads events has in hand
    liveness,  \* where liveness_loop stands
    monitor,   \* the eviction monitor: what it was told last
    loss,      \* history: "untold" once objects were lost en masse, until the monitor hears
    used, lost

guardVars == <<events, evictTs, purgeTs, lastSent, guard, liveness, monitor, loss, used, lost>>

EvictAlertKinds == {"eviction", "mode000"}

AlertKinds == EvictAlertKinds \cup {"purge"}

Never == Latch + 1

Old == Latch \* and older

\* By whom a file goes, or what else happens to it.
EventKinds == {"nginx", "agent", "gone", "unreadable", "noise"}

NoAlert == [pc |-> "idle", kind |-> {}]

GuardInit ==
    /\ events = <<>> /\ evictTs = <<>> /\ purgeTs = <<>>
    /\ lastSent = [k \in AlertKinds |-> Never]
    /\ guard = NoAlert /\ liveness = [pc |-> "due", status |-> {}]
    /\ monitor = "silent" /\ loss = "none" /\ used = 0 /\ lost = 0

Dropped == lost < MaxLost /\ lost' = lost + 1

\* kuma.push to the eviction monitor: it arrives or it does not.
Pushed(status) ==
    \/ /\ monitor' = status
       /\ loss' = IF status = "down" /\ loss = "untold" THEN "past" ELSE loss
       /\ UNCHANGED lost
    \/ Dropped /\ UNCHANGED <<monitor, loss>>

-----------------------------------------------------------------------------
(* The filesystem.                                                         *)

Happens(kind) ==
    /\ used < MaxEvents /\ used' = used + 1
    /\ events' = Append(events, kind)
    /\ UNCHANGED <<evictTs, purgeTs, lastSent, guard, liveness, monitor, loss, lost>>

-----------------------------------------------------------------------------
(* The thread that reads events.                                           *)

Drop(kind) == /\ guard.pc = "idle" /\ events # <<>> /\ Head(events) = kind
              /\ events' = Tail(events)

\* Now is appended, and the head is dropped while it is older than the window.
Recent(ts) ==
    LET all == Append(ts, 0)
        kept == {i \in DOMAIN all : all[i] <= Window}
    IN  SubSeq(all, CHOOSE i \in kept : \A j \in kept : i <= j, Len(all))

\* Mutant of CountsTowardEviction: every deletion does, a commanded purge too.
EveryoneCounts(actor) == actor = actor

\* classify_actor and counts_toward_eviction: whoever is not known to be the
\* agent counts, also a process that is gone.
CountsTowardEviction(actor) == actor # "agent"

\* alert(): the cooldown of its kind, the stamp, and then the email.
Alerted(kind) ==
    IF lastSent[kind] < Cooldown THEN UNCHANGED <<lastSent, guard>>
    ELSE /\ lastSent' = [lastSent EXCEPT ![kind] = 0]
         /\ guard' = [pc |-> "email", kind |-> {kind}]

DeleteCounts(actor) ==
    LET ts == Recent(evictTs)
    IN /\ Drop(actor) /\ actor \in {"nginx", "gone", "agent"} /\ CountsTowardEviction(actor)
       /\ evictTs' = ts
       /\ IF Len(ts) >= Threshold THEN Alerted("eviction") ELSE UNCHANGED <<lastSent, guard>>
       /\ loss' = IF actor # "agent" /\ Len(ts) >= Threshold THEN "untold" ELSE loss
       /\ UNCHANGED <<purgeTs, liveness, monitor, used, lost>>

\* A commanded purge has a count and a cooldown of its own.
DeleteIsPurge(actor) ==
    LET ts == Recent(purgeTs)
    IN /\ Drop(actor) /\ actor \in {"nginx", "gone", "agent"} /\ ~CountsTowardEviction(actor)
       /\ purgeTs' = ts
       /\ IF Len(ts) >= Threshold THEN Alerted("purge") ELSE UNCHANGED <<lastSent, guard>>
       /\ loss' = IF actor # "agent" /\ Len(ts) >= Threshold THEN "untold" ELSE loss
       /\ UNCHANGED <<evictTs, liveness, monitor, used, lost>>

\* handle_attrib: not nginx, and www-data can no longer read the file.
Unreadable ==
    /\ Drop("unreadable") /\ Alerted("mode000") /\ loss' = "untold"
    /\ UNCHANGED <<evictTs, purgeTs, liveness, monitor, used, lost>>

\* A write, a name that is no cache object, nginx's own chmod, a file that is readable.
Ignored ==
    /\ Drop("noise")
    /\ UNCHANGED <<evictTs, purgeTs, lastSent, guard, liveness, monitor, loss, used, lost>>

\* The email went out or did not; only real loss is pushed.
Emailed ==
    /\ guard.pc = "email"
    /\ guard' = IF guard.kind \subseteq EvictAlertKinds THEN [guard EXCEPT !.pc = "push"]
                ELSE NoAlert
    /\ UNCHANGED <<events, evictTs, purgeTs, lastSent, liveness, monitor, loss, used, lost>>

AlertPushed ==
    /\ guard.pc = "push"
    /\ Pushed("down") /\ guard' = NoAlert
    /\ UNCHANGED <<events, evictTs, purgeTs, lastSent, liveness, used>>

-----------------------------------------------------------------------------
(* liveness_loop.                                                          *)

Latched(sent) == \E k \in EvictAlertKinds : sent[k] < Latch

\* It looks at the last alerts ...
LivenessReads ==
    /\ liveness.pc = "due"
    /\ liveness' = [pc |-> "push", status |-> {IF Latched(lastSent) THEN "down" ELSE "up"}]
    /\ UNCHANGED <<events, evictTs, purgeTs, lastSent, guard, monitor, loss, used, lost>>

\* ... and pushes what it made of them, and sleeps.
LivenessPushes ==
    /\ liveness.pc = "push"
    /\ \E status \in liveness.status : Pushed(status)
    /\ liveness' = [pc |-> "sleep", status |-> {}]
    /\ UNCHANGED <<events, evictTs, purgeTs, lastSent, guard, used>>

-----------------------------------------------------------------------------
Older(age) == IF age >= Old THEN age ELSE age + 1

\* An interval passes when nobody is at work.
GuardTick ==
    /\ guard.pc = "idle" /\ events = <<>> /\ liveness.pc = "sleep"
    /\ lastSent' = [k \in AlertKinds |-> Older(lastSent[k])]
    /\ evictTs' = [i \in DOMAIN evictTs |-> Older(evictTs[i])]
    /\ purgeTs' = [i \in DOMAIN purgeTs |-> Older(purgeTs[i])]
    /\ liveness' = [liveness EXCEPT !.pc = "due"]
    /\ UNCHANGED <<events, guard, monitor, loss, used, lost>>

\* The log cannot be written, or the container is restarted: all of it is memory.
GuardRestarts ==
    /\ Dropped
    /\ events' = <<>> /\ evictTs' = <<>> /\ purgeTs' = <<>>
    /\ lastSent' = [k \in AlertKinds |-> Never]
    /\ guard' = NoAlert /\ liveness' = [pc |-> "due", status |-> {}]
    /\ loss' = IF loss = "untold" THEN "past" ELSE loss
    /\ UNCHANGED <<monitor, used>>

GuardStep ==
    \/ \E actor \in EventKinds : DeleteCounts(actor) \/ DeleteIsPurge(actor)
    \/ Unreadable \/ Ignored \/ Emailed \/ AlertPushed

LivenessStep == LivenessReads \/ LivenessPushes

GuardNext ==
    \/ GuardStep \/ LivenessStep \/ GuardTick \/ GuardRestarts
    \/ \E kind \in EventKinds : Happens(kind)

GuardSpec == GuardInit /\ [][GuardNext]_guardVars

-----------------------------------------------------------------------------
GuardTypeOK ==
    /\ events \in Seq(EventKinds) /\ Len(events) <= used
    /\ {evictTs, purgeTs} \subseteq Seq(0..Old)
    /\ lastSent \in [AlertKinds -> 0..Never]
    /\ guard \in [pc : {"idle", "email", "push"}, kind : SUBSET AlertKinds]
    /\ liveness \in [pc : {"due", "push", "sleep"}, status : SUBSET {"up", "down"}]
    /\ monitor \in {"silent", "up", "down"} /\ loss \in {"none", "untold", "past"}
    /\ used \in 0..MaxEvents /\ lost \in 0..MaxLost

\* A loss gets told: mass deletion by anyone but the agent, and a file made
\* unreadable, get the eviction monitor pushed down, however the liveness
\* thread's reading races with the alert, unless a restart forgets, or so many
\* pushes do not arrive that the latch runs out before the cooldown lets the
\* next alert through (fanotify_guard.py:174-184, 362-375): nobody tells it then.
LossIsTold == (loss = "untold") ~> (loss = "past" \/ Cooldown + lost >= Latch)

\* What it rests on: as long as the monitor has not heard of a loss, an alert
\* stands that the liveness thread will read, unless as many pushes got lost
\* as the latch outlasts the cooldown.
StandsUntilTold == loss = "untold" /\ Cooldown + lost < Latch => Latched(lastSent)

\* No wolf is cried: without a loss the monitor is never down.
NoFalseAlarm == monitor = "down" => loss # "none"

AlarmTellsLoss == LossIsTold /\ [](StandsUntilTold /\ NoFalseAlarm) /\ GreenIsRoom
=============================================================================
