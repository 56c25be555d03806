----------------------------- MODULE ReaderPool -----------------------------
(***************************************************************************)
(* The readers of the connection pool (db/pool.py): a bounded queue of     *)
(* connections, a checkout that waits for one no longer than a timeout,    *)
(* the background replacement of a connection lost to a disk fault, its    *)
(* storm guard, and the healing of a lost slot by a reader that found the  *)
(* queue exhausted.  The writer is in module WriterConn.                   *)
(***************************************************************************)
EXTENDS Integers, Sequences, FiniteSets

CONSTANTS
    N,           \* readers_count
    Clients,     \* coroutines that read
    StormLimit,  \* replacements per minute beyond which one gives up (3 in the code)
    MaxFaults    \* bound: queries and opens that fail

ASSUME ReaderAssumption ==
    /\ N \in Nat \ {0} /\ IsFiniteSet(Clients)
    /\ {StormLimit, MaxFaults} \subseteq Nat

VARIABLES
    state,     \* Pool._state; "draining" is the second loop of the teardown
    cursor,    \* the teardown's place in slots
    queue,     \* Pool._readers: idle connections, at most N
    slots,     \* Pool._reader_pool
    healthy,   \* Pool._reader_healthy; 0 stands for the key -1
    lost,      \* Pool._lost_reader_slots
    client,    \* per coroutine, where it is and the connection it holds
    repl,      \* the replacement tasks: the connection lost, its slot, a pc
    recent,    \* replacements of the last 60 seconds
    open,      \* connections opened and not closed
    opened,    \* connections opened so far
    faults

vars == <<state, cursor, queue, slots, healthy, lost, client, repl, recent,
          open, opened, faults>>

Slots == 1 .. N

None == 0

\* What list.index did not find: Python's index -1, the last element.
NotFound == 0

Idle == [pc |-> "idle", conn |-> None]

Init ==
    /\ state = "ready" /\ cursor = 1
    /\ queue = [i \in Slots |-> i] /\ slots = [i \in Slots |-> i]
    /\ healthy = [i \in 0 .. N |-> i # NotFound]
    /\ lost = 0
    /\ client = [c \in Clients |-> Idle]
    /\ repl = {} /\ recent = 0
    /\ open = Slots /\ opened = N /\ faults = 0

Fault == faults < MaxFaults /\ faults' = faults + 1

Fresh == opened + 1

OpenFresh == opened' = Fresh /\ open' = open \cup {Fresh}

Goto(c, pc, conn) == client' = [client EXCEPT ![c] = [pc |-> pc, conn |-> conn]]

\* put_nowait: a connection that finds the queue full is dropped.
Put(conn) == queue' = IF Len(queue) < N THEN Append(queue, conn) ELSE queue

-----------------------------------------------------------------------------
(* Checking out a reader.                                                  *)

Ask(c) ==
    /\ client[c].pc = "idle" /\ state = "ready"
    /\ Goto(c, "wait", None)
    /\ UNCHANGED <<state, cursor, queue, slots, healthy, lost, repl, recent, open, opened, faults>>

Take(c) ==
    /\ client[c].pc = "wait" /\ queue # <<>>
    /\ Goto(c, "use", Head(queue)) /\ queue' = Tail(queue)
    /\ UNCHANGED <<state, cursor, slots, healthy, lost, repl, recent, open, opened, faults>>

\* Mutant of TimeOut: only lost slots interrupt the wait.
TimeOutIfLost(c) ==
    /\ client[c].pc = "wait" /\ lost > 0
    /\ Goto(c, "timeout", None)
    /\ UNCHANGED <<state, cursor, queue, slots, healthy, lost, repl, recent, open, opened, faults>>

\* reader_acquire_timeout, which may race a release.
TimeOut(c) ==
    /\ client[c].pc = "wait"
    /\ Goto(c, "timeout", None)
    /\ UNCHANGED <<state, cursor, queue, slots, healthy, lost, repl, recent, open, opened, faults>>

\* Mutant of EnterHeal: no heal lock.
EnterHealFreely(c) ==
    /\ client[c].pc = "timeout"
    /\ IF lost > 0 THEN Goto(c, "heal", None) ELSE Goto(c, "idle", None)
    /\ UNCHANGED <<state, cursor, queue, slots, healthy, lost, repl, recent, open, opened, faults>>

\* Under the heal lock, a lost slot is healed; otherwise PoolError.
EnterHeal(c) ==
    /\ client[c].pc = "timeout"
    /\ \A d \in Clients : client[d].pc # "heal"
    /\ IF lost > 0 THEN Goto(c, "heal", None) ELSE Goto(c, "idle", None)
    /\ UNCHANGED <<state, cursor, queue, slots, healthy, lost, repl, recent, open, opened, faults>>

Unhealthy == {i \in Slots : ~healthy[i]}

FirstUnhealthy == CHOOSE i \in Unhealthy : \A j \in Unhealthy : i <= j

\* _adopt_reader: the first slot not marked healthy, or one more.
Adopt(conn) ==
    IF Unhealthy = {} THEN slots' = Append(slots, conn) /\ UNCHANGED healthy
    ELSE /\ slots' = IF FirstUnhealthy <= Len(slots)
                       THEN [slots EXCEPT ![FirstUnhealthy] = conn]
                       ELSE Append(slots, conn)
         /\ healthy' = [healthy EXCEPT ![FirstUnhealthy] = TRUE]

Heal(c) ==
    /\ client[c].pc = "heal"
    /\ OpenFresh /\ Adopt(Fresh)
    /\ lost' = lost - 1
    /\ Goto(c, "use", Fresh)
    /\ UNCHANGED <<state, cursor, queue, repl, recent, faults>>

\* PoolError; or cancelled, in any await of the checkout.  An open that does not
\* complete may leave a connection that nobody owns.
HealFails(c) ==
    /\ client[c].pc = "heal" /\ Fault
    /\ Goto(c, "idle", None)
    /\ OpenFresh \/ UNCHANGED <<open, opened>>
    /\ UNCHANGED <<state, cursor, queue, slots, healthy, lost, repl, recent>>

Leave(c) ==
    /\ client[c].pc \in {"wait", "timeout"}
    /\ Goto(c, "idle", None)
    /\ UNCHANGED <<state, cursor, queue, slots, healthy, lost, repl, recent, open, opened, faults>>

\* The read returned, raised something else than a loss, or was cancelled.
Release(c) ==
    /\ client[c].pc = "use"
    /\ Put(client[c].conn) /\ Goto(c, "idle", None)
    /\ UNCHANGED <<state, cursor, slots, healthy, lost, repl, recent, open, opened, faults>>

Places(conn) == {i \in DOMAIN slots : slots[i] = conn}

\* A connection is new when it takes a slot, so no two slots hold the same one.
IndexOf(conn) ==
    IF Places(conn) = {} THEN NotFound ELSE CHOOSE i \in Places(conn) : TRUE

\* A disk I/O error: the reader is not returned, a replacement is spawned.
Lose(c) ==
    /\ client[c].pc = "use" /\ Fault
    /\ repl' = repl \cup {[old |-> client[c].conn, idx |-> IndexOf(client[c].conn), pc |-> "mark"]}
    /\ Goto(c, "idle", None)
    /\ UNCHANGED <<state, cursor, queue, slots, healthy, lost, recent, open, opened>>

-----------------------------------------------------------------------------
(* _replace_connection(role = "reader"), a background task.                *)

\* Mutant of Mark: the flag is left alone.
MarkSilently(r) ==
    /\ r.pc = "mark"
    /\ recent' = recent + 1
    /\ IF recent + 1 > StormLimit
         THEN /\ repl' = repl \ {r} /\ lost' = lost + 1 /\ UNCHANGED open
         ELSE /\ repl' = (repl \ {r}) \cup {[r EXCEPT !.pc = "open"]}
              /\ open' = open \ {r.old} /\ UNCHANGED lost
    /\ UNCHANGED <<state, cursor, queue, slots, healthy, client, opened, faults>>

\* More than StormLimit in a minute: the slot is lost, the connection left as it
\* is.  Otherwise the connection is closed in the background.
Mark(r) ==
    /\ r.pc = "mark"
    /\ healthy' = [healthy EXCEPT ![r.idx] = FALSE]
    /\ recent' = recent + 1
    /\ IF recent + 1 > StormLimit
         THEN /\ repl' = repl \ {r} /\ lost' = lost + 1 /\ UNCHANGED open
         ELSE /\ repl' = (repl \ {r}) \cup {[r EXCEPT !.pc = "open"]}
              /\ open' = open \ {r.old} /\ UNCHANGED lost
    /\ UNCHANGED <<state, cursor, queue, slots, client, opened, faults>>

ReplFails(r) ==
    /\ r.pc = "open" /\ Fault
    /\ repl' = repl \ {r} /\ lost' = lost + 1
    /\ OpenFresh \/ UNCHANGED <<open, opened>>
    /\ UNCHANGED <<state, cursor, queue, slots, healthy, client, recent>>

\* The new connection takes the slot and, unless the queue is full, joins it.
\* After the teardown there is no slot to take and the task fails.
Replace(r) ==
    /\ r.pc = "open" /\ repl' = repl \ {r}
    /\ OpenFresh
    /\ LET i == IF r.idx = NotFound THEN Len(slots) ELSE r.idx IN
         IF i \in DOMAIN slots
           THEN /\ slots' = [slots EXCEPT ![i] = Fresh]
                /\ Put(Fresh)
                /\ healthy' = [healthy EXCEPT ![r.idx] = @ \/ Len(queue) < N]
           ELSE UNCHANGED <<slots, queue, healthy>>
    /\ UNCHANGED <<state, cursor, lost, client, recent, faults>>

\* A replacement leaves the 60-second window.
Expire ==
    /\ recent > 0 /\ recent' = recent - 1
    /\ UNCHANGED <<state, cursor, queue, slots, healthy, lost, client, repl, open, opened, faults>>

-----------------------------------------------------------------------------
(* Pool.close and _teardown_connections: close every slot, then what is    *)
(* left in the queue, with an await at each.                               *)

Close ==
    /\ state = "ready" /\ state' = "closing"
    /\ UNCHANGED <<cursor, queue, slots, healthy, lost, client, repl, recent, open, opened, faults>>

CloseSlot ==
    /\ state = "closing"
    /\ IF cursor <= Len(slots)
         THEN /\ open' = open \ {slots[cursor]} /\ cursor' = cursor + 1
              /\ UNCHANGED <<state, slots>>
         ELSE /\ slots' = <<>> /\ state' = "draining"
              /\ UNCHANGED <<open, cursor>>
    /\ UNCHANGED <<queue, healthy, lost, client, repl, recent, opened, faults>>

Drain ==
    /\ state = "draining"
    /\ IF queue # <<>>
         THEN queue' = Tail(queue) /\ open' = open \ {Head(queue)} /\ UNCHANGED state
         ELSE state' = "closed" /\ UNCHANGED <<queue, open>>
    /\ UNCHANGED <<cursor, slots, healthy, lost, client, repl, recent, opened, faults>>

-----------------------------------------------------------------------------

Next ==
    \/ \E c \in Clients : \/ Ask(c) \/ Take(c) \/ TimeOut(c) \/ EnterHeal(c) \/ Heal(c)
                          \/ HealFails(c) \/ Leave(c) \/ Release(c) \/ Lose(c)
    \/ \E r \in repl : Mark(r) \/ ReplFails(r) \/ Replace(r)
    \/ Expire \/ Close \/ CloseSlot \/ Drain

Spec == Init /\ [][Next]_vars

\* The timer fires, the heal lock is FIFO, an open returns or raises; nobody is
\* owed a release.
ReaderFairness ==
    \A c \in Clients : /\ WF_vars(TimeOut(c)) /\ SF_vars(EnterHeal(c))
                       /\ WF_vars(Heal(c) \/ HealFails(c))

-----------------------------------------------------------------------------
(* Properties.                                                             *)

InUse == {c \in Clients : client[c].pc = "use"}

TypeOK ==
    /\ state \in {"ready", "closing", "draining", "closed"} /\ cursor \in Nat
    /\ queue \in Seq(Nat \ {None}) /\ slots \in Seq(Nat \ {None})
    /\ healthy \in [0 .. N -> BOOLEAN] /\ lost \in Nat
    /\ client \in [Clients -> [pc : {"idle", "wait", "timeout", "heal", "use"}, conn : Nat]]
    /\ repl \subseteq [old : Nat, idx : Nat, pc : {"mark", "open"}]
    /\ recent \in Nat /\ open \subseteq Nat /\ opened \in Nat /\ faults \in Nat

\* pool.py:830-921 and 970-1057: no reader slot is ever gained or forgotten.  A
\* connection that is idle or in use, a running replacement or a slot counted as
\* lost: together always readers_count, so a release never finds the queue full.
SlotsConserved ==
    state \in {"ready", "closing"} =>
        Len(queue) + Cardinality(InUse) + Cardinality(repl) + lost = N

\* No connection is in two hands: idle twice, used by two readers, idle while it
\* is used, or back in circulation after it was lost.
HeldOnce ==
    /\ \A i, j \in DOMAIN queue : queue[i] = queue[j] => i = j
    /\ \A c, d \in InUse : client[c].conn = client[d].conn => c = d
    /\ \A i \in DOMAIN queue : /\ \A c \in InUse : client[c].conn # queue[i]
                               /\ \A r \in repl : r.old # queue[i]

\* pool.py:1314-1330, health.py:53-57: /health never reports every reader healthy
\* while a slot is lost or its replacement is under way.
GreenIsWhole ==
    (state = "ready" /\ Unhealthy = {}) => lost = 0 /\ \A r \in repl : r.pc = "mark"

\* pool.py:830-868: a read never hangs on an exhausted pool; it gets a connection
\* or its caller gets a PoolError, though nobody ever returns a reader.
ReadsAnswered ==
    \A c \in Clients : (client[c].pc = "wait") ~> (client[c].pc \in {"use", "idle"})

=============================================================================
