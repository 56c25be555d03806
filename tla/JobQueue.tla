------------------------------ MODULE JobQueue ------------------------------
(***************************************************************************)
(* The durable job queue of the orchestrator: the `jobs` table, the single *)
(* worker loop that drains it, the HTTP triggers and the scheduler ticks   *)
(* that fill it, the Uptime-Kuma heartbeat that reports on it, and what a  *)
(* stop, a crash and the boot reaper do to it.                             *)
(*                                                                         *)
(* A job is named by its dedupe key <<kind, scope>>: the column(s) of the  *)
(* partial UNIQUE index that covers its kind (game_id, platform, or the    *)
(* kind alone).  One SQL statement, or one write transaction, is one step; *)
(* a handler of several statements is as many steps, and everybody else    *)
(* may run between them.                                                   *)
(***************************************************************************)
EXTENDS Integers, Sequences, FiniteSets

CONSTANTS
    Games,        \* games.id: the scope of prefill, validate and purge
    Platforms,    \* the scope of library_sync
    Offered,      \* the keys the environment asks for in this instance
    Legacy,       \* queued rows of a retired kind an upgraded database may hold
    Reqs,         \* concurrent HTTP trigger requests
    NoScope,      \* the scope of sweep and fetch_manifests
    MaxJobs,      \* bound: rows the triggers and the scheduler insert
    MaxFaults,    \* bound: database calls that fail
    MaxRestarts   \* bound: crashes and stops of the process

GameKeys   == {"prefill", "validate", "purge"} \X Games
SyncKeys   == {"library_sync"} \X Platforms
GlobalKeys == {"sweep", "fetch_manifests"} \X {NoScope}

\* The registry of jobs/handlers: every kind the worker can dispatch.
Handled == GameKeys \cup SyncKeys \cup GlobalKeys

Keys == Handled \cup Legacy

ASSUME JobQueueAssumption ==
    /\ Offered \subseteq Handled
    /\ Legacy \cap Handled = {}
    /\ {MaxJobs, MaxFaults, MaxRestarts} \subseteq Nat

VARIABLES
    jobs,       \* the jobs table, in id order (AUTOINCREMENT)
    worker,     \* the worker task: program counter and the row it claimed
    reqs,       \* per request: program counter, what was asked, the answer
    proc,       \* the process: "down", "boot", "up" or "stopping"
    kuma,       \* per monitored kind, the last heartbeat Kuma received
    faults,     \* failed database calls so far
    restarts,   \* crashes and stops so far
    returned    \* history: the ids whose handler returned normally

vars == <<jobs, worker, reqs, proc, kuma, faults, restarts, returned>>

Kind(key) == key[1]

Monitored == {"prefill", "library_sync", "sweep", "fetch_manifests"}

Live     == {"queued", "running"}
Terminal == {"succeeded", "failed"}

\* `flag` stands for the payload: {"force": true} of a prefill, {"full": true}
\* of a sweep.
Row == [key : Keys, flag : BOOLEAN, source : {"scheduler", "api"},
        state : Live \cup Terminal]

NewRow(key, flag, source) ==
    [key |-> key, flag |-> flag, source |-> source, state |-> "queued"]

\* The rows the partial UNIQUE indexes see.
Open(key) == {i \in DOMAIN jobs : jobs[i].key = key /\ jobs[i].state \in Live}

\* INSERT ... ON CONFLICT DO NOTHING.
Insert(key, flag, source) ==
    jobs' = IF Open(key) = {} THEN Append(jobs, NewRow(key, flag, source))
                              ELSE jobs

\* UPDATE jobs SET state = s WHERE id = i AND state = 'running'.
Mark(i, s) ==
    jobs' = IF jobs[i].state = "running" THEN [jobs EXCEPT ![i].state = s]
                                         ELSE jobs

\* A request: where it is, what it asked for, the row it holds, its answer.
Codes == {0, 202, 503}

Req == [pc : {"idle", "check", "upgrade", "insert", "reread", "answered"},
        key : Keys, flag : BOOLEAN, id : Nat, code : Codes]

IdleReq == [pc |-> "idle", key |-> <<"sweep", NoScope>>, flag |-> FALSE,
            id |-> 0, code |-> 0]

MarkAttempts == 3

\* The worker: where it is, the row it claimed with the payload it read, what
\* the handler did so far, and the attempts to record the outcome.
Worker == [pc : {"off", "idle", "run", "mark", "reject", "beat", "dead"},
           job : Nat, flag : BOOLEAN, enqueued : BOOLEAN,
           ok : BOOLEAN, tries : 0 .. MarkAttempts - 1]

\* No job in hand; pc tells an absent task from one at the head of its loop.
NoJob(pc) == [pc |-> pc, job |-> 0, flag |-> FALSE, enqueued |-> FALSE,
              ok |-> FALSE, tries |-> 0]

Init ==
    /\ jobs \in {<<>>} \cup {<<NewRow(k, FALSE, "api")>> : k \in Legacy}
    /\ worker = NoJob("off")
    /\ reqs = [r \in Reqs |-> IdleReq]
    /\ proc = "down"
    /\ kuma = [k \in Monitored |-> "none"]
    /\ faults = 0
    /\ restarts = 0
    /\ returned = {}

\* A database call that fails: a PoolError reaches the caller.
Fault == faults < MaxFaults /\ faults' = faults + 1

ActiveReqs == Cardinality({r \in Reqs : reqs[r].pc # "idle"})

\* Bound: room for n more rows beside those the open requests may insert.
Room(n) == Len(jobs) + ActiveReqs + n <= MaxJobs

-----------------------------------------------------------------------------
(* The scheduler's callbacks: one statement each, only while it runs.      *)

Tick(key) ==
    /\ proc = "up" /\ Room(1)
    /\ Insert(key, FALSE, "scheduler")
    /\ UNCHANGED <<worker, reqs, proc, kuma, faults, restarts, returned>>

\* One bulk INSERT ... SELECT: the eligible games without a prefill in flight.
\* Which games are eligible depends on their measured status, so any may be.
TickPrefill ==
    /\ proc = "up"
    /\ LET free == {g \in Games : /\ <<"prefill", g>> \in Offered
                                  /\ Open(<<"prefill", g>>) = {}}
       IN \E n \in 0 .. MaxJobs : \E order \in [1 .. n -> free] :
            /\ n > 0 => Room(n)
            /\ \A i, j \in 1 .. n : order[i] = order[j] => i = j
            /\ jobs' = jobs \o [i \in 1 .. n |->
                          NewRow(<<"prefill", order[i]>>, FALSE, "scheduler")]
    /\ UNCHANGED <<worker, reqs, proc, kuma, faults, restarts, returned>>

\* Epic sign-in queues a library_sync without reading it back.
EpicAuth(p) ==
    /\ proc = "up" /\ Room(1) /\ <<"library_sync", p>> \in Offered
    /\ Insert(<<"library_sync", p>>, FALSE, "api")
    /\ UNCHANGED <<worker, reqs, proc, kuma, faults, restarts, returned>>

-----------------------------------------------------------------------------
(* The HTTP triggers.  A per-game trigger reads the in-flight row first;   *)
(* the others insert at once and then read.                                *)

Answered(q, code, id) ==
    [q EXCEPT !.pc = "answered", !.code = code, !.id = id]

Answer(r, code, id) == reqs' = [reqs EXCEPT ![r] = Answered(@, code, id)]

Goto(r, pc) == reqs' = [reqs EXCEPT ![r] = [@ EXCEPT !.pc = pc]]

Request(r, key, flag) ==
    /\ proc = "up" /\ reqs[r].pc = "idle" /\ Room(1)
    /\ flag => Kind(key) \in {"prefill", "sweep"}
    /\ reqs' = [reqs EXCEPT ![r] =
                  [IdleReq EXCEPT !.key = key, !.flag = flag,
                     !.pc = IF key \in GameKeys THEN "check" ELSE "insert"]]
    /\ UNCHANGED <<jobs, worker, proc, kuma, faults, restarts, returned>>

\* SELECT ... WHERE state IN ('queued','running') ORDER BY id LIMIT 1.
OldestOpen(key) == CHOOSE i \in Open(key) : \A j \in Open(key) : i <= j

CheckMiss(r) ==
    /\ reqs[r].pc = "check" /\ Open(reqs[r].key) = {}
    /\ Goto(r, "insert")
    /\ UNCHANGED <<jobs, worker, proc, kuma, faults, restarts, returned>>

\* Whether the row read must be upgraded to a forced prefill.
Upgradable(r, i) ==
    /\ Kind(reqs[r].key) = "prefill" /\ reqs[r].flag
    /\ jobs[i].state = "queued" /\ ~jobs[i].flag

CheckHit(r) ==
    /\ reqs[r].pc = "check" /\ Open(reqs[r].key) # {}
    /\ LET i == OldestOpen(reqs[r].key) IN
         IF Upgradable(r, i)
           THEN reqs' = [reqs EXCEPT ![r] = [@ EXCEPT !.pc = "upgrade", !.id = i]]
           ELSE Answer(r, 202, i)
    /\ UNCHANGED <<jobs, worker, proc, kuma, faults, restarts, returned>>

\* Mutant of Upgrade: no AND state = 'queued'.
UpgradeAnyState(r) ==
    /\ reqs[r].pc = "upgrade"
    /\ jobs' = [jobs EXCEPT ![reqs[r].id].flag = TRUE]
    /\ Answer(r, 202, reqs[r].id)
    /\ UNCHANGED <<worker, proc, kuma, faults, restarts, returned>>

\* UPDATE jobs SET payload = force WHERE id = ? AND state = 'queued': the
\* worker may have claimed the row since it was read.
Upgrade(r) ==
    /\ reqs[r].pc = "upgrade"
    /\ LET i == reqs[r].id IN
         /\ jobs' = IF jobs[i].state = "queued"
                      THEN [jobs EXCEPT ![i].flag = TRUE] ELSE jobs
         /\ Answer(r, 202, i)
    /\ UNCHANGED <<worker, proc, kuma, faults, restarts, returned>>

InsertRow(r) ==
    /\ reqs[r].pc = "insert"
    /\ Insert(reqs[r].key, reqs[r].flag, "api")
    /\ Goto(r, "reread")
    /\ UNCHANGED <<worker, proc, kuma, faults, restarts, returned>>

Reread(r) ==
    /\ reqs[r].pc = "reread"
    /\ IF Open(reqs[r].key) = {} THEN Answer(r, 503, 0)
                                 ELSE Answer(r, 202, OldestOpen(reqs[r].key))
    /\ UNCHANGED <<jobs, worker, proc, kuma, faults, restarts, returned>>

\* A failing statement ends the request with 503, except that the helper that
\* inserts a sweep or a fetch_manifests swallows it and the read still follows.
RequestFault(r) ==
    /\ reqs[r].pc \in {"check", "upgrade", "insert", "reread"}
    /\ Fault
    /\ IF reqs[r].pc = "insert" /\ reqs[r].key \in GlobalKeys
         THEN Goto(r, "reread")
         ELSE Answer(r, 503, 0)
    /\ UNCHANGED <<jobs, worker, proc, kuma, restarts, returned>>

Reply(r) ==
    /\ reqs[r].pc = "answered"
    /\ reqs' = [reqs EXCEPT ![r] = IdleReq]
    /\ UNCHANGED <<jobs, worker, proc, kuma, faults, restarts, returned>>

RequestStep(r) ==
    \/ CheckMiss(r) \/ CheckHit(r) \/ Upgrade(r) \/ InsertRow(r) \/ Reread(r)
    \/ Reply(r)

-----------------------------------------------------------------------------
(* The worker loop.                                                        *)

Queued == {i \in DOMAIN jobs : jobs[i].state = "queued"}

\* Mutant of Claim: ORDER BY id DESC.
ClaimNewest ==
    /\ worker.pc = "idle" /\ proc = "up"
    /\ \E i \in Queued :
         /\ \A j \in Queued : j <= i
         /\ jobs' = [jobs EXCEPT ![i].state = "running"]
         /\ worker' = [NoJob(IF jobs[i].key \in Handled THEN "run" ELSE "reject")
                         EXCEPT !.job = i, !.flag = jobs[i].flag]
    /\ UNCHANGED <<reqs, proc, kuma, faults, restarts, returned>>

\* claim_next_job, one write transaction; a kind without a handler goes to the
\* branch that marks it failed outside any try.
Claim ==
    /\ worker.pc = "idle" /\ proc = "up"
    /\ \E i \in Queued :
         /\ \A j \in Queued : i <= j
         /\ jobs' = [jobs EXCEPT ![i].state = "running"]
         /\ worker' = [NoJob(IF jobs[i].key \in Handled THEN "run" ELSE "reject")
                         EXCEPT !.job = i, !.flag = jobs[i].flag]
    /\ UNCHANGED <<reqs, proc, kuma, faults, restarts, returned>>

\* Nothing queued, or the claim failed: sleep for the poll interval.
Poll ==
    /\ worker.pc = "idle" /\ proc = "up"
    /\ UNCHANGED vars

\* A prefill that fetched its content queues the validate that measures it.
EnqueueValidate ==
    /\ worker.pc = "run" /\ ~worker.enqueued
    /\ LET key == jobs[worker.job].key IN
         /\ Kind(key) = "prefill"
         /\ Insert(<<"validate", key[2]>>, FALSE, "scheduler")
    /\ worker' = [worker EXCEPT !.enqueued = TRUE]
    /\ UNCHANGED <<reqs, proc, kuma, faults, restarts, returned>>

HandlerReturns ==
    /\ worker.pc = "run"
    /\ Kind(jobs[worker.job].key) = "prefill" => worker.enqueued
    /\ worker' = [worker EXCEPT !.pc = "mark", !.ok = TRUE]
    /\ returned' = returned \cup {worker.job}
    /\ UNCHANGED <<jobs, reqs, proc, kuma, faults, restarts>>

\* Mutant of HandlerRaises: the except branch forgets the error.
RaiseSwallowed ==
    /\ worker.pc = "run"
    /\ worker' = [worker EXCEPT !.pc = "mark", !.ok = TRUE]
    /\ UNCHANGED <<jobs, reqs, proc, kuma, faults, restarts, returned>>

\* An exception, a failed statement of the handler's own, or the runtime budget.
HandlerRaises ==
    /\ worker.pc = "run"
    /\ worker' = [worker EXCEPT !.pc = "mark", !.ok = FALSE]
    /\ UNCHANGED <<jobs, reqs, proc, kuma, faults, restarts, returned>>

MarkJob ==
    /\ worker.pc \in {"mark", "reject"}
    /\ Mark(worker.job, IF worker.ok THEN "succeeded" ELSE "failed")
    /\ worker' = IF worker.pc = "mark" THEN [worker EXCEPT !.pc = "beat"]
                                       ELSE NoJob("idle")
    /\ UNCHANGED <<reqs, proc, kuma, faults, restarts, returned>>

MarkRetry ==
    /\ worker.pc \in {"mark", "reject"} /\ worker.tries < MarkAttempts - 1
    /\ Fault
    /\ worker' = [worker EXCEPT !.tries = @ + 1]
    /\ UNCHANGED <<jobs, reqs, proc, kuma, restarts, returned>>

\* Mutant of MarkGivesUp: every exhausted retry ends the task.
GiveUpFatal ==
    /\ worker.pc \in {"mark", "reject"} /\ worker.tries = MarkAttempts - 1
    /\ Fault
    /\ worker' = NoJob("dead")
    /\ UNCHANGED <<jobs, reqs, proc, kuma, restarts, returned>>

\* The last attempt failed: a succeeded job is dropped without a heartbeat, a
\* failed one still beats, and on the no-handler branch the exception leaves
\* the loop and ends the task.
MarkGivesUp ==
    /\ worker.pc \in {"mark", "reject"} /\ worker.tries = MarkAttempts - 1
    /\ Fault
    /\ worker' = CASE worker.pc = "reject" -> NoJob("dead")
                   [] worker.pc = "mark" /\ worker.ok -> NoJob("idle")
                   [] OTHER -> [worker EXCEPT !.pc = "beat"]
    /\ UNCHANGED <<jobs, reqs, proc, kuma, restarts, returned>>

\* Mutant of Heartbeat: a manual run beats too.
HeartbeatAnySource ==
    /\ worker.pc = "beat"
    /\ worker' = NoJob("idle")
    /\ LET k == Kind(jobs[worker.job].key) IN
         IF k \in Monitored
           THEN kuma' = [kuma EXCEPT ![k] = IF worker.ok THEN "up" ELSE "down"]
           ELSE UNCHANGED kuma
    /\ UNCHANGED <<jobs, reqs, proc, faults, restarts, returned>>

\* Only a job the scheduler queued reaches its monitor; a handler's summary may
\* turn a success into "down", and the push may be lost.
Heartbeat ==
    /\ worker.pc = "beat"
    /\ worker' = NoJob("idle")
    /\ LET row == jobs[worker.job]
           k   == Kind(row.key)
       IN IF row.source = "scheduler" /\ k \in Monitored
            THEN \E s \in {kuma[k], "down"} \cup (IF worker.ok THEN {"up"} ELSE {}) :
                   kuma' = [kuma EXCEPT ![k] = s]
            ELSE UNCHANGED kuma
    /\ UNCHANGED <<jobs, reqs, proc, faults, restarts, returned>>

-----------------------------------------------------------------------------
(* The process: boot, stop, crash.                                         *)

Start ==
    /\ proc = "down" /\ proc' = "boot"
    /\ UNCHANGED <<jobs, worker, reqs, kuma, faults, restarts, returned>>

\* Mutant of Reap: it reaps nothing.
ReapNothing ==
    /\ proc = "boot" /\ proc' = "up"
    /\ worker' = NoJob("idle")
    /\ UNCHANGED <<jobs, reqs, kuma, faults, restarts, returned>>

\* reap_running_jobs, then the worker and the scheduler start.
Reap ==
    /\ proc = "boot" /\ proc' = "up"
    /\ jobs' = [i \in DOMAIN jobs |->
                  IF jobs[i].state = "running"
                    THEN [jobs[i] EXCEPT !.state = "failed"] ELSE jobs[i]]
    /\ worker' = NoJob("idle")
    /\ UNCHANGED <<reqs, kuma, faults, restarts, returned>>

\* A failed reap is logged and the boot goes on.
ReapFault ==
    /\ proc = "boot" /\ proc' = "up"
    /\ Fault
    /\ worker' = NoJob("idle")
    /\ UNCHANGED <<jobs, reqs, kuma, restarts, returned>>

\* Requests have drained; the scheduler stops and the shutdown event is set.
Stop ==
    /\ proc = "up" /\ restarts < MaxRestarts
    /\ ActiveReqs = 0
    /\ proc' = "stopping" /\ restarts' = restarts + 1
    /\ UNCHANGED <<jobs, worker, reqs, kuma, faults, returned>>

\* The worker left its loop, or the join timed out and the task was cancelled
\* wherever it was: either way nothing more is written.
Stopped ==
    /\ proc = "stopping" /\ proc' = "down"
    /\ worker' = NoJob("off")
    /\ UNCHANGED <<jobs, reqs, kuma, faults, restarts, returned>>

Crash ==
    /\ proc # "down" /\ restarts < MaxRestarts
    /\ proc' = "down" /\ restarts' = restarts + 1
    /\ worker' = NoJob("off")
    /\ reqs' = [r \in Reqs |-> IdleReq]
    /\ UNCHANGED <<jobs, kuma, faults, returned>>

-----------------------------------------------------------------------------

WorkerStep ==
    \/ Claim \/ Poll \/ EnqueueValidate \/ HandlerReturns \/ HandlerRaises
    \/ MarkJob \/ MarkRetry \/ MarkGivesUp \/ Heartbeat

Next ==
    \/ \E k \in Offered \ GameKeys : Tick(k)
    \/ TickPrefill
    \/ \E p \in Platforms : EpicAuth(p)
    \/ \E r \in Reqs, k \in Offered, flag \in BOOLEAN : Request(r, k, flag)
    \/ \E r \in Reqs : RequestStep(r) \/ RequestFault(r)
    \/ WorkerStep
    \/ Start \/ Reap \/ ReapFault \/ Stop \/ Stopped \/ Crash

Spec == Init /\ [][Next]_vars

\* The loop keeps turning, wait_for bounds every handler, the container is
\* restarted unless stopped; requests and ticks are never owed.
Fairness ==
    /\ WF_vars(Claim)
    /\ WF_vars(HandlerReturns \/ HandlerRaises)
    /\ WF_vars(MarkJob)
    /\ WF_vars(Heartbeat)
    /\ WF_vars(Start) /\ WF_vars(Reap) /\ WF_vars(Stopped)

FairSpec == Spec /\ Fairness

-----------------------------------------------------------------------------
(* Properties.                                                             *)

\* Every variable keeps its type: jobs is a table of well-formed rows, and the
\* worker and the requests refer to rows that exist (worker.py, the triggers).
TypeOK ==
    /\ jobs \in Seq(Row)
    /\ worker \in Worker
    /\ worker.job \in {0} \cup DOMAIN jobs
    /\ worker.job = 0 <=> worker.pc \in {"off", "idle", "dead"}
    /\ reqs \in [Reqs -> Req]
    /\ \A r \in Reqs : /\ reqs[r].id \in {0} \cup DOMAIN jobs
                       /\ reqs[r].pc = "upgrade" => reqs[r].id # 0
    /\ proc \in {"down", "boot", "up", "stopping"}
    /\ kuma \in [Monitored -> {"none", "up", "down"}]
    /\ faults \in Nat /\ restarts \in Nat
    /\ returned \subseteq DOMAIN jobs

\* Migrations 0004-0014: whatever the triggers, the scheduler, a finishing
\* prefill and the worker interleave, a key never has two jobs in flight.
InFlightUnique ==
    \A i, j \in DOMAIN jobs :
        (jobs[i].key = jobs[j].key /\ {jobs[i].state, jobs[j].state} \subseteq Live)
          => i = j

\* The `AND state='queued'` guard of the force upgrade: while a job runs, its
\* row says of force exactly what the worker read when it claimed it, so the
\* table never records a force that did not run.
PayloadHonest ==
    worker.job # 0 => jobs[worker.job].flag = worker.flag

\* Between the claim and the mark, the claimed row stays 'running' and is the
\* worker's alone: nobody reaps, re-marks or re-claims a job in hand.
ClaimHeld ==
    worker.pc \in {"run", "mark", "reject"} => jobs[worker.job].state = "running"

\* A prefill whose handler has returned leaves a validate of the game waiting,
\* unless an earlier one was stranded by faults.
PrefillIsMeasured ==
    (worker.pc = "mark" /\ worker.ok /\ Kind(jobs[worker.job].key) = "prefill") =>
        \/ \E i \in Queued : jobs[i].key = <<"validate", jobs[worker.job].key[2]>>
        \/ faults > 0

\* The recorded outcome: 'succeeded' is only written for a handler that
\* returned, and when a prefill's is about to be, what measures its result still
\* waits its turn; a handler that returned is only recorded 'failed' by a reaper
\* after a restart (worker.py:139-176, prefill.py:384-397).
OutcomeHonest ==
    /\ \A i \in DOMAIN jobs :
         /\ jobs[i].state = "succeeded" => i \in returned
         /\ (jobs[i].state = "failed" /\ i \in returned) => restarts > 0
    /\ PrefillIsMeasured

\* A green monitor is never the work of a manual run: whenever Kuma holds "up"
\* for a kind, a job of that kind queued by the scheduler was recorded as
\* succeeded (worker.py monitor_url_for and the order mark, then beat).
GreenIsScheduled ==
    \A k \in Monitored : kuma[k] = "up" =>
        \E i \in DOMAIN jobs : /\ Kind(jobs[i].key) = k
                               /\ jobs[i].source = "scheduler"
                               /\ jobs[i].state = "succeeded"

\* Every queued job is claimed in the end, as long as no kind is unhandled.
QueuedIsClaimed ==
    \A i \in 1 .. 2 * MaxJobs :
        (i \in Queued) ~> (i \in DOMAIN jobs /\ i \notin Queued)

\* A key is not held forever: a job in flight ends, unless faults stranded it.
FlightEnds ==
    \A i \in 1 .. 2 * MaxJobs :
        (i \in DOMAIN jobs /\ jobs[i].state \in Live)
          ~> (faults > 0 \/ (i \in DOMAIN jobs /\ jobs[i].state \in Terminal))

\* The queue implements the ledger: one job in hand at a time, oldest first,
\* claimed once, ended only by the worker that holds it or by the reaper while
\* no worker runs; a crash or an exhausted retry lets go of it without ending it.
Ledger == INSTANCE JobLedger WITH
    tickets <- [i \in DOMAIN jobs |-> [key |-> jobs[i].key, state |-> jobs[i].state]],
    hand    <- IF worker.pc \in {"run", "mark", "reject"} THEN worker.job ELSE 0

ImplementsLedger == Ledger!Spec

=============================================================================
