-------------------------------- MODULE Boot --------------------------------
(***************************************************************************)
(* The life of the orchestrator process (api/main.py): it migrates, opens  *)
(* the pool, starts the worker and the scheduler (scheduler/manager.py),   *)
(* tests the validator, serves /health, and stops all of it in an order    *)
(* that waits for the worker and the requests, not for what was cancelled, *)
(* before the pool is closed.  The container starts it again whenever it   *)
(* ends, with the same image or another one.                               *)
(***************************************************************************)
EXTENDS Migrations, Probe

CONSTANTS
    MaxStarts,   \* bound: processes the container starts
    MaxCalls     \* bound: command-line migrations

ASSUME BootAssumption == MaxStarts \in Nat /\ MaxCalls \in Nat

VARIABLES
    life,     \* where the lifespan is
    pool,     \* the pool: "none" before it is open and when the process is gone
    worker,   \* the worker task: none, on, or ended by an exception
    sched,    \* the scheduler: its start may fail, and the app serves without
    tick,     \* a scheduled callback: none, on, or cancelled and not gone yet
    orphans,  \* tasks of a cancelled sweep are left to write to the pool
    starts,   \* processes started so far
    calls     \* command-line migrations so far

lvars == <<life, pool, worker, sched, tick, orphans, starts, calls>>
vars  == <<dvars, pvars, lvars>>

Init ==
    /\ MigrationsInit /\ ProbeInit
    /\ life = "off" /\ pool = "none" /\ worker = "none" /\ sched = "none"
    /\ tick = "none" /\ orphans = FALSE
    /\ starts = 0 /\ calls = 0

\* The process is gone, and everything it held with it.
Gone ==
    /\ life' = "off" /\ pool' = "none" /\ worker' = "none" /\ sched' = "none"
    /\ tick' = "none" /\ orphans' = FALSE
    /\ cache' = [age |-> Never, began |-> 0]
    /\ force' = FALSE /\ lock' = <<>> /\ refresh' = NoRefresh /\ forced' = 0
    /\ caller' = [c \in Clients |-> NoCaller]

-----------------------------------------------------------------------------
(* Starting.                                                               *)

\* _enforce_lan_bind_policy: off-loopback needs an allowlist.
BindRefused == env.bind = "lan" /\ ~env.allow

\* The container starts the process of some image; a refused bind ends it.
Start(b) ==
    /\ life = "off" /\ starts < MaxStarts /\ starts' = starts + 1
    /\ IF BindRefused THEN UNCHANGED <<life, runner>> ELSE life' = "migrate" /\ Call("app", b)
    /\ UNCHANGED <<db, txn, env, faults, pvars, pool, worker, sched, tick, orphans, calls>>

\* SystemExit: the migrations were refused.
Exit ==
    /\ life = "migrate" /\ runner["app"].pc = "refused"
    /\ Gone
    /\ Dies("app")
    /\ UNCHANGED <<db, env, faults, starts, calls>>

\* Another runner of the same migrations: the operator's `db migrate`.
CliCalls(b) ==
    /\ calls < MaxCalls /\ calls' = calls + 1
    /\ runner["cli"].pc \in {"idle", "done", "refused"}
    /\ Call("cli", b)
    /\ UNCHANGED <<db, txn, env, faults, pvars,
                   life, pool, worker, sched, tick, orphans, starts>>

\* verify_schema_current: the ids, not the contents.
SchemaCurrent == DOMAIN db.rows = DOMAIN runner["app"].build.files

\* A connection or one of its PRAGMAs fails: what was opened is closed again.
OpenFails == Blame

\* init_pool opens the connections and verifies the schema; otherwise SystemExit.
OpenPool ==
    /\ life = "migrate" /\ runner["app"].pc = "done"
    /\ \/ SchemaCurrent /\ life' = "reap" /\ pool' = "open"
          /\ UNCHANGED <<runner, txn, faults, pvars, worker, sched, tick, orphans>>
       \/ ~SchemaCurrent /\ Gone /\ Dies("app") /\ UNCHANGED faults
       \/ OpenFails /\ Gone /\ Dies("app")
    /\ UNCHANGED <<db, env, starts, calls>>

\* The reaper runs, or fails and is only logged; then the worker task is made.
SpawnWorker ==
    /\ life = "reap"
    /\ life' = "schedule" /\ worker' = "on"
    /\ UNCHANGED <<dvars, pvars, pool, sched, tick, orphans, starts, calls>>

\* SchedulerManager.start; a failure is logged and /health answers 503.
StartScheduler ==
    /\ life = "schedule" /\ life' = "test"
    /\ \/ sched' = "running" /\ UNCHANGED faults
       \/ Blame /\ UNCHANGED sched
    /\ UNCHANGED <<db, txn, runner, env, pvars,
                   pool, worker, tick, orphans, starts, calls>>

\* validator_self_test, here or on the agent, then `yield`.
SelfTest ==
    /\ life = "test" /\ life' = "serve"
    /\ UNCHANGED <<dvars, pvars, pool, worker, sched, tick, orphans, starts, calls>>

-----------------------------------------------------------------------------
(* Running: the worker, the ticks and the requests, all on one pool.       *)

\* The worker's loop (JobQueue has its steps): only a failed mark ends the task.
WorkerDies ==
    /\ worker = "on" /\ Blame /\ worker' = "dead"
    /\ UNCHANGED <<db, txn, runner, env, pvars, life, pool, sched, tick, orphans, starts, calls>>

\* APScheduler fires a callback, which writes to the pool and ends; one that was
\* cancelled ends in a step of its own, when it comes to run.
Tick ==
    /\ \/ sched = "running" /\ tick = "none" /\ tick' = "on"
       \/ tick # "none" /\ tick' = "none"
    /\ UNCHANGED <<dvars, pvars, life, pool, worker, sched, orphans, starts, calls>>

\* The tasks of a cancelled sweep have stamped their attempts, or failed to.
OrphansEnd ==
    /\ orphans /\ orphans' = FALSE
    /\ UNCHANGED <<dvars, pvars, life, pool, worker, sched, tick, starts, calls>>

\* get_health reads the pool and the schema, then awaits the probe, for which
\* it may wait behind others while the rest of the app goes on ...
HealthBegins(c) ==
    /\ life = "serve" /\ caller[c].pc = "idle"
    /\ caller' = [caller EXCEPT ![c] = [NoCaller EXCEPT !.pc = "probe", !.asked = forced]]
    /\ UNCHANGED <<dvars, lvars, cache, force, lock, refresh, forced>>

HealthProbes(c) == ProbeStep(c) /\ UNCHANGED <<dvars, lvars>>

\* ... and answers with what it then reads of the scheduler and the validator.
HealthEnds(c) ==
    /\ caller[c].pc = "told"
    /\ caller' = [caller EXCEPT ![c] = NoCaller]
    /\ UNCHANGED <<dvars, lvars, cache, force, lock, refresh, forced>>

ProbeTurns == life = "serve" /\ (Invalidate \/ Ages) /\ UNCHANGED <<dvars, lvars>>

-----------------------------------------------------------------------------
(* Stopping.  The server has answered its requests before it stops.        *)

Stop ==
    /\ life = "serve" /\ \A c \in Clients : caller[c].pc = "idle"
    /\ life' = "unschedule"
    /\ UNCHANGED <<dvars, pvars, pool, worker, sched, tick, orphans, starts, calls>>

\* The scheduler goes first.  Its callback under way is a coroutine: it is
\* cancelled, and wait=True does not wait for it.
StopScheduler ==
    /\ life = "unschedule" /\ life' = "join"
    /\ sched' = "none" /\ tick' = IF tick = "on" THEN "cancelled" ELSE tick
    /\ UNCHANGED <<dvars, pvars, pool, worker, orphans, starts, calls>>

\* Mutant of JoinWorker: the event is set and nobody waits.
LeavesWorker ==
    /\ life = "join" /\ worker = "on"
    /\ life' = "close"
    /\ UNCHANGED <<dvars, pvars, pool, worker, sched, tick, orphans, starts, calls>>

\* The worker ends by itself, or is cancelled after five seconds.  The tasks of a
\* sweep that is cut off now, or was just before by the job's time limit, are left
\* over: the gather does not wait for them (Sweep has their steps).
JoinWorker ==
    /\ life = "join" /\ worker = "on"
    /\ life' = "close" /\ worker' = "none"
    /\ orphans' \in BOOLEAN
    /\ UNCHANGED <<dvars, pvars, pool, sched, tick, starts, calls>>

\* A task that had ended with an exception raises it here: the rest of the
\* shutdown, the pool's close included, is skipped and the process ends.
JoinRaises ==
    /\ life = "join" /\ worker = "dead"
    /\ Gone
    /\ Dies("app")
    /\ UNCHANGED <<db, env, faults, starts, calls>>

ClosePool ==
    /\ life = "close" /\ pool = "open"
    /\ pool' = "closed"
    /\ UNCHANGED <<dvars, pvars, life, worker, sched, tick, orphans, starts, calls>>

\* The agent client and the stat threads go, and the process ends.
Ended ==
    /\ life = "close" /\ pool = "closed"
    /\ Gone
    /\ Dies("app")
    /\ UNCHANGED <<db, env, faults, starts, calls>>

\* kill -9, or a failure that no step above catches.
Crash ==
    /\ life # "off" /\ Blame
    /\ Gone
    /\ Dies("app")
    /\ UNCHANGED <<db, env, starts, calls>>

CliCrashes ==
    /\ runner["cli"].pc \in {"begin", "apply"} /\ Blame
    /\ Dies("cli")
    /\ UNCHANGED <<db, env, pvars, lvars>>

Migrates(p) == Migrate(p) /\ UNCHANGED <<pvars, lvars>>

Next ==
    \/ \E b \in Builds : Start(b) \/ CliCalls(b)
    \/ \E p \in Runners : Migrates(p)
    \/ Exit \/ OpenPool \/ SpawnWorker \/ StartScheduler \/ SelfTest
    \/ WorkerDies \/ Tick \/ OrphansEnd \/ ProbeTurns
    \/ \E c \in Clients : HealthBegins(c) \/ HealthProbes(c) \/ HealthEnds(c)
    \/ Stop \/ StopScheduler \/ JoinWorker \/ JoinRaises \/ ClosePool \/ Ended
    \/ Crash \/ CliCrashes

\* The process does what it can; nobody owes it a request, a stop or a fault.
Fairness ==
    /\ WF_vars(Migrates("app")) /\ WF_vars(OpenPool)
    /\ WF_vars(SpawnWorker) /\ WF_vars(StartScheduler) /\ WF_vars(SelfTest)

Spec == Init /\ [][Next]_vars /\ Fairness

-----------------------------------------------------------------------------
TypeOK ==
    /\ MigrationsTypeOK /\ ProbeTypeOK
    /\ life \in {"off", "migrate", "reap", "schedule", "test", "serve",
                 "unschedule", "join", "close"}
    /\ pool \in {"none", "open", "closed"} /\ worker \in {"none", "on", "dead"}
    /\ sched \in {"none", "running"}
    /\ tick \in {"none", "on", "cancelled"} /\ orphans \in BOOLEAN
    /\ starts \in 0..MaxStarts /\ calls \in 0..MaxCalls

\* The app opens its pool only on the very schema of its own image: no
\* migration missing, none ahead of it, and none whose file was edited after
\* it was applied, although the check at that point compares ids alone
\* (main.py:107-125, migrate.py:628-637 and 715-728) and another runner may
\* have migrated since.
OpensOnOwn ==
    [][pool # "open" /\ pool' = "open" => db.rows = runner["app"].build.files]_vars

\* When the pool is not open, whoever still uses it was cancelled by the stop
\* itself: no worker, no request, no callback in good standing and no scheduler
\* that could fire one (main.py:287-315).  Nobody waits for what was cancelled, a
\* callback or the tasks of a sweep, so those may meet a pool that is closed.
LateUsersAreCancelled ==
    /\ pool # "open" =>
        /\ worker # "on" /\ sched = "none" /\ tick # "on"
        /\ \A c \in Clients : caller[c].pc = "idle"
    /\ tick = "cancelled" \/ orphans => life \in {"join", "close"} /\ sched = "none"

\* What an image may be deployed on: its files are pinned, without a hole and
\* executable, and the schema is where some earlier version of it was.
Acceptable(b) ==
    /\ ~BindRefused /\ ~FsRefused /\ b.sound /\ b.files = b.pinned
    /\ DOMAIN b.files = 1..Cardinality(DOMAIN b.files)
    /\ \A i \in DOMAIN db.rows : i \in DOMAIN b.files /\ db.rows[i] = b.files[i]
    /\ \A n \in DOMAIN b.files :
         LET all == FlattenSeq([i \in 1..n |-> Script[b.files[i]]])
         IN FoldLeft(Ran, {}, all) = ExpectedTables(b.files, 1..n)

\* Nothing fails or interferes any more.
Settled == /\ faults = MaxFaults /\ calls = MaxCalls
           /\ runner["cli"].pc \in {"idle", "done", "refused"}

\* A process that starts on an acceptable image comes to serve, whatever an
\* earlier one left when it was killed in the middle of the same upgrade: no
\* interrupted upgrade turns into a boot loop (migrate.py:667-669).
Resumes ==
    (life = "migrate" /\ Settled /\ runner["app"].pc = "prepare"
       /\ Acceptable(runner["app"].build)) ~> (life = "serve")
=============================================================================
