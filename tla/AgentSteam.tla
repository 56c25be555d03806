----------------------------- MODULE AgentSteam -----------------------------
(***************************************************************************)
(* SteamPrefill runs on the data-plane agent: the single-flight gate and   *)
(* the job store behind POST /v1/steam/prefill, /v1/steam/fetch-manifests  *)
(* and /v1/pull (agent/routers), the selection file that a run borrows and *)
(* that prune-selection edits (prefill_driver.py, selection_file.py), the  *)
(* agent's stops and crashes (agent/app.py), and the one call that the     *)
(* orchestrator's worker has under way, posted and then polled             *)
(* (clients/agent_client.py).                                              *)
(*                                                                         *)
(* A handler runs on the agent's event loop without awaiting: one step.  A *)
(* run awaits the start and the end of its subprocess.  What SteamPrefill  *)
(* and the manifest helper download is left out, as are the archive and    *)
(* the retries of a connection that was never made.                        *)
(***************************************************************************)
EXTENDS AgentJobs

CONSTANTS
    Apps,       \* Steam app ids
    Works,      \* prefill requests that are made: [app, force]
    NoWork,     \* the work of a call that is not a prefill
    Library,    \* the operator's curated selection
    Verdicts,   \* prune requests that are made: [exclude, restore]
    RunLimit,   \* steam_prefill_timeout_sec, in ticks
    JobLimit,   \* job_max_runtime_sec, in ticks
    PollLimit,  \* per kind of call, the poll ceiling, in ticks
    MaxCalls,   \* bound: calls of the worker
    MaxPrunes,  \* bound: prunes that change the file
    MaxFaults,  \* bound: file writes and process starts that fail
    MaxStops    \* bound: stops and crashes of the agent

Kinds == {"prefill", "fetch", "pull"}

ASSUME AgentAssumption ==
    /\ Works \subseteq [app : Apps, force : BOOLEAN] /\ NoWork \notin Works
    /\ Library \subseteq Apps
    /\ Verdicts \subseteq [exclude : SUBSET Apps, restore : SUBSET Apps]
    /\ {RunLimit, JobLimit, MaxCalls, MaxPrunes, MaxFaults, MaxStops} \subseteq Nat
    /\ PollLimit \in [Kinds -> Nat]

VARIABLES
    up,        \* the agent process is alive
    jobs,      \* app.state.agent_jobs
    gate,      \* app.state.steam_prefill_gate
    fetchJob,  \* app.state.fetch_manifests_job, or 0
    task,      \* the background tasks, by the job each one serves
    procs,     \* jobs whose SteamPrefill process is alive
    file,      \* selectedAppsToPrefill.json
    bak,       \* its .bak sidecar
    created,   \* jobs created so far
    call,      \* the worker's current call
    calls,     \* calls made so far
    net,       \* POSTs sent and not handled yet
    prunes, faults, stops,
    exited,    \* history: runs that exited with 0, as <<job, work>>
    spoiled,   \* history: a crash or a failed write kept a run's list in the file
    unkilled,  \* history: processes that a stop met between SIGTERM and SIGKILL
    curated    \* history: there was a selection when the agent first started

agent == <<up, jobs, gate, fetchJob, task, procs, created>>
client == <<call, calls, net>>
bounds == <<prunes, faults, stops>>
history == <<exited, spoiled, unkilled, curated>>
vars == <<agent, file, bak, client, bounds, history>>

Missing == [kind |-> "missing", apps |-> {}, temp |-> FALSE]

\* A write that fails half way leaves text that does not parse.
Garbled == [kind |-> "garbled", apps |-> {}, temp |-> FALSE]

Curated == [kind |-> "list", apps |-> Library, temp |-> FALSE]

TempList(w) == [kind |-> "list", apps |-> {w.app}, temp |-> TRUE]

NoGate == [job |-> 0, work |-> NoWork]

Idle(end) == [pc |-> "idle", n |-> 0, kind |-> "pull", work |-> NoWork,
              job |-> 0, age |-> 0, end |-> end]

\* The operator may not have made a selection: SteamPrefill then has no file.
Init ==
    /\ up = TRUE /\ jobs = Empty /\ gate = NoGate /\ fetchJob = 0
    /\ task = Empty /\ procs = {} /\ created = 0
    /\ file \in {Curated, Missing} /\ bak = Missing
    /\ call = Idle("none") /\ calls = 0 /\ net = {}
    /\ prunes = 0 /\ faults = 0 /\ stops = 0
    /\ exited = {} /\ spoiled = FALSE /\ unkilled = {} /\ curated = (file = Curated)

Fault == faults < MaxFaults /\ faults' = faults + 1

-----------------------------------------------------------------------------
(* The client: one call at a time, posted and then polled.                 *)

Send(kind, work) ==
    /\ call.pc = "idle" /\ calls < MaxCalls /\ up
    /\ calls' = calls + 1
    /\ call' = [pc |-> "post", n |-> calls', kind |-> kind, work |-> work,
                job |-> 0, age |-> 0, end |-> "none"]
    /\ net' = net \cup {[n |-> calls', kind |-> kind, work |-> work]}
    /\ UNCHANGED <<agent, file, bak, bounds, history>>

End(how) ==
    /\ call' = Idle(how)
    /\ UNCHANGED <<agent, file, bak, calls, net, bounds, history>>

\* A transport error, or the end of the orchestrator's process.  A POST that
\* was sent may be handled all the same.
Lose == call.pc \in {"post", "poll"} /\ End("failed")

\* A GET of the job: 404 and a failed job raise, a done one carries ok.  The
\* handler fails its job in each case but the last.
Poll ==
    /\ call.pc = "poll" /\ up /\ ~ Unfinished(jobs, call.job)
    /\ End(IF call.job \in DOMAIN jobs /\ jobs[call.job].state = "done"
                 /\ jobs[call.job].ok
             THEN "ok" ELSE "failed")

\* The poll ceiling, tested after the terminal states.
Ceiling ==
    /\ call.pc = "poll" /\ up /\ Unfinished(jobs, call.job)
    /\ call.age >= PollLimit[call.kind]
    /\ End("failed")

\* The worker's wait_for cancels the handler.
Budget == call.pc \in {"post", "poll"} /\ call.age >= JobLimit /\ End("failed")

-----------------------------------------------------------------------------
(* The handlers of the agent.                                              *)

\* _in_flight: a job that is unknown or over does not hold the gate.
InFlight == gate.job # 0 /\ Unfinished(jobs, gate.job)

\* Mutant of SameWork: a forced refill is taken for a plain one.
SameApp(w) == gate.work.app = w.app

\* The signature of a request: the apps and the force flag.
SameWork(w) == gate.work = w

\* The answer goes to the call that posted, if it still waits.
Reply(m, job) ==
    call' = IF call.pc = "post" /\ call.n = m.n
              THEN IF job = 0 THEN Idle("failed")
                   ELSE [call EXCEPT !.pc = "poll", !.job = job]
              ELSE call

NewJob(m) ==
    /\ created' = created + 1
    /\ jobs' = Create(jobs, created')
    /\ task' = [j \in DOMAIN task \cup {created'} |->
                  IF j = created'
                    THEN [kind |-> m.kind, work |-> m.work, pc |-> "new",
                          prior |-> Missing, age |-> 0]
                    ELSE task[j]]
    /\ Reply(m, created')

OldJob(m, job) == Reply(m, job) /\ UNCHANGED <<created, jobs, task>>

\* Takes a POST off the network.
Receive(m) ==
    /\ up /\ m \in net /\ net' = net \ {m}
    /\ UNCHANGED <<up, procs, file, bak, calls, bounds, history>>

\* The same work is absorbed, other work is refused (409), else a run starts.
StartPrefill(m) ==
    /\ m.kind = "prefill" /\ Receive(m)
    /\ \/ /\ InFlight
          /\ OldJob(m, IF SameWork(m.work) THEN gate.job ELSE 0)
          /\ UNCHANGED gate
       \/ /\ ~ InFlight
          /\ NewJob(m)
          /\ gate' = [job |-> created', work |-> m.work]
    /\ UNCHANGED fetchJob

\* Refused while a prefill owns the selection; one fetch at a time.
StartFetch(m) ==
    /\ m.kind = "fetch" /\ Receive(m)
    /\ \/ /\ InFlight \/ Unfinished(jobs, fetchJob)
          /\ OldJob(m, IF InFlight THEN 0 ELSE fetchJob)
          /\ UNCHANGED fetchJob
       \/ /\ ~ InFlight /\ ~ Unfinished(jobs, fetchJob)
          /\ NewJob(m)
          /\ fetchJob' = created'
    /\ gate' = IF InFlight THEN gate ELSE NoGate

StartPull(m) ==
    /\ m.kind = "pull" /\ Receive(m)
    /\ NewJob(m)
    /\ UNCHANGED <<gate, fetchJob>>

\* reconcile_selection: restore wins over exclude.
Reconciled(v) == (file.apps \ (v.exclude \ v.restore)) \cup v.restore

\* A missing or unreadable file, or a list that needs no change, is left alone.
ToPrune(v) ==
    /\ up /\ file.kind = "list" /\ Reconciled(v) # file.apps
    /\ prunes < MaxPrunes /\ prunes' = prunes + 1
    /\ UNCHANGED <<agent, client, stops, history>>

Saved == IF bak.kind = "missing" THEN file ELSE bak

PruneSelection(v) ==
    /\ ToPrune(v)
    /\ bak' = Saved
    /\ file' = [file EXCEPT !.apps = Reconciled(v)]
    /\ UNCHANGED faults

\* One of the two writes raises; the sidecar is not written a second time.
PruneFails(v) ==
    /\ ToPrune(v) /\ Fault
    /\ \/ /\ bak.kind = "missing" /\ bak' \in {bak, Garbled}
          /\ UNCHANGED file
       \/ /\ bak' = Saved /\ file' \in {file, Garbled}

-----------------------------------------------------------------------------
(* The background tasks: _run of each router, prefill_apps of the driver.  *)

\* The runs that have overwritten the selection and not put it back.
Holders == {j \in DOMAIN task : task[j].pc \in {"spawn", "run", "term"}}

\* What the driver's finally leaves in the file: with no prior selection nothing
\* is put back, nor is the list of one app removed.
PutBack(j) == IF task[j].prior.kind = "missing" THEN file ELSE task[j].prior

\* The task ends: its job is marked, and the gate it holds is cleared.
Done(j, state, ok) ==
    /\ jobs' = SetState(jobs, j, state, ok)
    /\ task' = [i \in DOMAIN task \ {j} |-> task[i]]
    /\ gate' = IF gate.job = j THEN NoGate ELSE gate
    /\ UNCHANGED <<up, fetchJob, created, bak, client, prunes, stops, unkilled,
                   curated>>

Advance(j, pc) ==
    /\ task' = [task EXCEPT ![j].pc = pc]
    /\ UNCHANGED <<up, jobs, gate, fetchJob, created, bak, client, bounds, history>>

\* The prior selection is read and a list of one app is written over it.
Snapshot(j) ==
    /\ task[j].kind = "prefill" /\ task[j].pc = "new"
    /\ file' = TempList(task[j].work)
    /\ task' = [task EXCEPT ![j].pc = "spawn", ![j].prior = file]
    /\ UNCHANGED <<up, jobs, gate, fetchJob, created, procs, bak, client, bounds,
                   history>>

\* The write comes before the try: what it leaves is not put back.
SnapshotFails(j) ==
    /\ task[j].kind = "prefill" /\ task[j].pc = "new" /\ Fault
    /\ file' \in {file, Garbled}
    /\ Done(j, "failed", FALSE)
    /\ UNCHANGED <<procs, exited, spoiled>>

Spawn(j) ==
    /\ task[j].pc = "spawn"
    /\ procs' = procs \cup {j}
    /\ Advance(j, "run")
    /\ UNCHANGED file

\* The driver returns: the list is put back, the manifests are captured, and
\* the job says whether the exit code was 0.
Returns(j, ok) ==
    /\ file' = PutBack(j)
    /\ Done(j, "done", ok)
    /\ UNCHANGED <<faults, spoiled>>

\* The driver raises: the process cannot be started, or the write-back fails
\* before or after it has truncated the file.
SpawnFails(j) ==
    /\ task[j].pc = "spawn" /\ Fault
    /\ file' = PutBack(j)
    /\ Done(j, "failed", FALSE)
    /\ UNCHANGED <<procs, exited, spoiled>>

ReturnFails(j) ==
    /\ Fault
    /\ file' \in {file, Garbled} /\ spoiled' = TRUE
    /\ Done(j, "failed", FALSE)

\* The process ends by itself.
Exit(j, ok) ==
    /\ task[j].pc = "run"
    /\ procs' = procs \ {j}
    /\ exited' = IF ok THEN exited \cup {<<j, task[j].work>>} ELSE exited
    /\ Returns(j, ok) \/ ReturnFails(j)

\* Mutant of TimeOut: one tick too late.
InertTimeOut(j) ==
    /\ task[j].pc = "run" /\ task[j].age > RunLimit
    /\ Advance(j, "term")
    /\ UNCHANGED <<procs, file>>

\* At the time limit the process group gets a SIGTERM, and a minute to end.
TimeOut(j) ==
    /\ task[j].pc = "run" /\ task[j].age >= RunLimit
    /\ Advance(j, "term")
    /\ UNCHANGED <<procs, file>>

\* It ends, at the SIGKILL at the latest; the run has failed in any case.
Terminated(j) ==
    /\ task[j].pc = "term"
    /\ procs' = procs \ {j}
    /\ Returns(j, FALSE) \/ ReturnFails(j)
    /\ UNCHANGED exited

\* The manifest helper, or the pull of the chunks, returns or raises.
OtherEnds(j, state) ==
    /\ task[j].kind # "prefill"
    /\ Done(j, state, state = "done")
    /\ UNCHANGED <<procs, file, faults, exited, spoiled>>

-----------------------------------------------------------------------------
(* Stops, crashes and boots of the agent; time.                            *)

UnderWay == {j \in DOMAIN task : task[j].pc = "run"}

Dying == {j \in DOMAIN task : task[j].pc = "term"}

\* The agent's memory and its connections go with the process.
Down ==
    /\ up /\ stops < MaxStops /\ stops' = stops + 1
    /\ up' = FALSE /\ net' = {}
    /\ jobs' = Empty /\ gate' = NoGate /\ fetchJob' = 0 /\ task' = Empty
    /\ UNCHANGED <<created, bak, call, calls, prunes, faults, exited, curated>>

\* Mutants of Killed and AfterCancel: the subprocess is orphaned; the list is
\* not put back.
KillsNone == {}
LeavesList == {file}

\* A run that is cancelled while it awaits its process kills the group at once;
\* cancelled after the SIGTERM, it does not.  Each finally puts its list back.
Killed == UnderWay

AfterCancel == IF Holders = {} THEN {file} ELSE {PutBack(j) : j \in Holders}

\* The lifespan cancels every background task.
Stop ==
    /\ Down
    /\ \E dead \in SUBSET Dying : procs' = procs \ (Killed \cup dead)
    /\ unkilled' = unkilled \cup Dying
    /\ file' \in AfterCancel
    /\ UNCHANGED spoiled

\* A process that no task awaits ends.
OrphanExits ==
    /\ \E j \in procs \ DOMAIN task : procs' = procs \ {j}
    /\ UNCHANGED <<up, jobs, gate, fetchJob, task, created, file, bak, client, bounds,
                   history>>

\* The container dies, and every process in it.
Crash ==
    /\ Down
    /\ procs' = {}
    /\ spoiled' = (spoiled \/ Holders # {})
    /\ UNCHANGED <<file, unkilled>>

Boot ==
    /\ ~ up /\ up' = TRUE
    /\ UNCHANGED <<jobs, gate, fetchJob, task, procs, created, file, bak, client,
                   bounds, history>>

\* Time passes for the running process, up to its limit, and for the call.
Tick ==
    /\ \A j \in UnderWay : task[j].age < RunLimit
    /\ UnderWay # {} \/ (call.pc # "idle" /\ call.age < JobLimit)
    /\ task' = [j \in DOMAIN task |->
                  IF j \in UnderWay THEN [task[j] EXCEPT !.age = @ + 1] ELSE task[j]]
    /\ call' = IF call.pc # "idle" /\ call.age < JobLimit
                 THEN [call EXCEPT !.age = @ + 1] ELSE call
    /\ UNCHANGED <<up, jobs, gate, fetchJob, procs, created, file, bak, calls, net,
                   bounds, history>>

Step(j) ==
    \/ Snapshot(j) \/ SnapshotFails(j) \/ Spawn(j) \/ SpawnFails(j)
    \/ \E ok \in BOOLEAN : Exit(j, ok)
    \/ TimeOut(j) \/ Terminated(j)
    \/ \E state \in {"done", "failed"} : OtherEnds(j, state)

Handle(m) == StartPrefill(m) \/ StartFetch(m) \/ StartPull(m)

Next ==
    \/ \E w \in Works : Send("prefill", w)
    \/ \E kind \in Kinds \ {"prefill"} : Send(kind, NoWork)
    \/ Lose \/ Poll \/ Ceiling \/ Budget
    \/ \E m \in net : Handle(m)
    \/ \E v \in Verdicts : PruneSelection(v) \/ PruneFails(v)
    \/ \E j \in DOMAIN task : Step(j)
    \/ Stop \/ OrphanExits \/ Crash \/ Boot \/ Tick

Spec == Init /\ [][Next]_vars

\* What the event loop does for a run, one step after the other.
Driven(j) == Snapshot(j) \/ Spawn(j) \/ TimeOut(j) \/ Terminated(j)

\* The event loop runs every task, and wait_for ends a run at its limit.  A
\* process need not end by itself, and nobody owes a request.
FairSpec ==
    /\ Spec
    /\ \A j \in 1..MaxCalls : WF_vars(j \in DOMAIN task /\ Driven(j))
    /\ WF_vars(Tick)

-----------------------------------------------------------------------------
(* Properties.                                                             *)

Files == [kind : {"missing", "garbled", "list"}, apps : SUBSET Apps, temp : BOOLEAN]

AllWorks == Works \cup {NoWork}

Tasks == [kind : Kinds, work : AllWorks, pc : {"new", "spawn", "run", "term"},
          prior : Files, age : 0..RunLimit]

Calls == [pc : {"idle", "post", "poll"}, n : 0..MaxCalls, kind : Kinds, work : AllWorks,
          job : Nat, age : 0..JobLimit,
          end : {"none", "ok", "failed"}]

\* Types; and every task serves a job that the store knows as running, however
\* full the store is (jobs.py:48-56).
TypeOK ==
    /\ up \in BOOLEAN /\ spoiled \in BOOLEAN /\ curated \in BOOLEAN
    /\ created \in Nat /\ calls \in 0..MaxCalls
    /\ prunes \in 0..MaxPrunes /\ faults \in 0..MaxFaults /\ stops \in 0..MaxStops
    /\ DOMAIN jobs \subseteq 1..created /\ jobs \in [DOMAIN jobs -> Snaps]
    /\ gate \in [job : 0..created, work : AllWorks] /\ fetchJob \in 0..created
    /\ task \in [DOMAIN task -> Tasks]
    /\ \A j \in DOMAIN task : Unfinished(jobs, j)
    /\ procs \subseteq 1..created /\ unkilled \subseteq 1..created
    /\ file \in Files /\ bak \in Files
    /\ call \in Calls /\ call.job <= created
    /\ net \subseteq [n : 1..MaxCalls, kind : Kinds, work : AllWorks]
    /\ exited \subseteq (1..created) \X Works

\* The agent never runs two SteamPrefill processes at once, which share one
\* login and one cache: not when POSTs are late, the store is full, a call was
\* abandoned, or the agent was restarted under a run (steam.py:46-49).  Those
\* that a stop met between SIGTERM and SIGKILL are NoOrphan's affair.
SingleFlight == Cardinality(procs \ unkilled) <= 1

\* A call that reads ok was served by a run of exactly its work, the force flag
\* included, and that run exited with 0 (steam.py:109-125, prefill.py:352-391).
PrefillHonest ==
    [][call.pc = "poll" /\ call.kind = "prefill" /\ call'.end = "ok"
         => <<call.job, call.work>> \in exited']_vars

\* An operator who has made a selection finds it there, and not the list of one
\* app, whenever no run holds the file: no prune, no failed start, no time limit
\* and no stop leaves a run's list to the host's cron, unless a crash cut a run
\* short or the write-back itself failed (prefill_driver.py:198-204).  Where there
\* was no selection nothing is put back, and the first run's list stays.
SelectionReturned == curated /\ file.temp /\ ~ spoiled => Holders # {}

\* A gate that is held is freed, though a process may hang and its caller may
\* have left: no request is refused for good (prefill_driver.py:143-169).
GateFreed == InFlight ~> ~ InFlight

\* "Cancelling the prefill task must not orphan SteamPrefill"
\* (tests/platform/steam/test_prefill_driver.py:200): every process that is
\* alive is awaited by a task.
NoOrphan == procs \subseteq DOMAIN task
=============================================================================
