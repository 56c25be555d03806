---------------------------- MODULE EpicLibrary ----------------------------
(***************************************************************************)
(* The Epic library: library_sync brings the games, the scheduled prefill  *)
(* queues those measured absent (scheduler/jobs.py), the prefill job       *)
(* fetches a manifest and downloads its chunks (jobs/handlers/prefill.py), *)
(* and the validate it enqueues measures what is on the disk.  One worker  *)
(* runs the jobs in the order of their rows; JobQueue has its own failures. *)
(* Epic tells no versions, so the version columns stay NULL and are left   *)
(* out.  The breaker that a measurement passes is in Measurement.          *)
(***************************************************************************)
EXTENDS EpicSession, Sequences

CONSTANTS
    Games,    \* the Epic games of the account
    NoGame,
    MaxOps    \* bound: what operator, Game_shelf and the cache's eviction do

ASSUME LibraryAssumption == NoGame \notin Games /\ MaxOps \in Nat

VARIABLES
    known,    \* games rows, all with owned = 1
    status,   \* games.status
    measured, \* games whose status_measured_at is not NULL
    block,    \* block_list
    excl,     \* prefill_exclusions with mode 'exclude'
    disk,     \* what the cache holds of a game
    queue,    \* queued jobs, oldest first
    job,      \* the running one, or NoJob
    ops

lvars == <<known, status, measured, block, excl, disk, queue, job, ops>>
vars  == <<evars, lvars>>

StatusOf == [cached |-> "up_to_date", partial |-> "validation_failed", missing |-> "not_downloaded"]

Job(kind, g) == [kind |-> kind, game |-> g]

Kinds == {"library_sync", "prefill", "validate"}

Jobs == {Job("library_sync", NoGame)} \cup [kind : {"prefill", "validate"}, game : Games]

NoJob == [kind |-> "none", game |-> NoGame, pc |-> "none"]

Init ==
    /\ SessionInit
    /\ known \in {{}, Games} /\ measured = {}
    /\ status \in [Games -> {"unknown", "validation_failed"}]
    /\ \A g \in Games \ known : status[g] = "unknown"
    /\ block = {} /\ excl = {}
    /\ disk = [g \in Games |-> "missing"]
    /\ queue = <<>> /\ job = NoJob /\ ops = 0

Meddle == ops < MaxOps /\ ops' = ops + 1

-----------------------------------------------------------------------------
(* Enqueueing: the partial unique indexes let one job of a key be in       *)
(* flight, queued or running (migrations 0006 and 0009).                   *)

InFlight(j) ==
    \/ \E i \in DOMAIN queue : queue[i] = j
    \/ Job(job.kind, job.game) = j

Enqueued(j) == IF InFlight(j) THEN queue ELSE Append(queue, j)

\* A tick or an endpoint asks for a sync or a validate.
Enqueue(j) ==
    /\ ~InFlight(j) /\ (j.kind = "library_sync" \/ j.game \in known)
    /\ queue' = Enqueued(j)
    /\ UNCHANGED <<evars, known, status, measured, block, excl, disk, job, ops>>

\* The login's last write.
SubmitEnqueues ==
    /\ submit = "enqueue" /\ submit' = "idle"
    /\ \/ queue' = Enqueued(Job("library_sync", NoGame)) /\ UNCHANGED faults
       \/ Fault /\ UNCHANGED queue
    /\ UNCHANGED <<mem, file, alive, call, auth, logins, unsaved>>
    /\ UNCHANGED <<known, status, measured, block, excl, disk, job, ops>>

\* Measured absent or incomplete, and neither blocked nor excluded; a status
\* from before measurements had a time is no evidence.
Due(g) ==
    g \in known /\ status[g] \in {"validation_failed", "not_downloaded"}
               /\ g \in measured /\ g \notin block \cup excl

\* enqueue_scheduled_prefill: one INSERT ... SELECT.
SchedulePrefill(g) ==
    /\ Due(g) /\ ~InFlight(Job("prefill", g))
    /\ queue' = Enqueued(Job("prefill", g))
    /\ UNCHANGED <<evars, known, status, measured, block, excl, disk, job, ops>>

-----------------------------------------------------------------------------
(* The worker.                                                             *)

Goes(pc) == job' = [job EXCEPT !.pc = pc]

Claim ==
    /\ job = NoJob /\ queue # <<>>
    /\ LET j == Head(queue)
       IN job' = [kind |-> j.kind, game |-> j.game,
                  pc |-> IF j.kind = "validate" THEN "measure" ELSE "epic"]
    /\ call' = IF Head(queue).kind = "validate" THEN call ELSE [NoCall EXCEPT !.pc = "token"]
    /\ queue' = Tail(queue)
    /\ UNCHANGED <<mem, file, alive, submit, auth, logins, unsaved, faults>>
    /\ UNCHANGED <<known, status, measured, block, excl, disk, ops>>

\* The call ended: go on, or fail; a sync that was denied marks the platform,
\* when the database lets it.
CallEnds ==
    /\ job.pc = "epic" /\ call.pc \in {"ok", "denied", "failed"}
    /\ call' = NoCall
    /\ job' = IF call.pc # "ok" THEN NoJob
              ELSE [job EXCEPT !.pc = IF job.kind = "prefill" THEN "manifest" ELSE "upsert"]
    /\ IF call.pc = "denied" /\ job.kind = "library_sync"
       THEN \/ auth' = "expired" /\ UNCHANGED faults
            \/ Fault /\ UNCHANGED auth
       ELSE UNCHANGED <<auth, faults>>
    /\ UNCHANGED <<mem, file, alive, submit, logins, unsaved>>
    /\ UNCHANGED <<known, status, measured, block, excl, disk, queue, ops>>

\* The upserts leave status alone; a failing one ends the job where it is.
Upsert ==
    /\ job.pc = "upsert" /\ job' = NoJob
    /\ \/ known' = Games /\ UNCHANGED faults
       \/ Fault /\ \E some \in SUBSET Games : known' = known \cup some
    /\ UNCHANGED <<mem, file, alive, call, submit, auth, logins, unsaved>>
    /\ UNCHANGED <<status, measured, block, excl, disk, queue, ops>>

\* Any await of the prefill may raise: the reason is recorded, best effort, and
\* the status stays.
PrefillRaises ==
    /\ job.pc \in {"manifest", "download", "enqueue", "mark"} /\ Fault
    /\ job' = NoJob
    /\ UNCHANGED <<mem, file, alive, call, submit, auth, logins, unsaved>>
    /\ UNCHANGED <<known, status, measured, block, excl, disk, queue, ops>>

\* The manifest row and the size are written, and the chunk paths deduplicated.
RecordManifest ==
    /\ job.pc = "manifest" /\ Goes("download")
    /\ UNCHANGED <<evars, known, status, measured, block, excl, disk, queue, ops>>

\* The chunks, by the agent or here; one that failed fails the job, with its
\* tally recorded.  The sample of cache hits afterwards is only logged.
Download ==
    /\ job.pc = "download"
    /\ \/ Goes("enqueue") /\ disk' = [disk EXCEPT ![job.game] = "cached"] /\ UNCHANGED faults
       \/ Fault /\ job' = NoJob /\ disk' = [disk EXCEPT ![job.game] = "partial"]
    /\ UNCHANGED <<mem, file, alive, call, submit, auth, logins, unsaved>>
    /\ UNCHANGED <<known, status, measured, block, excl, queue, ops>>

\* Mutant of EnqueueValidate: no validate after the download.
EnqueueNothing ==
    /\ job.pc = "enqueue" /\ Goes("mark")
    /\ UNCHANGED <<evars, known, status, measured, block, excl, disk, queue, ops>>

EnqueueValidate ==
    /\ job.pc = "enqueue" /\ Goes("mark")
    /\ queue' = Enqueued(Job("validate", job.game))
    /\ UNCHANGED <<evars, known, status, measured, block, excl, disk, ops>>

\* last_prefilled_at, and the version columns that Epic leaves NULL.
MarkPrefilled ==
    /\ job.pc = "mark" /\ job' = NoJob
    /\ UNCHANGED <<evars, known, status, measured, block, excl, disk, queue, ops>>

\* The validate job: a measurement, or an error that is none.
Measure ==
    /\ job.pc = "measure" /\ job' = NoJob
    /\ \/ status' = [status EXCEPT ![job.game] = StatusOf[disk[job.game]]]
          /\ measured' = measured \cup {job.game} /\ UNCHANGED faults
       \/ Fault /\ UNCHANGED <<status, measured>>
    /\ UNCHANGED <<mem, file, alive, call, submit, auth, logins, unsaved>>
    /\ UNCHANGED <<known, block, excl, disk, queue, ops>>

-----------------------------------------------------------------------------
(* Others.                                                                 *)

\* block_list and prefill_exclusions: idempotent inserts and deletes.  A game
\* need not be known.
CreateBlock(g) == g \notin block /\ block' = block \cup {g} /\ UNCHANGED excl
DeleteBlock(g) == g \in block /\ block' = block \ {g} /\ UNCHANGED excl
Exclude(g)     == g \notin excl /\ excl' = excl \cup {g} /\ UNCHANGED block
Allow(g)       == g \in excl /\ excl' = excl \ {g} /\ UNCHANGED block

Curate(g) ==
    /\ Meddle
    /\ CreateBlock(g) \/ DeleteBlock(g) \/ Exclude(g) \/ Allow(g)
    /\ UNCHANGED <<evars, known, status, measured, disk, queue, job>>

\* POST /games/{id}/prefill asks whatever the status and the lists say.
TriggerPrefill(g) ==
    /\ Meddle /\ g \in known /\ ~InFlight(Job("prefill", g))
    /\ queue' = Enqueued(Job("prefill", g))
    /\ UNCHANGED <<evars, known, status, measured, block, excl, disk, job>>

\* The cache evicts.
Evict(g) ==
    /\ Meddle /\ disk[g] # "missing"
    /\ \E left \in {"partial", "missing"} : disk' = [disk EXCEPT ![g] = left]
    /\ UNCHANGED <<evars, known, status, measured, block, excl, queue, job>>

\* A restart fails the job it interrupts; queued rows stay.
Restart ==
    /\ SessionRestarts
    /\ job' = NoJob
    /\ UNCHANGED <<known, status, measured, block, excl, disk, queue, ops>>

Session == (SessionStep \/ AccessFades \/ LoginOver \/ SubmitCode \/ SubmitStatus)
           /\ UNCHANGED lvars

Work == \/ SessionStep /\ UNCHANGED lvars
        \/ Claim \/ CallEnds \/ Upsert \/ RecordManifest \/ Download
        \/ EnqueueValidate \/ MarkPrefilled \/ Measure

Next ==
    \/ Session \/ Work \/ SubmitEnqueues \/ PrefillRaises \/ Restart
    \/ \E j \in Jobs : j.kind # "prefill" /\ Enqueue(j)
    \/ \E g \in Games : SchedulePrefill(g) \/ Curate(g) \/ TriggerPrefill(g) \/ Evict(g)

\* The worker works; nobody owes it a tick, a login or a fault.
Spec == Init /\ [][Next]_vars /\ WF_vars(Work)

-----------------------------------------------------------------------------
TypeOK ==
    /\ SessionTypeOK
    /\ known \subseteq Games /\ measured \subseteq known
    /\ status \in [Games -> {"unknown", "up_to_date", "validation_failed", "not_downloaded"}]
    /\ block \subseteq Games /\ excl \subseteq Games
    /\ disk \in [Games -> DOMAIN StatusOf]
    /\ queue \in Seq(Jobs)
    /\ job = NoJob \/ Job(job.kind, job.game) \in Jobs
    /\ job.pc \in {"none", "epic", "upsert", "manifest", "download", "enqueue", "mark", "measure"}
    /\ ops \in 0..MaxOps

\* No game is downloaded for ever: when nothing fails and nobody asks or evicts
\* any more, the ticks stop queueing what is already on the disk, although they
\* fire before its validate has run (scheduler/jobs.py:145-150).
DownloadsEnd == <>[](job.pc # "download")
=============================================================================
