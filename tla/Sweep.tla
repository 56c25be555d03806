------------------------------- MODULE Sweep -------------------------------
(***************************************************************************)
(* The jobs that measure the cache, run one at a time by the worker:       *)
(*   sweep     every owned game not yet attempted in this pass, several at *)
(*             a time (jobs/handlers/sweep.py, jobs/sweep_pass.py)         *)
(*   full      the manual sweep of every game, outside any pass            *)
(*   validate  one game (jobs/handlers/validate.py)                        *)
(*   purge     delete one game's files, then measure what is left          *)
(*             (jobs/handlers/purge.py)                                    *)
(* and what a runtime budget, a failed call and a crash leave behind.      *)
(***************************************************************************)
EXTENDS Measurement

CONSTANTS
    Batch,       \* settings.sweep_batch_size
    FirstStatus, \* the statuses a game may have when the instance starts
    MaxRuns,     \* bound: jobs run
    MaxFaults    \* bound: failed calls, cancellations and crashes

ASSUME SweepAssumption ==
    /\ Batch \in Nat \ {0} /\ FirstStatus \subseteq Statuses
    /\ {MaxRuns, MaxFaults} \subseteq Nat

VARIABLES
    owned,      \* games.owned = 1
    pass,       \* the sweep_pass row: its number and when it started
    run,        \* the handler in hand: its kind, the pass number it read, and
                \*   whether the breaker tripped, the deadline passed, and the
                \*   deadline kept a game from starting
    task,       \* per game, where its measurement stands
    orphans,    \* games whose cancelled task still has its attempt to stamp
    runs,       \* jobs run so far
    faults,     \* failures so far
    tried,      \* history: the last pass in which a game's measurement started
    dirty       \* history: games whose files a purge deleted, not measured since

svars == <<owned, pass, run, task, orphans, runs, faults, tried, dirty>>
vars == <<mvars, svars>>

Kinds == {"none", "sweep", "full", "validate", "purge"}

NoRun == [kind |-> "none", pass |-> 0, tripped |-> FALSE, late |-> FALSE, cut |-> FALSE]

\* A finding that awaits its transaction.
Pending == Findings \cup {"error"}

\* "delete": the purge awaits the agent.  "wait": behind the semaphore.
\* "stat": the agent validates.  "push": the breaker tripped, and its notice is
\* on the way inside the transaction.  "stamp": only the attempt is recorded.
\* "fallback": a purge records conservatively what it could not measure.
Phases == {"none", "delete", "wait", "stat", "push", "stamp", "fallback", "done"}
          \cup Pending

Active == {"stat", "push", "stamp"} \cup Pending

Init ==
    /\ now = 0
    /\ status \in [Games -> FirstStatus]
    /\ attempt = [g \in Games |-> Never]
    /\ measured = {}
    /\ log = <<>>
    /\ seen = [g \in Games |-> "none"]
    /\ noticeAt = 0 /\ told = 0
    /\ owned \in {{}, Games}
    /\ pass = [number |-> 1, start |-> 0]
    /\ run = NoRun
    /\ task = [g \in Games |-> "none"]
    /\ orphans = {} /\ runs = 0 /\ faults = 0
    /\ tried = [g \in Games |-> 0]
    /\ dirty = {}

Blame == faults < MaxFaults /\ faults' = faults + 1

\* The worker starts the handler of one job.
Begin(kind, rows, phase) ==
    /\ run.kind = "none" /\ runs < MaxRuns /\ runs' = runs + 1
    /\ run' = [NoRun EXCEPT !.kind = kind, !.pass = pass.number]
    /\ task' = [g \in Games |-> IF g \in rows THEN phase ELSE "none"]
    /\ UNCHANGED <<mvars, owned, pass, orphans, faults, tried, dirty>>

\* The handler is over, with its job recorded succeeded or failed.
EndRun == run' = NoRun /\ task' = [g \in Games |-> "none"]

\* The gated sweep: owned, and not attempted since the pass began.
Candidates == {g \in owned : attempt[g] = Never \/ attempt[g] <= pass.start}

BeginSweep == Begin("sweep", Candidates, "wait")
BeginFull  == Begin("full", Games, "wait")
BeginValidate(g) == Begin("validate", {g}, "stat")
BeginPurge(g)    == Begin("purge", {g}, "delete")

\* library_sync, between two measuring jobs: a game is owned from now on.
Own(g) ==
    /\ run.kind = "none" /\ g \notin owned
    /\ owned' = owned \cup {g}
    /\ UNCHANGED <<mvars, pass, run, task, orphans, runs, faults, tried, dirty>>

-----------------------------------------------------------------------------
(* One game's measurement.                                                 *)

Move(g, phase) == task' = [task EXCEPT ![g] = phase]

Sweeping  == run.kind \in {"sweep", "full"}
Commanded == run.kind = "purge"

\* Leaving the semaphore's queue: a tripped breaker or the deadline ends the
\* task before it starts, and leaves the game unstamped.
Start(g) ==
    /\ task[g] = "wait"
    /\ Cardinality({h \in Games : task[h] \in Active}) < Batch
    /\ LET go == ~run.tripped /\ ~run.late IN
         /\ Move(g, IF go THEN "stat" ELSE "done")
         /\ run' = [run EXCEPT !.cut = @ \/ (~run.tripped /\ run.late)]
         /\ tried' = IF go THEN [tried EXCEPT ![g] = pass.number] ELSE tried
    /\ UNCHANGED <<mvars, owned, pass, orphans, runs, faults, dirty>>

\* The agent answers, having unlinked some file of the game, or none.
Delete(g) ==
    /\ task[g] = "delete"
    /\ Move(g, "stat")
    /\ dirty' \in {dirty, dirty \cup {g}}
    /\ UNCHANGED <<mvars, owned, pass, run, orphans, runs, faults, tried>>

Stat(g) ==
    /\ task[g] = "stat"
    /\ \E finding \in Pending : Move(g, finding)
    /\ UNCHANGED <<mvars, owned, pass, run, orphans, runs, faults, tried, dirty>>

\* Nobody holds the writer while a notice is being pushed; an orphan's write of
\* the same game, queued on the FIFO lock before this run began, goes first.
MayWrite(g) == g \notin orphans /\ \A h \in Games : task[h] # "push"

\* The measurement's transaction commits.
Record(g) ==
    /\ task[g] \in Findings /\ MayWrite(g)
    /\ ~Refused(g, task[g], Commanded)
    /\ WriteTruth(g, task[g], task[g], Commanded)
    /\ dirty' = dirty \ {g}
    /\ Move(g, "done")
    /\ UNCHANGED <<owned, pass, run, orphans, runs, faults, tried>>

\* Mutant of RecordError: a purge trusts the attempt-only write.
RecordErrorPlain(g) ==
    /\ task[g] = "error" /\ MayWrite(g)
    /\ AttemptOnly(g)
    /\ Move(g, "done")
    /\ UNCHANGED <<owned, pass, run, orphans, runs, faults, tried, dirty>>

\* An 'error' finding: the attempt alone.  A purge that did delete goes on to
\* its conservative record.
RecordError(g) ==
    /\ task[g] = "error" /\ MayWrite(g)
    /\ AttemptOnly(g)
    /\ Move(g, IF Commanded /\ g \in dirty THEN "fallback" ELSE "done")
    /\ UNCHANGED <<owned, pass, run, orphans, runs, faults, tried, dirty>>

\* 'partial', commanded, with an observation of nothing cached when the size of
\* the game is known from an earlier one.
RecordPartial(g) ==
    /\ task[g] = "fallback" /\ MayWrite(g)
    /\ WriteTruth(g, "partial", IF seen[g] = "none" THEN "none" ELSE "missing", TRUE)
    /\ dirty' = dirty \ {g}
    /\ Move(g, "done")
    /\ UNCHANGED <<owned, pass, run, orphans, runs, faults, tried>>

\* CircuitBreakerTripped, the transaction rolled back: it stops a sweep and
\* fails a validate.
Halt(g) ==
    IF Sweeping THEN Move(g, "done") /\ run' = [run EXCEPT !.tripped = TRUE]
                ELSE EndRun

\* Already announced: the write is refused without a push.
TripQuietly(g) ==
    /\ task[g] \in Findings /\ MayWrite(g)
    /\ Refused(g, task[g], Commanded) /\ ~NoticeDue
    /\ Halt(g)
    /\ UNCHANGED <<mvars, owned, pass, orphans, runs, faults, tried, dirty>>

Trip(g) ==
    /\ task[g] \in Findings /\ MayWrite(g)
    /\ Refused(g, task[g], Commanded) /\ NoticeDue
    /\ ReserveNotice
    /\ Move(g, "push")
    /\ UNCHANGED <<owned, pass, run, orphans, runs, faults, tried, dirty>>

Pushed(g) ==
    /\ task[g] = "push"
    /\ \E delivered \in BOOLEAN : Notified(delivered)
    /\ Halt(g)
    /\ UNCHANGED <<owned, pass, orphans, runs, faults, tried, dirty>>

\* The agent or the database fails: a sweep isolates the game, another job
\* fails.  A failed delete may have deleted some of the files.
Fail(g) ==
    /\ task[g] \in {"delete", "stat", "fallback"} \cup Pending /\ Blame
    /\ IF Sweeping THEN Move(g, "stamp") /\ UNCHANGED run ELSE EndRun
    /\ \/ UNCHANGED dirty
       \/ task[g] = "delete" /\ dirty' = dirty \cup {g}
    /\ UNCHANGED <<mvars, owned, pass, orphans, runs, tried>>

Stamp(g) ==
    /\ task[g] = "stamp" /\ MayWrite(g)
    /\ AttemptOnly(g)
    /\ Move(g, "done")
    /\ UNCHANGED <<owned, pass, run, orphans, runs, faults, tried, dirty>>

\* The stamp fails in its turn, and the failure is swallowed.  It follows a
\* failure already counted, and is not counted again.
StampFails(g) ==
    /\ task[g] = "stamp"
    /\ Move(g, "done")
    /\ UNCHANGED <<mvars, owned, pass, run, orphans, runs, faults, tried, dirty>>

Measure(g) ==
    \/ Start(g) \/ Delete(g) \/ Stat(g) \/ Record(g) \/ RecordError(g)
    \/ RecordPartial(g) \/ TripQuietly(g) \/ Trip(g) \/ Pushed(g)
    \/ Fail(g) \/ Stamp(g) \/ StampFails(g)

-----------------------------------------------------------------------------
(* The end of a run.                                                       *)

AllDone == \A g \in Games : task[g] \in {"none", "done"}

\* The sweep stops starting games this long before the worker cancels it.
Deadline ==
    /\ run.kind # "none" /\ ~run.late
    /\ run' = [run EXCEPT !.late = TRUE]
    /\ UNCHANGED <<mvars, owned, pass, task, orphans, runs, faults, tried, dirty>>

\* complete_pass: close the pass the run read, and open the next one now.
CompletePass ==
    pass' = IF pass.number = run.pass THEN [number |-> pass.number + 1, start |-> now]
                                      ELSE pass

\* Mutant of Finish: a run cut by its deadline completes the pass.
FinishCut ==
    /\ run.kind # "none" /\ AllDone
    /\ IF run.kind = "sweep" /\ ~run.tripped THEN CompletePass ELSE UNCHANGED pass
    /\ EndRun
    /\ UNCHANGED <<mvars, owned, orphans, runs, faults, tried, dirty>>

\* Only a gated sweep that nothing cut short completes its pass.
Finish ==
    /\ run.kind # "none" /\ AllDone
    /\ IF run.kind = "sweep" /\ ~run.tripped /\ ~run.cut THEN CompletePass
                                                       ELSE UNCHANGED pass
    /\ EndRun
    /\ UNCHANGED <<mvars, owned, orphans, runs, faults, tried, dirty>>

\* complete_pass fails: the job fails and the pass stays open.
FinishFails ==
    /\ run.kind = "sweep" /\ AllDone /\ Blame
    /\ EndRun
    /\ UNCHANGED <<mvars, owned, pass, orphans, runs, tried, dirty>>

\* The runtime budget, which ends after the deadline: the job is recorded failed
\* at once, while the sweep's cancelled tasks still have their attempt to stamp.
Cancel ==
    /\ run.kind # "none" /\ run.late /\ Blame
    /\ EndRun
    /\ orphans' = IF Sweeping
                    THEN orphans \cup {g \in Games : task[g] \in Active \ {"stamp"}}
                    ELSE orphans
    /\ UNCHANGED <<mvars, owned, pass, runs, tried, dirty>>

OrphanStamp(g) ==
    /\ g \in orphans /\ orphans' = orphans \ {g}
    /\ AttemptOnly(g)
    /\ UNCHANGED <<owned, pass, run, task, runs, faults, tried, dirty>>

OrphanFails(g) ==
    /\ g \in orphans /\ orphans' = orphans \ {g}
    /\ UNCHANGED <<mvars, owned, pass, run, task, runs, faults, tried, dirty>>

Crash ==
    /\ Blame
    /\ EndRun /\ orphans' = {}
    /\ ForgetNotice
    /\ UNCHANGED <<owned, pass, runs, tried, dirty>>

Second == ClockTick /\ UNCHANGED svars

\* Nothing queued: the worker polls.
Rest == run.kind = "none" /\ UNCHANGED vars

Next ==
    \/ BeginSweep \/ BeginFull
    \/ \E g \in Games : \/ BeginValidate(g) \/ BeginPurge(g) \/ Own(g) \/ Measure(g)
                        \/ OrphanStamp(g) \/ OrphanFails(g)
    \/ Deadline \/ Finish \/ FinishFails \/ Cancel \/ Crash \/ Second \/ Rest

Spec == Init /\ [][Next]_vars

-----------------------------------------------------------------------------
(* Properties.                                                             *)

\* Every variable keeps its type, and only games of the run have a task.
TypeOK ==
    /\ MeasurementTypeOK
    /\ owned \subseteq Games
    /\ pass \in [number : Nat, start : Times]
    /\ run \in [kind : Kinds, pass : Nat, tripped : BOOLEAN, late : BOOLEAN, cut : BOOLEAN]
    /\ task \in [Games -> Phases]
    /\ orphans \subseteq Games /\ runs \in Nat /\ faults \in Nat
    /\ tried \in [Games -> Nat] /\ dirty \subseteq Games

\* measurement.py:252-311: however the sweep's tasks, the validates and the
\* restarts interleave, fewer than Threshold observed drops are ever recorded
\* inside one window, purges not counted.
BreakerHolds ==
    \A t \in Times :
        Cardinality({i \in InWindow(t) : log[i].at <= t}) < Threshold

\* Each row of a game starts from the status the row before it left, and the
\* last one is the game's status now.
LogIsComplete ==
    \A i \in DOMAIN log :
        LET later == {j \in DOMAIN log : j > i /\ log[j].game = log[i].game} IN
        IF later = {} THEN status[log[i].game] = log[i].new
        ELSE LET j == CHOOSE j \in later : \A k \in later : j <= k
             IN log[j].prior = log[i].new

\* A game measured up to date has 'cached' as its newest real observation.
GreenIsObserved ==
    \A g \in Games : (status[g] = "up_to_date" /\ g \in measured) => seen[g] = "cached"

\* A badge can be explained from what is stored beside it: the transition log is
\* the whole history of cache truth (measurement.py:182-344), and no refused or
\* failed measurement leaves an observation that contradicts the status
\* (validate.py:53-86).
LogExplainsStatus == LogIsComplete /\ GreenIsObserved

\* measurement.py:112-140 and 266-292: once a trip's notice was delivered, no
\* other push starts before the window is over, whoever trips and however often.
NoticePaced ==
    [][(\E g \in Games : task[g] # "push" /\ task'[g] = "push") => now >= told]_vars

\* sweep.py:320-322: when a pass is closed, every owned game was started by one of
\* its sweeps or carries an attempt later than the pass's start, also a game first
\* owned during the pass, whatever failed, tripped or was cancelled meanwhile.
PassCovers ==
    [][pass' # pass =>
          \A g \in owned : tried[g] = pass.number \/ attempt[g] > pass.start]_vars

\* purge.py:175-230: a purge whose files are gone always ends with its measurement
\* recorded, whatever the breaker's state and even if the validation only reports
\* 'error': without a failed call, a cancellation or a crash none is left behind.
PurgeIsMeasured ==
    (faults = 0 /\ run.kind # "purge") => dirty = {}

=============================================================================
