--------------------------- MODULE ManifestFetch ---------------------------
(***************************************************************************)
(* The manifest fetch of the agent: the endpoint starts one at a time and  *)
(* none beside a prefill, a thread enumerates the apps, runs the helper    *)
(* (external) once for all of them, archives what it reports and raises or *)
(* returns a tally (platform/steam/manifest_fetcher.py, agent/routers/     *)
(* steam.py); the fetch_manifests job turns the tally into a heartbeat     *)
(* (jobs/handlers/fetch_manifests.py).                                     *)
(***************************************************************************)
EXTENDS Naturals, FiniteSets

CONSTANTS
    Titles,     \* Steam app ids
    OutOfRange, \* ids that are no uint32
    Ships,      \* per app, the manifests Steam has of it
    Hollow,     \* manifests that parse to no SHA at all
    Ratio,      \* settings.fetch_manifests_max_failure_ratio, in percent
    MaxFetches, \* bound: runs
    MaxTrouble  \* bound: prefills beside, failures of session, disk and agent

ASSUME FetchAssumption ==
    /\ OutOfRange \subseteq Titles /\ IsFiniteSet(Titles)
    /\ DOMAIN Ships = Titles /\ \A a \in Titles : IsFiniteSet(Ships[a])
    /\ {Ratio, MaxFetches, MaxTrouble} \subseteq Nat

Sidecars == UNION {{a} \X Ships[a] : a \in Titles}

VARIABLES
    chosen,    \* selectedAppsToPrefill.json
    borrowed,  \* the selection that a prefill will put back, if one runs
    binned,    \* apps with a .bin in either root
    shas,      \* the .shas sidecars
    fetch,     \* the run: what it asked for, what the helper said of each app
    tally,     \* its counters, and the sum that is returned
    fetchJob,  \* the agent's job
    heartbeat, \* the fetch_manifests monitor: what the worker told it last
    fetches, trouble

fetchVars == <<chosen, borrowed, binned, shas, fetch, tally, fetchJob, heartbeat, fetches, trouble>>

Statuses == {"ok", "failed", "not_attempted"}

\* 0 with a summary and 0 without one, any other code, and killed by the timeout.
Exits == {"zero", "mute", "stopped", "timeout"}

Clean(exit) == exit \in {"zero", "mute"}

Silent == [status |-> "none", names |-> {}]

NoFetch == [pc |-> "idle", asked |-> {}, said |-> [a \in Titles |-> Silent], left |-> {},
            exit |-> "zero"]

NoTally == [fetched |-> 0, skipped |-> 0, failed |-> 0, empty |-> 0, apps |-> 0]

FetchInit ==
    /\ chosen \in SUBSET Titles /\ borrowed = {} /\ binned \in SUBSET (Titles \ OutOfRange)
    /\ shas = {} /\ fetch = NoFetch /\ tally = NoTally
    /\ fetchJob = "none" /\ heartbeat = "none"
    /\ fetches = 0 /\ trouble = 0

Trouble == trouble < MaxTrouble /\ trouble' = trouble + 1

-----------------------------------------------------------------------------
(* What else writes the files it reads (AgentSteam).                       *)

PrefillBorrows(a) ==
    /\ borrowed = {} /\ Trouble
    /\ borrowed' = {chosen} /\ chosen' = {a}
    /\ UNCHANGED <<binned, shas, fetch, tally, fetchJob, heartbeat, fetches>>

PrefillReturns(selected) ==
    /\ selected \in borrowed
    /\ borrowed' = {} /\ chosen' = selected
    /\ UNCHANGED <<binned, shas, fetch, tally, fetchJob, heartbeat, fetches, trouble>>

-----------------------------------------------------------------------------
(* The run.                                                                *)

\* start_fetch_manifests: refused beside a prefill; a running one is joined.
StartFetch ==
    /\ borrowed = {} /\ fetchJob # "running" /\ fetches < MaxFetches
    /\ fetches' = fetches + 1
    /\ fetchJob' = "running" /\ fetch' = [NoFetch EXCEPT !.pc = "start"] /\ tally' = NoTally
    /\ UNCHANGED <<chosen, borrowed, binned, shas, heartbeat, trouble>>

\* set_failed, whatever was raised.
Fails == fetchJob' = "failed" /\ fetch' = [fetch EXCEPT !.pc = "idle"]

\* login_from_session: no session, no run.
NoSession ==
    /\ fetch.pc = "start" /\ Trouble /\ Fails
    /\ UNCHANGED <<chosen, borrowed, binned, shas, tally, heartbeat, fetches>>

\* _enumerate_app_ids: the selection, and what was prefilled outside of it.
Enumerated == chosen \cup {a \in binned : \A m \in Ships[a] : <<a, m>> \notin shas}

Sent == fetch.asked \ OutOfRange

\* With nothing to fetch the helper is not run.
Enumerates ==
    /\ fetch.pc = "start"
    /\ tally' = [tally EXCEPT !.apps = Cardinality(Enumerated)]
    /\ IF Enumerated = {}
       THEN fetchJob' = "done" /\ fetch' = [fetch EXCEPT !.pc = "idle"]
       ELSE fetch' = [fetch EXCEPT !.pc = "helper", !.asked = Enumerated] /\ UNCHANGED fetchJob
    /\ UNCHANGED <<chosen, borrowed, binned, shas, heartbeat, fetches, trouble>>

\* A line of the helper: of an app that was asked for, the last one counts.
\* What it lists of an app it reports ok may be missing or unreadable.
HelperReports(a, status, names) ==
    /\ fetch.pc = "helper" /\ a \in Sent /\ fetch.said[a] = Silent
    /\ names \subseteq Ships[a] /\ (status = "ok" \/ names = {})
    /\ fetch' = [fetch EXCEPT !.said[a] = [status |-> status, names |-> names]]
    /\ UNCHANGED <<chosen, borrowed, binned, shas, tally, fetchJob, heartbeat, fetches, trouble>>

Said == {a \in Titles : fetch.said[a] # Silent}

\* It ends, or is killed by the timeout, wherever it is.
HelperEnds(exit) ==
    /\ fetch.pc = "helper"
    /\ fetch' = [fetch EXCEPT !.pc = "archive", !.left = Said, !.exit = exit]
    /\ tally' = [tally EXCEPT !.failed = Cardinality(fetch.asked \cap OutOfRange)]
    /\ UNCHANGED <<chosen, borrowed, binned, shas, fetchJob, heartbeat, fetches, trouble>>

\* _archive_app, with _write_shas for each manifest that is not hollow and not
\* there yet; not_attempted is a failure of the app only when the exit is clean.
Archives(a) ==
    LET said == fetch.said[a]
        new  == {m \in said.names \ Hollow : <<a, m>> \notin shas}
    IN /\ fetch.pc = "archive" /\ a \in fetch.left
       /\ fetch' = [fetch EXCEPT !.left = @ \ {a}]
       /\ shas' = shas \cup {<<a, m>> : m \in new}
       /\ tally' = IF said.status = "not_attempted" /\ ~Clean(fetch.exit) THEN tally
                   ELSE IF said.names = {} THEN [tally EXCEPT !.failed = @ + 1]
                   ELSE [tally EXCEPT !.fetched = @ + Cardinality(new),
                                      !.skipped = @ + Cardinality(said.names \ new),
                                      !.empty = @ + Cardinality(said.names \cap Hollow)]
       /\ UNCHANGED <<chosen, borrowed, binned, fetchJob, heartbeat, fetches, trouble>>

\* A write fails on the way: what was written so far stays, the run is aborted.
ArchiveBreaks(a, some) ==
    /\ fetch.pc = "archive" /\ a \in fetch.left /\ Trouble
    /\ some \subseteq fetch.said[a].names \ Hollow
    /\ shas' = shas \cup {<<a, m>> : m \in some}
    /\ Fails
    /\ UNCHANGED <<chosen, borrowed, binned, tally, heartbeat, fetches>>

\* Mutant of Unreported: an id that was never sent counts again.
UnreportedOfAll == fetch.asked \ Said

\* What a helper that exits cleanly never mentioned.
Unreported == Sent \ Said

\* The guards behind the archiving, in their order; what passes them all returns.
Concluded(sum) ==
    LET read == sum.fetched + sum.skipped
    IN CASE fetch.exit = "timeout"                -> "failed"
         [] read > 0 /\ sum.empty = read          -> "failed"
         [] fetch.exit # "zero"                     -> "failed"
         [] read = 0 /\ sum.failed > 0            -> "failed"
         [] OTHER                                 -> "done"

Concludes ==
    LET sum == IF Clean(fetch.exit)
               THEN [tally EXCEPT !.failed = @ + Cardinality(Unreported)] ELSE tally
    IN /\ fetch.pc = "archive" /\ fetch.left = {}
       /\ tally' = sum /\ fetchJob' = Concluded(sum)
       /\ fetch' = [fetch EXCEPT !.pc = "idle"]
       /\ UNCHANGED <<chosen, borrowed, binned, shas, heartbeat, fetches, trouble>>

\* Jobs are memory: the control plane polls a job that is not there.  The
\* prefill's own recovery is in AgentSteam.
FetchAgentRestarts ==
    /\ fetchJob = "running" /\ Trouble
    /\ fetchJob' = "none" /\ fetch' = NoFetch
    /\ UNCHANGED <<chosen, borrowed, binned, shas, tally, heartbeat, fetches>>

-----------------------------------------------------------------------------
(* The job of the control plane.                                           *)

\* summarise_tally: a ratio of apps; no apps are healthy.
Healthy(sum) == sum.apps = 0 \/ 100 * sum.failed <= Ratio * sum.apps

\* fetch_manifests_handler, and the heartbeat of the worker: a failed or
\* missing job is down.
HandlerTells ==
    /\ fetches > 0 /\ fetchJob # "running"
    /\ heartbeat' = IF fetchJob = "done" /\ Healthy(tally) THEN "up" ELSE "down"
    /\ UNCHANGED <<chosen, borrowed, binned, shas, fetch, tally, fetchJob, fetches, trouble>>

FetchNext ==
    \/ StartFetch \/ NoSession \/ Enumerates \/ Concludes \/ FetchAgentRestarts \/ HandlerTells
    \/ \E exit \in Exits : HelperEnds(exit)
    \/ \E a \in Titles :
         \/ PrefillBorrows(a) \/ Archives(a)
         \/ \E status \in Statuses, names \in SUBSET Ships[a] : HelperReports(a, status, names)
         \/ \E some \in SUBSET Ships[a] : ArchiveBreaks(a, some)
    \/ \E selected \in borrowed : PrefillReturns(selected)

FetchSpec == FetchInit /\ [][FetchNext]_fetchVars

-----------------------------------------------------------------------------
FetchTypeOK ==
    /\ chosen \subseteq Titles /\ binned \subseteq Titles
    /\ borrowed \subseteq SUBSET Titles
    /\ shas \subseteq Sidecars
    /\ fetch.pc \in {"idle", "start", "helper", "archive"}
    /\ fetch.exit \in Exits /\ fetch.asked \subseteq Titles /\ fetch.left \subseteq Sent
    /\ tally \in [fetched : Nat, skipped : Nat, failed : Nat, empty : Nat, apps : Nat]
    /\ fetchJob \in {"none", "running", "done", "failed"}
    /\ heartbeat \in {"none", "up", "down"}
    /\ fetches \in 0..MaxFetches /\ trouble \in 0..MaxTrouble

\* Every app is accounted for once.  A run that returns counts as failed exactly
\* the apps of which no manifest was read, and read at least one that was not
\* hollow when it was asked for any; and a helper that stopped, crashed or hung
\* fails the run only after what it had reported is archived (manifest_fetcher.py:
\* 306-309 and 355-366).
FetchAccounted ==
    /\ fetchJob = "done" =>
         /\ tally.failed = Cardinality({a \in fetch.asked : fetch.said[a].names = {}})
         /\ tally.apps = Cardinality(fetch.asked)
         /\ fetch.asked # {} => \E a \in fetch.asked : ~(fetch.said[a].names \subseteq Hollow)
         /\ \A a \in fetch.asked : {<<a, m>> : m \in fetch.said[a].names \ Hollow} \subseteq shas
    /\ fetchJob = "failed" /\ fetch.left = {} /\ fetch.asked # {} =>
         \A a \in fetch.asked : {<<a, m>> : m \in fetch.said[a].names \ Hollow} \subseteq shas
=============================================================================
