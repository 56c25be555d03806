------------------------------ MODULE Curation ------------------------------
(***************************************************************************)
(* Which Steam apps the host prefills: library_sync looks the prefilled    *)
(* apps up in the store and upserts the games among them (jobs/handlers/   *)
(* library_sync.py, platform/steam/store.py); a tick classifies them and   *)
(* excludes what is no game (scheduler/jobs.py, selection_classifier.py);  *)
(* the operator and Game_shelf write prefill_exclusions too (api/routers/  *)
(* prefill_exclusions.py); and the tick reconciles the agent's selection   *)
(* file with that table.  A Steam prefill borrows that file while it runs; *)
(* what a run does with it in detail is in AgentSteam.                     *)
(***************************************************************************)
EXTENDS Naturals, FiniteSets

CONSTANTS
    Apps,      \* Steam app ids
    Answers,   \* per app, what the store may answer; NoInfo is a failed lookup
    NoInfo,    \* no row in steam_app_info
    Legacy,    \* rows of steam_app_info that predate the category flags
    Fetches,   \* settings.steam_store_fetch_budget
    MaxOps,    \* bound: what operator and Game_shelf do
    MaxFaults  \* bound: writes and calls that fail, and deaths of the agent

Flags == {"yes", "no", "unknown"}

Infos == [type : {"game", "dlc", "tool", "advertising"}, flagged : BOOLEAN,
          single : Flags, multi : Flags]

ASSUME CurationAssumption ==
    /\ NoInfo \notin Infos
    /\ Answers \in [Apps -> SUBSET (Infos \cup {NoInfo})]
    /\ Legacy \in [Apps -> Infos \cup {NoInfo}]
    /\ {Fetches, MaxOps, MaxFaults} \subseteq Nat

VARIABLES
    bins,       \* the agent's manifest cache: the apps prefilled so far
    selection,  \* selectedAppsToPrefill.json: the apps it lists, {} when it lists none
    form,       \* whether there is such a file, and whether it parses
    lent,       \* what the run under way found there and means to put back
    info,       \* steam_app_info
    owned,      \* the games rows, all with owned = 1
    done,       \* games with last_prefilled_at
    excl,       \* prefill_exclusions
    sync,       \* the library_sync under way: apps left, store fetches left
    tick,       \* the classify tick under way
    asked,      \* history: what the operator's last request wants of each app
    ops, faults

file == <<selection, form, lent>>

vars == <<bins, file, info, owned, done, excl, sync, tick, asked, ops, faults>>

Modes == {"allow", "exclude"}

Forms == {"list", "missing", "garbled"}

NoRow == [mode |-> "none", source |-> "none"]

Row(mode, source) == [mode |-> mode, source |-> source]

NoSync == [on |-> FALSE, left |-> {}, budget |-> 0]

NoTick == [pc |-> "idle", left |-> {}, exclude |-> {}, allow |-> {}]

Init ==
    /\ bins \in SUBSET Apps /\ selection \in SUBSET Apps
    /\ form \in {"list", "missing"} /\ lent = {} /\ (form = "missing" => selection = {})
    /\ info \in [Apps -> {NoInfo} \cup {Legacy[a] : a \in Apps}]
    /\ \A a \in Apps : info[a] \in {NoInfo, Legacy[a]}
    /\ owned = {} /\ done = {}
    /\ excl = [a \in Apps |-> NoRow]
    /\ sync = NoSync /\ tick = NoTick
    /\ asked = [a \in Apps |-> "none"]
    /\ ops = 0 /\ faults = 0

Fault == faults < MaxFaults /\ faults' = faults + 1

Meddle == ops < MaxOps /\ ops' = ops + 1

-----------------------------------------------------------------------------
(* The host's own cron and the prefill job.                                *)

\* The cron downloads what is selected and what was bought recently.
HostPrefills(a) ==
    /\ a \notin bins /\ bins' = bins \cup {a}
    /\ UNCHANGED <<file, info, owned, done, excl, sync, tick, asked, ops, faults>>

\* A write in place that does not succeed: what was there is gone.
Torn == Fault /\ form' = "garbled" /\ selection' = {}

\* A prefill job: the agent reads the selection and
\* writes the job's app in its place; when that fails, no run begins.
RunBegins(a) ==
    /\ ~sync.on /\ lent = {} /\ a \in owned
    /\ \/ /\ lent' = {[app |-> a, form |-> form, apps |-> selection]}
          /\ form' = "list" /\ selection' = {a} /\ UNCHANGED faults
       \/ Torn /\ UNCHANGED lent
    /\ UNCHANGED <<bins, info, owned, done, excl, sync, tick, asked, ops>>

\* The text that was read is written back; where no file was, nothing is.
PutBack(l) ==
    IF l.form = "missing" THEN UNCHANGED <<form, selection>>
    ELSE form' = l.form /\ selection' = l.apps

\* SteamPrefill ended, ok or not, and the selection is put back.  After a run
\* that was ok last_prefilled_at is set, unless that write fails; putting back
\* may fail, and the agent may die before it does.
RunEnds ==
    \E l \in lent, ok \in BOOLEAN :
       LET prefilled == {a \in {l.app} : ok}
       IN /\ lent' = {} /\ bins' = bins \cup prefilled
          /\ \/ PutBack(l) /\ done' = done \cup prefilled /\ UNCHANGED faults
             \/ PutBack(l) /\ ok /\ Fault /\ UNCHANGED done
             \/ Torn /\ UNCHANGED done
             \/ Fault /\ UNCHANGED <<done, form, selection>>
          /\ UNCHANGED <<info, owned, excl, sync, tick, asked, ops>>

-----------------------------------------------------------------------------
(* library_sync.                                                           *)

\* The worker runs one job at a time, and a prefill lasts until the agent's run ends.
SyncBegins ==
    /\ ~sync.on /\ lent = {}
    /\ sync' = [on |-> TRUE, left |-> bins, budget |-> Fetches]
    /\ UNCHANGED <<bins, file, info, owned, done, excl, tick, asked, ops, faults>>

\* A new app, or a row that predates the category flags.
NeedsFetch(a) == info[a] = NoInfo \/ info[a].single = "unknown"

\* What the app is taken for: the store's answer when there is one.
Learned(a, answer) == IF answer = NoInfo THEN info[a] ELSE answer

IsGame(i) == i # NoInfo /\ i.type = "game"

\* Mutant of SyncApp: the budget is one too many.
SpendsOneMore(a, answer) ==
    LET fetch == NeedsFetch(a)
        now   == IF fetch THEN Learned(a, answer) ELSE info[a]
    IN /\ sync.on /\ a \in sync.left /\ answer \in Answers[a]
       /\ info' = [info EXCEPT ![a] = now]
       /\ owned' = owned \cup {b \in {a} : IsGame(now)}
       /\ sync' = [sync EXCEPT !.left = @ \ {a}, !.budget = IF fetch THEN @ - 1 ELSE @]
       /\ UNCHANGED <<bins, file, done, excl, tick, asked, ops, faults>>

\* One app of the loop: fetched while the budget lasts, remembered, and its
\* games row upserted when the store calls it a game.
SyncApp(a, answer) ==
    LET fetch == NeedsFetch(a) /\ sync.budget > 0
        now   == IF fetch THEN Learned(a, answer) ELSE info[a]
    IN /\ sync.on /\ a \in sync.left /\ answer \in Answers[a]
       /\ info' = [info EXCEPT ![a] = now]
       /\ owned' = owned \cup {b \in {a} : IsGame(now)}
       /\ sync' = [sync EXCEPT !.left = @ \ {a}, !.budget = IF fetch THEN @ - 1 ELSE @]
       /\ UNCHANGED <<bins, file, done, excl, tick, asked, ops, faults>>

\* The last app is done ...
SyncEnds ==
    /\ sync.on /\ sync.left = {}
    /\ sync' = NoSync
    /\ UNCHANGED <<bins, file, info, owned, done, excl, tick, asked, ops, faults>>

\* ... or a write fails on the way: that of the answer, or that of the games row.
SyncFails ==
    /\ sync.on /\ Fault
    /\ \/ UNCHANGED info
       \/ \E a \in {b \in sync.left : NeedsFetch(b) /\ sync.budget > 0} :
            \E answer \in Answers[a] : info' = [info EXCEPT ![a] = Learned(a, answer)]
    /\ sync' = NoSync
    /\ UNCHANGED <<bins, file, owned, done, excl, tick, asked, ops>>

-----------------------------------------------------------------------------
(* enqueue_auto_classify_block: five awaits, each its own step.            *)

NonGameTypes == {"music", "application", "tool", "demo", "video", "movie", "media",
                 "series", "episode", "hardware", "config", "comic", "beta"}

\* classify: by type, by name, or multiplayer-only when both flags are known.
Classified(i) ==
    \/ i.type \in NonGameTypes
    \/ i.flagged
    \/ i.multi = "yes" /\ i.single = "no"

\* The rows of the first query that classify finds a reason for.
TickReads ==
    /\ tick.pc = "idle"
    /\ tick' = [NoTick EXCEPT !.pc = "insert",
                    !.left = {a \in owned \cap done : /\ info[a] # NoInfo /\ excl[a] = NoRow
                                                      /\ Classified(info[a])}]
    /\ UNCHANGED <<bins, file, info, owned, done, excl, sync, asked, ops, faults>>

\* ON CONFLICT DO NOTHING: a row written since the read stays.
TickInserts(a) ==
    /\ tick.pc = "insert" /\ a \in tick.left
    /\ \/ /\ excl' = [excl EXCEPT ![a] = IF @ = NoRow THEN Row("exclude", "classifier") ELSE @]
          /\ UNCHANGED faults
       \/ Fault /\ UNCHANGED excl
    /\ tick' = [tick EXCEPT !.left = @ \ {a}]
    /\ UNCHANGED <<bins, file, info, owned, done, sync, asked, ops>>

With(mode) == {a \in Apps : excl[a].mode = mode}

TickExcludes ==
    /\ tick.pc = "insert" /\ tick.left = {}
    /\ tick' = [tick EXCEPT !.pc = "allow", !.exclude = With("exclude")]
    /\ UNCHANGED <<bins, file, info, owned, done, excl, sync, asked, ops, faults>>

TickAllows ==
    /\ tick.pc = "allow"
    /\ tick' = [tick EXCEPT !.pc = "prune", !.allow = With("allow")]
    /\ UNCHANGED <<bins, file, info, owned, done, excl, sync, asked, ops, faults>>

\* Mutant of Restored: only what was prefilled comes back.
RestoredByBins(prefilled) == prefilled \ tick.exclude

\* What the tick asks the agent to have in the file.
Restored(prefilled) == tick.allow \cup (prefilled \ tick.exclude)

\* reconcile_selection.  JSON that is no list is read as the empty one.
Pruned(back) == (selection \ (tick.exclude \ back)) \cup back

\* prune-selection, after prefilled_apps, whose failure leaves the allows.  A
\* file that is missing or does not parse is left as it is.
TickPrunes ==
    /\ tick.pc = "prune"
    /\ \E prefilled \in {bins, {}} :
         /\ IF prefilled = bins THEN UNCHANGED faults ELSE Fault
         /\ selection' = IF form = "list" THEN Pruned(Restored(prefilled)) ELSE selection
    /\ tick' = NoTick
    /\ UNCHANGED <<bins, form, lent, info, owned, done, excl, sync, asked, ops>>

\* A read, the call or the agent's write fails: it is logged and the next tick
\* begins anew.
TickFails ==
    /\ tick.pc # "idle" /\ tick.left = {}
    /\ \/ Fault /\ UNCHANGED <<form, selection>>
       \/ /\ tick.pc = "prune" /\ form = "list" /\ Pruned(Restored(bins)) # selection
          /\ Torn
    /\ tick' = NoTick
    /\ UNCHANGED <<bins, lent, info, owned, done, excl, sync, asked, ops>>

-----------------------------------------------------------------------------
(* The endpoints, one transaction each.                                    *)

SetExclusion(a, mode) ==
    /\ Meddle
    /\ excl' = [excl EXCEPT ![a] = Row(mode, "operator")]
    /\ asked' = [asked EXCEPT ![a] = mode]
    /\ UNCHANGED <<bins, file, info, owned, done, sync, tick, faults>>

\* The row goes, whoever wrote it.
ClearExclusion(a) ==
    /\ Meddle /\ excl[a] # NoRow
    /\ excl' = [excl EXCEPT ![a] = NoRow]
    /\ asked' = [asked EXCEPT ![a] = "none"]
    /\ UNCHANGED <<bins, file, info, owned, done, sync, tick, faults>>

\* Mutant of Reconciled: the delete forgets the source.
ReconciledAll(push) ==
    [a \in Apps |-> IF a \notin push THEN NoRow
                    ELSE IF excl[a] = NoRow THEN Row("exclude", "gameshelf")
                    ELSE excl[a]]

\* Missing rows inserted, stale rows of this source deleted.
Reconciled(push) ==
    [a \in Apps |-> IF a \in push /\ excl[a] = NoRow THEN Row("exclude", "gameshelf")
                    ELSE IF a \notin push /\ excl[a].source = "gameshelf" THEN NoRow
                    ELSE excl[a]]

ReconcileGameshelf(push) ==
    /\ Meddle
    /\ excl' = Reconciled(push)
    /\ UNCHANGED <<bins, file, info, owned, done, sync, tick, asked, faults>>

\* SteamPrefill's own --select-apps, on the host.
HostSelects(apps) ==
    /\ Meddle /\ (apps # selection \/ form # "list")
    /\ selection' = apps /\ form' = "list"
    /\ UNCHANGED <<bins, lent, info, owned, done, excl, sync, tick, asked, faults>>

-----------------------------------------------------------------------------
TickStep == \/ TickReads \/ TickExcludes \/ TickAllows \/ TickPrunes
            \/ \E a \in Apps : TickInserts(a)

Next ==
    \/ SyncBegins \/ SyncEnds \/ SyncFails \/ TickStep \/ TickFails \/ RunEnds
    \/ \E a \in Apps :
         \/ HostPrefills(a) \/ RunBegins(a) \/ ClearExclusion(a)
         \/ \E answer \in Answers[a] : SyncApp(a, answer)
         \/ \E mode \in Modes : SetExclusion(a, mode)
    \/ \E apps \in SUBSET Apps : ReconcileGameshelf(apps) \/ HostSelects(apps)

\* The tick is an interval job of the scheduler: it runs again and again.
Spec == Init /\ [][Next]_vars /\ WF_vars(TickStep)

-----------------------------------------------------------------------------
TypeOK ==
    /\ bins \subseteq Apps /\ selection \subseteq Apps /\ form \in Forms
    /\ lent \subseteq [app : owned, form : Forms, apps : SUBSET Apps]
    /\ owned \subseteq Apps /\ done \subseteq owned
    /\ info \in [Apps -> Infos \cup {NoInfo}]
    /\ excl \in [Apps -> {NoRow} \cup
                        [mode : Modes, source : {"operator", "classifier", "gameshelf"}]]
    /\ sync \in [on : BOOLEAN, left : SUBSET Apps, budget : 0..Fetches]
    /\ tick \in [pc : {"idle", "insert", "allow", "prune"}, left : SUBSET Apps,
                 exclude : SUBSET Apps, allow : SUBSET Apps]
    /\ asked \in [Apps -> Modes \cup {"none"}]
    /\ ops \in 0..MaxOps /\ faults \in 0..MaxFaults

\* The operator's last word on an app stands until the operator takes it back:
\* no tick that read the table before it and no push of Game_shelf writes over
\* it or deletes it (scheduler/jobs.py:216-218, prefill_exclusions.py:150-154).
OperatorWins ==
    \A a \in Apps : asked[a] # "none" => excl[a] = Row(asked[a], "operator")

\* The curated list: what a run put aside, else what is in the file.
Curated == IF lent = {} THEN selection ELSE UNION {l.apps : l \in lent}

\* It parses: no tick repairs a file that does not, or makes one where none is.
Legible == \A l \in lent \cup {[form |-> form]} : l.form = "list"

\* The file converges to the table: what stays allowed comes back into the
\* curated list for good and what stays excluded leaves it for good, whatever
\* failed or was edited by hand on the way (scheduler/jobs.py:277-282), as long
\* as the list can be read and ticks get through between the runs that borrow
\* the file: a prune during a run is undone when the run puts its list back.
SelectionConverges ==
    \A a \in Apps :
       <>[]Legible /\ []<><<TickPrunes /\ lent = {}>>_vars =>
          /\ <>[](excl[a].mode = "allow") => <>[](a \in Curated)
          /\ <>[](excl[a].mode = "exclude") => <>[](a \notin Curated)
=============================================================================
