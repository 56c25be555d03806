----------------------------- MODULE KeyBudget -----------------------------
(***************************************************************************)
(* The daily probe of the cache index (tools/cache_catcher/key_budget.py   *)
(* and key_budget_probe.py): it samples how many objects the cache holds,  *)
(* takes the nearer of two ceilings, extrapolates its own history, and     *)
(* tells a monitor.  Whatever it cannot read is {}, a number n is {n}; a   *)
(* history it cannot read is an empty one, with which the trend is unknown *)
(* and the verdict rests on the floor alone.                               *)
(***************************************************************************)
EXTENDS Integers, Sequences, FiniteSets, SequencesExt

CONSTANTS
    Counts,    \* the numbers of objects a sample may find
    Zones,     \* the ceilings CACHE_INDEX_SIZE may give
    Budgets,   \* the ceilings RAM_BUDGET_BYTES may give; 0 is no room at all
    Horizon,   \* HORIZON_DAYS
    MaxDays    \* bound: days on which it probes

ASSUME BudgetAssumption ==
    /\ Counts \cup Budgets \subseteq Nat /\ Zones \subseteq Nat \ {0}
    /\ Horizon \in Nat /\ MaxDays \in Nat

VARIABLES
    day,
    history,   \* the rows of the history file, as they parse
    sample,    \* what the last probe found
    budget     \* the key budget monitor: what it was told last

budgetVars == <<day, history, sample, budget>>

Unknown == {}

Maybe(numbers) == {Unknown} \cup {{n} : n \in numbers}

\* legible: whether the history file opened.
Samples == [objects : Maybe(Counts), zone : Maybe(Zones), ram : Maybe(Budgets),
            legible : BOOLEAN]

BudgetInit ==
    /\ day = 0 /\ history = <<>> /\ budget = "silent"
    /\ sample = [objects |-> Unknown, zone |-> Unknown, ram |-> Unknown, legible |-> TRUE]

-----------------------------------------------------------------------------
\* effective_capacity: the nearest of the ceilings that are known.
Ceiling(zone, ram) == {n \in zone \cup ram : \A m \in zone \cup ram : n <= m}

\* The floor: three quarters of the ceiling.
Full(objects, keys) == 4 * objects >= 3 * keys

\* project_days_to(...) < horizon, over the first and the last row.  Too few
\* rows, a flat and a falling count say nothing.
FillsFast(rows, keys) ==
    /\ Len(rows) >= 2
    /\ LET first == rows[1]  last == rows[Len(rows)]
           rise == last.objects - first.objects  elapsed == last.day - first.day
       IN  /\ elapsed > 0 /\ last.objects > first.objects
           /\ \/ Full(last.objects, keys)
              \/ (3 * keys - 4 * last.objects) * elapsed < 4 * Horizon * rise

\* verdict.
Verdict(s, rows) ==
    IF /\ s.objects # Unknown
       /\ \E keys \in Ceiling(s.zone, s.ram), n \in s.objects :
             keys > 0 /\ ~Full(n, keys) /\ ~FillsFast(rows, keys)
    THEN "up" ELSE "down"

\* read_history.
RowsRead(s) == IF s.legible THEN history ELSE <<>>

\* append_history: the row of this probe, none, or one that was cut short (and
\* may have run into the next) and parses all the same, with another number.
Appended(s) ==
    {history} \cup {Append(history, [day |-> day, objects |-> m]) :
                       m \in {k \in Counts : s.objects # Unknown}}

\* run_once: judged against the rows of before, then recorded, then pushed;
\* a probe that raises says so as "down".  The push may be lost.
Probes ==
    /\ day < MaxDays /\ day' = day + 1
    /\ \E s \in Samples :
          /\ sample' = s
          /\ budget' \in {Verdict(s, RowsRead(s)), "down", budget}
          /\ history' \in Appended(s)

BudgetNext == Probes

BudgetSpec == BudgetInit /\ [][BudgetNext]_budgetVars

-----------------------------------------------------------------------------
BudgetTypeOK ==
    /\ day \in 0..MaxDays
    /\ history \in Seq([day : 0..MaxDays, objects : Counts]) /\ Len(history) <= day
    /\ sample \in Samples
    /\ budget \in {"silent", "up", "down"}

\* The key budget monitor turns green only when the objects and a ceiling are
\* known, they stay under the floor of every ceiling that is known, and the
\* line through the rows it could read, if it could read two, stays there for
\* the whole horizon.  It does turn green without a trend: when the history
\* cannot be read (key_budget_probe.py:153-154), and a row cut short may flatten
\* the line (tests/tools/test_key_budget_probe.py:81).
TurnsGreen ==
    budget # "up" /\ budget' = "up" =>
        /\ sample'.objects # Unknown /\ sample'.zone \cup sample'.ram # Unknown
        /\ \A keys \in sample'.zone \cup sample'.ram, n \in sample'.objects : ~Full(n, keys)
        /\ sample'.legible /\ Len(history) > 1 =>
              LET first == history[1]  last == history[Len(history)]
                  elapsed == last.day - first.day  rise == last.objects - first.objects
              IN  \A keys \in sample'.zone \cup sample'.ram, d \in 0..(Horizon - 1) :
                     rise > 0 => 4 * (last.objects * elapsed + rise * d) < 3 * keys * elapsed

GreenIsRoom == [][TurnsGreen]_budgetVars
=============================================================================
