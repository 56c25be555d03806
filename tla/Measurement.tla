---------------------------- MODULE Measurement ----------------------------
(***************************************************************************)
(* Cache truth (jobs/measurement.py): the one module that may write        *)
(* games.status.  A measurement writes the status, its timestamps and a    *)
(* row of measurement_transitions in one transaction; a circuit breaker    *)
(* refuses a drop once too many games dropped inside a rolling window, and *)
(* announces the refusal at a bounded pace.  The jobs that measure (sweep, *)
(* validate, purge) are in module Sweep.                                   *)
(***************************************************************************)
EXTENDS Integers, Sequences, FiniteSets

CONSTANTS
    Games,       \* the rows of the games table
    Threshold,   \* settings.measurement_breaker_threshold
    Window,      \* settings.measurement_breaker_window_minutes, in ticks
    Backoff,     \* _BREAKER_RETRY_SEC, in ticks
    MaxNow       \* bound: ticks of the clock

ASSUME MeasurementAssumption ==
    /\ Threshold \in Nat \ {0} /\ Window \in Nat \ {0}
    /\ Backoff \in 1 .. Window /\ MaxNow \in Nat

VARIABLES
    now,        \* the clock: CURRENT_TIMESTAMP and time.monotonic()
    status,     \* games.status
    attempt,    \* games.last_measure_attempt_at; Never is NULL
    measured,   \* games whose status_measured_at is not NULL
    log,        \* measurement_transitions, in id order
    seen,       \* per game, the outcome of its newest row of validation_history
                \*   that measured something ("none" when there is none)
    noticeAt,   \* _next_breaker_notice_at; 0 is None
    told        \* history: until when the operator, told of a trip, is left alone

mvars == <<now, status, attempt, measured, log, seen, noticeAt, told>>

Never == -1

Times == 0 .. MaxNow

\* What a validation found, and the status that a real finding means.
StatusFor == [cached  |-> "up_to_date",
              partial |-> "validation_failed",
              missing |-> "not_downloaded"]

Findings == DOMAIN StatusFor

\* How much cache a status claims; the lifecycle statuses carry no rank.
Rank == [up_to_date |-> 3, validation_failed |-> 2, not_downloaded |-> 1, unknown |-> 0]

Unranked == {"pending_update", "downloading", "blocked", "failed"}

Statuses == DOMAIN Rank \cup Unranked

IsDownward(prior, new) ==
    {prior, new} \subseteq DOMAIN Rank /\ Rank[new] < Rank[prior]

Transition == [game : Games, prior : Statuses, new : Statuses,
               downward : BOOLEAN, commanded : BOOLEAN, at : Times]

\* The drops the breaker counts: observed, and not older than the window.
InWindow(t) ==
    {i \in DOMAIN log : /\ log[i].downward /\ ~log[i].commanded
                        /\ t - Window <= log[i].at}

\* Mutant of Refused: one too many.
RefusedLate(g, found, commanded) ==
    /\ ~commanded
    /\ IsDownward(status[g], StatusFor[found])
    /\ Cardinality(InWindow(now)) >= Threshold

\* The breaker: this drop, with those in the window, reaches the threshold.
Refused(g, found, commanded) ==
    /\ ~commanded
    /\ IsDownward(status[g], StatusFor[found])
    /\ Cardinality(InWindow(now)) + 1 >= Threshold

\* Mutant of Logged: a commanded change leaves no row.
LoggedUnlessCommanded(g, new, commanded) ==
    IF commanded THEN log
    ELSE Append(log, [game |-> g, prior |-> status[g], new |-> new,
                      downward |-> IsDownward(status[g], new),
                      commanded |-> commanded, at |-> now])

\* The transition row that every truth write appends.
Logged(g, new, commanded) ==
    Append(log, [game |-> g, prior |-> status[g], new |-> new,
                 downward |-> IsDownward(status[g], new),
                 commanded |-> commanded, at |-> now])

\* Mutant of WriteTruth: the finding is stored as the status.
WriteTruthRaw(g, found, observed, commanded) ==
    /\ status' = [status EXCEPT ![g] = found]
    /\ measured' = measured \cup {g}
    /\ attempt' = [attempt EXCEPT ![g] = now]
    /\ log' = Logged(g, StatusFor[found], commanded)
    /\ seen' = [seen EXCEPT ![g] = observed]
    /\ UNCHANGED <<now, noticeAt, told>>

\* The status write of a finding the breaker lets pass, with the validation_history
\* row `observed` written by the same transaction.
WriteTruth(g, found, observed, commanded) ==
    /\ status' = [status EXCEPT ![g] = StatusFor[found]]
    /\ measured' = measured \cup {g}
    /\ attempt' = [attempt EXCEPT ![g] = now]
    /\ log' = Logged(g, StatusFor[found], commanded)
    /\ seen' = [seen EXCEPT ![g] = observed]
    /\ UNCHANGED <<now, noticeAt, told>>

\* An 'error' is not a measurement: it stamps the attempt and nothing else.
AttemptOnly(g) ==
    /\ attempt' = [attempt EXCEPT ![g] = now]
    /\ UNCHANGED <<now, status, measured, log, seen, noticeAt, told>>

NoticeDue == now >= noticeAt

\* The slot is taken for the short backoff before the push is awaited.
ReserveNotice ==
    /\ noticeAt' = now + Backoff
    /\ UNCHANGED <<now, status, attempt, measured, log, seen, told>>

\* Mutant of Notified: a delivered push makes the next one due.
NotifiedAnew(delivered) ==
    /\ noticeAt' = IF delivered THEN now ELSE noticeAt
    /\ told' = IF delivered THEN now + Window ELSE told
    /\ UNCHANGED <<now, status, attempt, measured, log, seen>>

\* A delivered push silences further ones for the whole window.
Notified(delivered) ==
    /\ noticeAt' = IF delivered THEN now + Window ELSE noticeAt
    /\ told' = IF delivered THEN now + Window ELSE told
    /\ UNCHANGED <<now, status, attempt, measured, log, seen>>

ClockTick ==
    /\ now < MaxNow /\ now' = now + 1
    /\ UNCHANGED <<status, attempt, measured, log, seen, noticeAt, told>>

\* The notice slot is process memory; the breaker's count is not.
ForgetNotice ==
    /\ noticeAt' = 0 /\ told' = 0
    /\ UNCHANGED <<now, status, attempt, measured, log, seen>>

MeasurementTypeOK ==
    /\ now \in Times
    /\ status \in [Games -> Statuses]
    /\ attempt \in [Games -> Times \cup {Never}]
    /\ measured \subseteq Games
    /\ log \in Seq(Transition)
    /\ seen \in [Games -> Findings \cup {"none"}]
    /\ noticeAt \in Nat /\ told \in Nat
=============================================================================
