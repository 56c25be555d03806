---------------------------- MODULE Sweep_proofs ----------------------------
(***************************************************************************)
(* Proofs about module Sweep, for every number of games and jobs, every    *)
(* threshold, window and batch: types, the circuit breaker, the purge that *)
(* is always measured, the pass that covers its games, the pace of the     *)
(* notices, and the log that explains the status.                          *)
(***************************************************************************)
EXTENDS Sweep, FiniteSetTheorems, WellFoundedInduction, TLAPS

-----------------------------------------------------------------------------
(* Types.                                                                  *)

LEMMA Settings ==
    /\ Threshold \in Nat \ {0} /\ Window \in Nat \ {0} /\ Backoff \in Nat /\ MaxNow \in Nat
    /\ Times \subseteq Nat /\ Never \notin Times /\ 0 \in Times
    /\ FirstStatus \subseteq Statuses
BY MeasurementAssumption, SweepAssumption DEF Times, Never

Runs == [kind : Kinds, pass : Nat, tripped : BOOLEAN, late : BOOLEAN, cut : BOOLEAN]

\* The handler in hand, its games' tasks, and the history beside them.
TaskTyped ==
    /\ owned \subseteq Games
    /\ pass \in [number : Nat, start : Times]
    /\ run \in Runs
    /\ task \in [Games -> Phases]
    /\ orphans \subseteq Games /\ runs \in Nat /\ faults \in Nat
    /\ tried \in [Games -> Nat] /\ dirty \subseteq Games

LEMMA StatusFacts ==
    /\ Findings = {"cached", "partial", "missing"}
    /\ \A f \in Findings : StatusFor[f] \in Statuses
    /\ \A f \in Findings : StatusFor[f] \in DOMAIN Rank
BY DEF Findings, StatusFor, Statuses, Rank

LEMMA TypeInit == Init => MeasurementTypeOK /\ TaskTyped
<1> SUFFICES ASSUME Init
             PROVE  MeasurementTypeOK /\ TaskTyped
  OBVIOUS
<1>1. status \in [Games -> Statuses]
  BY Settings DEF Init
<1>2. MeasurementTypeOK
  BY <1>1, Settings DEF Init, MeasurementTypeOK
<1>3. NoRun \in Runs
  BY DEF NoRun, Runs, Kinds
<1>4. [number |-> 1, start |-> 0] \in [number : Nat, start : Times]
  BY Settings
<1>5. task \in [Games -> Phases]
  BY DEF Init, Phases
<1> QED
  BY <1>2, <1>3, <1>4, <1>5 DEF Init, TaskTyped

\* The four ways in which a step changes cache truth.
LEMMA WriteTyped ==
    ASSUME MeasurementTypeOK, NEW g \in Games, NEW found \in Findings,
           NEW observed \in Findings \cup {"none"}, NEW commanded \in BOOLEAN,
           WriteTruth(g, found, observed, commanded)
    PROVE  MeasurementTypeOK'
<1>1. StatusFor[found] \in Statuses /\ now \in Times /\ status[g] \in Statuses
  BY StatusFacts DEF MeasurementTypeOK
<1>2. IsDownward(status[g], StatusFor[found]) \in BOOLEAN
  BY DEF IsDownward
<1> DEFINE row == [game |-> g, prior |-> status[g], new |-> StatusFor[found],
                   downward |-> IsDownward(status[g], StatusFor[found]),
                   commanded |-> commanded, at |-> now]
<1>3. row \in Transition
  BY <1>1, <1>2 DEF Transition
<1>4. log' = Append(log, row)
  BY DEF WriteTruth, Logged
<1> HIDE DEF row
<1>5. log' \in Seq(Transition)
  BY <1>3, <1>4 DEF MeasurementTypeOK
<1>6. /\ status' \in [Games -> Statuses] /\ attempt' \in [Games -> Times \cup {Never}]
      /\ measured' \subseteq Games /\ seen' \in [Games -> Findings \cup {"none"}]
      /\ UNCHANGED <<now, noticeAt, told>>
  BY <1>1 DEF WriteTruth, MeasurementTypeOK
<1> QED
  BY <1>5, <1>6 DEF MeasurementTypeOK

LEMMA AttemptTyped ==
    ASSUME MeasurementTypeOK, NEW g \in Games, AttemptOnly(g)
    PROVE  MeasurementTypeOK'
BY DEF MeasurementTypeOK, AttemptOnly

LEMMA NoticeTyped ==
    ASSUME MeasurementTypeOK,
           \/ ReserveNotice \/ ForgetNotice \/ ClockTick
           \/ \E delivered \in BOOLEAN : Notified(delivered)
    PROVE  MeasurementTypeOK'
<1>1. now \in Times /\ now \in Nat /\ MaxNow \in Nat
  BY Settings DEF MeasurementTypeOK
<1>2. CASE ReserveNotice \/ ForgetNotice \/ \E delivered \in BOOLEAN : Notified(delivered)
  <2>1. noticeAt' \in Nat /\ told' \in Nat
    BY <1>1, <1>2, Settings DEF ReserveNotice, ForgetNotice, Notified, MeasurementTypeOK
  <2> QED
    BY <1>2, <2>1 DEF ReserveNotice, ForgetNotice, Notified, MeasurementTypeOK
<1>3. CASE ClockTick
  <2>1. now' \in Times
    BY <1>1, <1>3 DEF ClockTick, Times
  <2> QED
    BY <1>3, <2>1 DEF ClockTick, MeasurementTypeOK
<1> QED
  BY <1>2, <1>3

\* A truth write that the breaker has let pass, or that a purge commands.
Passes ==
    \E g \in Games, found \in Findings, observed \in Findings \cup {"none"},
       commanded \in BOOLEAN :
        /\ WriteTruth(g, found, observed, commanded)
        /\ commanded \/ ~Refused(g, found, commanded)
        /\ observed = found \/ found = "partial"

\* What a step can do to cache truth.
LEMMA TruthSteps ==
    ASSUME [Next]_vars
    PROVE  \/ UNCHANGED mvars
           \/ Passes
           \/ \E g \in Games : AttemptOnly(g)
           \/ (NoticeDue /\ ReserveNotice) \/ ForgetNotice \/ ClockTick
           \/ \E delivered \in BOOLEAN : Notified(delivered)
<1>1. ASSUME NEW g \in Games, Measure(g)
      PROVE  \/ UNCHANGED mvars \/ Passes \/ AttemptOnly(g) \/ (NoticeDue /\ ReserveNotice)
             \/ \E delivered \in BOOLEAN : Notified(delivered)
  <2>1. ASSUME Record(g)
        PROVE  Passes
    <3>1. Commanded \in BOOLEAN
      BY DEF Commanded
    <3>2. task[g] \in Findings /\ ~Refused(g, task[g], Commanded)
          /\ WriteTruth(g, task[g], task[g], Commanded)
      BY <2>1 DEF Record
    <3> QED
      BY <3>1, <3>2, Zenon DEF Passes
  <2>2. ASSUME RecordPartial(g)
        PROVE  Passes
    <3>1. PICK observed \in {"none", "missing"} : WriteTruth(g, "partial", observed, TRUE)
      BY <2>2 DEF RecordPartial
    <3>2. "partial" \in Findings /\ observed \in Findings \cup {"none"}
      BY StatusFacts
    <3> QED
      BY <3>1, <3>2 DEF Passes
  <2>3. CASE Start(g) \/ Delete(g) \/ Stat(g) \/ TripQuietly(g) \/ Fail(g) \/ StampFails(g)
    BY <2>3 DEF Start, Delete, Stat, TripQuietly, Fail, StampFails
  <2>4. CASE RecordError(g) \/ Stamp(g)
    BY <2>4 DEF RecordError, Stamp
  <2>5. CASE Trip(g) \/ Pushed(g)
    BY <2>5 DEF Trip, Pushed
  <2> QED
    BY <1>1, <2>1, <2>2, <2>3, <2>4, <2>5 DEF Measure
<1>2. CASE BeginSweep \/ BeginFull
  BY <1>2 DEF BeginSweep, BeginFull, Begin
<1>3. ASSUME NEW g \in Games, BeginValidate(g) \/ BeginPurge(g) \/ Own(g) \/ OrphanFails(g)
      PROVE  UNCHANGED mvars
  BY <1>3 DEF BeginValidate, BeginPurge, Begin, Own, OrphanFails
<1>4. ASSUME NEW g \in Games, OrphanStamp(g)
      PROVE  AttemptOnly(g)
  BY <1>4 DEF OrphanStamp
<1>5. CASE Deadline \/ Finish \/ FinishFails \/ Cancel
  BY <1>5 DEF Deadline, Finish, FinishFails, Cancel
<1>6. CASE Crash \/ Second
  BY <1>6 DEF Crash, Second
<1>7. CASE Rest \/ UNCHANGED vars
  BY <1>7 DEF Rest, vars
<1> QED
  BY <1>1, <1>2, <1>3, <1>4, <1>5, <1>6, <1>7 DEF Next

-----------------------------------------------------------------------------
(* The circuit breaker.                                                    *)

\* No row of the log is of the future.
Dated == \A i \in DOMAIN log : log[i].at <= now

BreakerInv == MeasurementTypeOK /\ Dated /\ BreakerHolds

LEMMA LogFacts ==
    ASSUME MeasurementTypeOK
    PROVE  /\ DOMAIN log = 1..Len(log) /\ Len(log) \in Nat /\ now \in Nat
           /\ \A i \in DOMAIN log : log[i].at \in Nat
           /\ \A t : IsFiniteSet(InWindow(t)) /\ InWindow(t) \subseteq DOMAIN log
                     /\ Cardinality(InWindow(t)) \in Nat
<1>1. log \in Seq(Transition)
  BY DEF MeasurementTypeOK
<1>2. DOMAIN log = 1..Len(log) /\ Len(log) \in Nat /\ \A i \in DOMAIN log : log[i] \in Transition
  BY <1>1
<1>3. \A i \in DOMAIN log : log[i].at \in Nat
  BY <1>2, Settings DEF Transition
<1>4. IsFiniteSet(DOMAIN log)
  BY <1>2, FS_Interval
<1>5. ASSUME NEW t
      PROVE  IsFiniteSet(InWindow(t)) /\ InWindow(t) \subseteq DOMAIN log
             /\ Cardinality(InWindow(t)) \in Nat
  <2>1. InWindow(t) \subseteq DOMAIN log
    BY DEF InWindow
  <2> QED
    BY <1>4, <2>1, FS_Subset, FS_CardinalityType
<1> QED
  BY <1>2, <1>3, <1>5, Settings DEF MeasurementTypeOK

LEMMA PassesHolds ==
    ASSUME BreakerInv, Passes
    PROVE  BreakerInv'
<1>1. PICK g \in Games, found \in Findings, observed \in Findings \cup {"none"},
           commanded \in BOOLEAN :
             /\ WriteTruth(g, found, observed, commanded)
             /\ commanded \/ ~Refused(g, found, commanded)
  BY DEF Passes
<1>2. MeasurementTypeOK /\ MeasurementTypeOK'
  BY <1>1, WriteTyped DEF BreakerInv
<1> DEFINE drop == IsDownward(status[g], StatusFor[found])
           row == [game |-> g, prior |-> status[g], new |-> StatusFor[found],
                   downward |-> drop, commanded |-> commanded, at |-> now]
           n == Len(log) + 1
<1>3. log' = Append(log, row) /\ now' = now
  BY <1>1 DEF WriteTruth, Logged
<1>4. row.at = now /\ (row.downward <=> drop) /\ (row.commanded <=> commanded)
  OBVIOUS
<1> HIDE DEF row, drop
<1>5. /\ DOMAIN log' = DOMAIN log \cup {n} /\ log'[n] = row /\ n \notin DOMAIN log
      /\ \A i \in DOMAIN log : log'[i] = log[i]
  BY <1>2, <1>3 DEF MeasurementTypeOK
<1>6. Dated'
  BY <1>2, <1>3, <1>4, <1>5, LogFacts DEF Dated, BreakerInv
<1>7. ASSUME NEW t \in Times
      PROVE  Cardinality({i \in InWindow(t)' : log'[i].at <= t}) < Threshold
  <2> DEFINE old == {i \in InWindow(t) : log[i].at <= t}
             new == {i \in InWindow(t)' : log'[i].at <= t}
  <2>1. Cardinality(old) < Threshold
    BY <1>7 DEF BreakerInv, BreakerHolds
  <2>2. new \subseteq old \cup {n}
    BY <1>5 DEF InWindow
  <2>3. CASE n \notin new
    <3>1. new = old
      BY <1>5, <2>2, <2>3 DEF InWindow
    <3> QED
      BY <2>1, <3>1
  <2>4. CASE n \in new
    <3>1. drop /\ ~commanded /\ now <= t
      BY <1>4, <1>5, <2>4 DEF InWindow
    <3>2. Cardinality(InWindow(now)) + 1 < Threshold
      BY <1>1, <1>2, <3>1, LogFacts, Settings DEF Refused, drop
    <3>3. old \subseteq InWindow(now)
      BY <1>2, <1>7, <3>1, LogFacts, Settings DEF InWindow
    <3> HIDE DEF new, old
    <3>4. /\ IsFiniteSet(InWindow(now) \cup {n}) /\ new \subseteq InWindow(now) \cup {n}
          /\ Cardinality(InWindow(now) \cup {n}) = Cardinality(InWindow(now)) + 1
      <4>1. n \notin InWindow(now) /\ IsFiniteSet(InWindow(now))
        BY <1>2, <1>5, LogFacts
      <4> QED
        BY <2>2, <3>3, <4>1, FS_AddElement
    <3>5. Cardinality(new) <= Cardinality(InWindow(now)) + 1 /\ Cardinality(new) \in Nat
      BY <3>4, FS_Subset, FS_CardinalityType
    <3> QED
      BY <1>2, <3>2, <3>5, LogFacts, Settings DEF new
  <2> QED
    BY <2>3, <2>4
<1>8. BreakerHolds'
  BY <1>7 DEF BreakerHolds
<1> QED
  BY <1>2, <1>6, <1>8 DEF BreakerInv

LEMMA BreakerMoves ==
    ASSUME BreakerInv, [Next]_vars
    PROVE  BreakerInv'
<1>1. CASE Passes
  BY <1>1, PassesHolds
<1>2. ASSUME log' = log, now' = now, MeasurementTypeOK'
      PROVE  BreakerInv'
  BY <1>2 DEF BreakerInv, Dated, BreakerHolds, InWindow
<1>3. CASE UNCHANGED mvars
  BY <1>2, <1>3 DEF mvars, BreakerInv, MeasurementTypeOK
<1>4. CASE \E g \in Games : AttemptOnly(g)
  BY <1>2, <1>4, AttemptTyped DEF BreakerInv, AttemptOnly
<1>5. CASE ReserveNotice \/ ForgetNotice \/ \E delivered \in BOOLEAN : Notified(delivered)
  BY <1>2, <1>5, NoticeTyped DEF BreakerInv, ReserveNotice, ForgetNotice, Notified
<1>6. CASE ClockTick
  <2>1. log' = log /\ now' = now + 1 /\ MeasurementTypeOK' /\ MeasurementTypeOK
    BY <1>6, NoticeTyped DEF ClockTick, BreakerInv
  <2>2. Dated'
    BY <2>1, LogFacts DEF Dated, BreakerInv
  <2>3. BreakerHolds'
    BY <2>1 DEF BreakerInv, BreakerHolds, InWindow
  <2> QED
    BY <2>1, <2>2, <2>3 DEF BreakerInv
<1> QED
  BY <1>1, <1>3, <1>4, <1>5, <1>6, TruthSteps

\* Fewer than Threshold observed drops are ever recorded inside one window.
THEOREM BreakerCorrect == Spec => []BreakerHolds
<1>1. Init => BreakerInv
  <2>1. SUFFICES ASSUME Init
                 PROVE  BreakerInv
    OBVIOUS
  <2>2. MeasurementTypeOK /\ log = <<>>
    BY <2>1, TypeInit DEF Init
  <2>3. Dated /\ \A t \in Times : {i \in InWindow(t) : log[i].at <= t} = {}
    BY <2>2 DEF Dated, InWindow
  <2>4. Cardinality({}) = 0 /\ 0 < Threshold
    BY FS_EmptySet, Settings
  <2>5. BreakerHolds
    BY <2>3, <2>4 DEF BreakerHolds
  <2> QED
    BY <2>2, <2>3, <2>5 DEF BreakerInv
<1>2. BreakerInv /\ [Next]_vars => BreakerInv'
  BY BreakerMoves
<1>3. BreakerInv => BreakerHolds
  BY DEF BreakerInv
<1> QED
  BY <1>1, <1>2, <1>3, PTL DEF Spec

-----------------------------------------------------------------------------
(* Types, the steps of one game.                                           *)

LEMMA PhaseFacts ==
    /\ Findings \subseteq Pending /\ Pending \subseteq Phases
    /\ Pending = {"cached", "partial", "missing", "error"}
    /\ {"none", "delete", "wait", "stat", "push", "stamp", "fallback", "done"} \subseteq Phases
BY StatusFacts DEF Pending, Phases

LEMMA BeginTyped ==
    ASSUME TaskTyped, NEW kind \in Kinds, NEW rows, NEW phase \in {"wait", "stat", "delete"},
           Begin(kind, rows, phase)
    PROVE  TaskTyped'
<1>1. run' = [kind |-> kind, pass |-> pass.number, tripped |-> FALSE, late |-> FALSE, cut |-> FALSE]
  BY DEF Begin, NoRun
<1>2. run' \in Runs
  BY <1>1 DEF Runs, TaskTyped
<1>3. task' \in [Games -> Phases]
  BY PhaseFacts DEF Begin
<1> QED
  BY <1>2, <1>3 DEF Begin, TaskTyped

LEMMA EndTyped ==
    ASSUME EndRun
    PROVE  run' \in Runs /\ task' \in [Games -> Phases]
BY PhaseFacts DEF EndRun, NoRun, Runs, Kinds

LEMMA MoveTyped ==
    ASSUME TaskTyped, NEW g \in Games, NEW phase \in Phases, Move(g, phase)
    PROVE  task' \in [Games -> Phases] /\ task'[g] = phase
           /\ \A h \in Games \ {g} : task'[h] = task[h]
BY DEF TaskTyped, Move

LEMMA HaltTyped ==
    ASSUME TaskTyped, NEW g \in Games, Halt(g)
    PROVE  run' \in Runs /\ task' \in [Games -> Phases]
<1>1. CASE Sweeping
  <2>1. run' = [run EXCEPT !.tripped = TRUE] /\ Move(g, "done")
    BY <1>1 DEF Halt
  <2>2. run' \in Runs
    BY <2>1 DEF TaskTyped, Runs
  <2> QED
    BY <2>1, <2>2, MoveTyped, PhaseFacts
<1>2. CASE ~Sweeping
  BY <1>2, EndTyped DEF Halt
<1> QED
  BY <1>1, <1>2

LEMMA StartTyped ==
    ASSUME TaskTyped, NEW g \in Games, Start(g)
    PROVE  TaskTyped'
<1> DEFINE go == ~run.tripped /\ ~run.late
<1>1. Move(g, "stat") \/ Move(g, "done")
  BY DEF Start
<1>2. task' \in [Games -> Phases]
  BY <1>1, MoveTyped, PhaseFacts
<1>3. run' \in Runs
  <2> DEFINE c == run.cut \/ (~run.tripped /\ run.late)
  <2>1. c \in BOOLEAN
    OBVIOUS
  <2>2. run' = [run EXCEPT !.cut = c]
    BY DEF Start
  <2> HIDE DEF c
  <2> QED
    BY <2>1, <2>2 DEF TaskTyped, Runs
<1>4. tried' \in [Games -> Nat]
  BY DEF Start, TaskTyped
<1> QED
  BY <1>2, <1>3, <1>4 DEF Start, TaskTyped

LEMMA MeasureTyped ==
    ASSUME TaskTyped, NEW g \in Games, Measure(g)
    PROVE  TaskTyped'
<1>1. CASE Start(g)
  BY <1>1, StartTyped
<1>2. CASE Delete(g)
  BY <1>2, MoveTyped, PhaseFacts DEF Delete, TaskTyped
<1>3. CASE Stat(g)
  BY <1>3, MoveTyped, PhaseFacts DEF Stat, TaskTyped
<1>4. CASE Record(g) \/ RecordPartial(g)
  BY <1>4, MoveTyped, PhaseFacts DEF Record, RecordPartial, TaskTyped
<1>5. CASE RecordError(g)
  BY <1>5, MoveTyped, PhaseFacts DEF RecordError, TaskTyped
<1>6. CASE TripQuietly(g) \/ Pushed(g)
  BY <1>6, HaltTyped DEF TripQuietly, Pushed, TaskTyped
<1>7. CASE Trip(g)
  BY <1>7, MoveTyped, PhaseFacts DEF Trip, TaskTyped
<1>8. CASE Fail(g)
  <2>1. task' \in [Games -> Phases] /\ run' \in Runs
    BY <1>8, MoveTyped, EndTyped, PhaseFacts DEF Fail, TaskTyped
  <2> QED
    BY <1>8, <2>1 DEF Fail, Blame, TaskTyped
<1>9. CASE Stamp(g) \/ StampFails(g)
  BY <1>9, MoveTyped, PhaseFacts DEF Stamp, StampFails, TaskTyped
<1> QED
  BY <1>1, <1>2, <1>3, <1>4, <1>5, <1>6, <1>7, <1>8, <1>9 DEF Measure

LEMMA TaskMoves ==
    ASSUME MeasurementTypeOK, TaskTyped, [Next]_vars
    PROVE  TaskTyped'
<1>1. CASE BeginSweep \/ BeginFull
  BY <1>1, BeginTyped DEF BeginSweep, BeginFull, Kinds
<1>2. ASSUME NEW g \in Games, BeginValidate(g) \/ BeginPurge(g)
      PROVE  TaskTyped'
  BY <1>2, BeginTyped DEF BeginValidate, BeginPurge, Kinds
<1>3. ASSUME NEW g \in Games, Own(g) \/ OrphanStamp(g) \/ OrphanFails(g)
      PROVE  TaskTyped'
  BY <1>3 DEF Own, OrphanStamp, OrphanFails, TaskTyped
<1>4. ASSUME NEW g \in Games, Measure(g)
      PROVE  TaskTyped'
  BY <1>4, MeasureTyped
<1>5. CASE Deadline
  <2>1. run' \in Runs
    BY <1>5 DEF Deadline, TaskTyped, Runs
  <2> QED
    BY <1>5, <2>1 DEF Deadline, TaskTyped
<1>6. CASE Finish \/ FinishFails
  <2>1. pass' \in [number : Nat, start : Times]
    BY <1>6 DEF Finish, FinishFails, CompletePass, TaskTyped, MeasurementTypeOK
  <2>2. run' \in Runs /\ task' \in [Games -> Phases]
    BY <1>6, EndTyped DEF Finish, FinishFails
  <2>3. faults' \in Nat
    BY <1>6 DEF Finish, FinishFails, Blame, TaskTyped
  <2> QED
    BY <1>6, <2>1, <2>2, <2>3 DEF Finish, FinishFails, TaskTyped
<1>7. CASE Cancel \/ Crash
  <2>1. run' \in Runs /\ task' \in [Games -> Phases]
    BY <1>7, EndTyped DEF Cancel, Crash
  <2>2. faults' \in Nat /\ orphans' \subseteq Games
    BY <1>7 DEF Cancel, Crash, Blame, TaskTyped
  <2> QED
    BY <1>7, <2>1, <2>2 DEF Cancel, Crash, TaskTyped
<1>8. CASE Second \/ Rest \/ UNCHANGED vars
  BY <1>8 DEF Second, Rest, vars, svars, TaskTyped
<1> QED
  BY <1>1, <1>2, <1>3, <1>4, <1>5, <1>6, <1>7, <1>8 DEF Next

LEMMA TruthTypeMoves ==
    ASSUME MeasurementTypeOK, [Next]_vars
    PROVE  MeasurementTypeOK'
<1>1. CASE UNCHANGED mvars
  BY <1>1 DEF mvars, MeasurementTypeOK
<1> QED
  BY <1>1, WriteTyped, AttemptTyped, NoticeTyped, TruthSteps DEF Passes

\* Every variable keeps its type.
THEOREM TypeCorrect == Spec => []TypeOK
<1>1. Init => MeasurementTypeOK /\ TaskTyped
  BY TypeInit
<1>2. MeasurementTypeOK /\ TaskTyped /\ [Next]_vars => (MeasurementTypeOK /\ TaskTyped)'
  BY TaskMoves, TruthTypeMoves
<1>3. MeasurementTypeOK /\ TaskTyped => TypeOK
  BY DEF TaskTyped, TypeOK, Runs
<1> QED
  BY <1>1, <1>2, <1>3, PTL DEF Spec

-----------------------------------------------------------------------------
(* The purge.                                                              *)

Typed == MeasurementTypeOK /\ TaskTyped

LEMMA TypedAlways == Spec => []Typed
<1>1. Init => Typed
  BY TypeInit DEF Typed
<1>2. Typed /\ [Next]_vars => Typed'
  BY TaskMoves, TruthTypeMoves DEF Typed
<1> QED
  BY <1>1, <1>2, PTL DEF Spec

\* Where a purge stands while its deletion awaits a measurement.
Unmeasured == {"stat", "fallback"} \cup Pending

\* Only a purge deletes, and only another measurement trips the breaker; without
\* a failure a deletion that nobody recorded belongs to the purge in hand.
PurgeInv ==
    /\ \A g \in Games : task[g] \in {"delete", "fallback"} => run.kind = "purge"
    /\ \A g \in Games : task[g] = "push" => run.kind # "purge"
    /\ faults = 0 => \A g \in dirty : run.kind = "purge" /\ task[g] \in Unmeasured

\* Steps of one game: what the others see of them.
LEMMA GameKeepsPurge ==
    ASSUME Typed, PurgeInv, NEW g \in Games, run'.kind = run.kind, faults' = faults,
           \A h \in Games \ {g} : task'[h] = task[h],
           dirty' \subseteq dirty \cup {g},
           task'[g] \in {"delete", "fallback"} => run.kind = "purge",
           task'[g] = "push" => run.kind # "purge",
           faults = 0 /\ g \in dirty' => run.kind = "purge" /\ task'[g] \in Unmeasured
    PROVE  PurgeInv'
BY DEF Typed, TaskTyped, PurgeInv, Unmeasured

LEMMA NothingLeft ==
    ASSUME EndRun, dirty' = dirty, faults' = faults, faults = 0 => dirty = {}
    PROVE  PurgeInv'
BY DEF EndRun, PurgeInv, NoRun

LEMMA FaultExcuses ==
    ASSUME Typed, Blame,
           \A g \in Games : task'[g] \in {"delete", "fallback"} => run'.kind = "purge",
           \A g \in Games : task'[g] = "push" => run'.kind # "purge"
    PROVE  PurgeInv'
BY DEF Blame, Typed, TaskTyped, PurgeInv

LEMMA HaltKeepsPurge ==
    ASSUME Typed, PurgeInv, NEW g \in Games, Halt(g), run.kind # "purge",
           dirty' = dirty, faults' = faults
    PROVE  PurgeInv'
<1>1. faults = 0 => dirty = {}
  BY DEF PurgeInv, Typed, TaskTyped
<1>2. CASE Sweeping
  <2>1. run'.kind = run.kind /\ Move(g, "done")
    BY <1>2 DEF Halt, Typed, TaskTyped, Runs
  <2> QED
    BY <1>1, <2>1, MoveTyped, PhaseFacts, GameKeepsPurge DEF Typed
<1>3. CASE ~Sweeping
  BY <1>1, <1>3, NothingLeft DEF Halt
<1> QED
  BY <1>2, <1>3

LEMMA MeasureKeepsPurge ==
    ASSUME Typed, PurgeInv, NEW g \in Games, Measure(g)
    PROVE  PurgeInv'
<1>1. CASE Start(g)
  <2>1. g \notin dirty \/ faults # 0
    BY <1>1, PhaseFacts DEF Start, PurgeInv, Unmeasured
  <2>2. Move(g, "stat") \/ Move(g, "done")
    BY <1>1 DEF Start
  <2>3. run'.kind = run.kind
    BY <1>1 DEF Start, Typed, TaskTyped, Runs
  <2> QED
    BY <1>1, <2>1, <2>2, <2>3, MoveTyped, PhaseFacts, GameKeepsPurge DEF Start, Typed
<1>2. CASE Delete(g)
  BY <1>2, MoveTyped, PhaseFacts, GameKeepsPurge DEF Delete, Typed, PurgeInv, Unmeasured
<1>3. CASE Stat(g)
  <2>1. PICK finding \in Pending : Move(g, finding)
    BY <1>3 DEF Stat
  <2> QED
    BY <1>3, <2>1, MoveTyped, PhaseFacts, GameKeepsPurge DEF Stat, Typed, PurgeInv, Unmeasured
<1>4. CASE Record(g) \/ RecordPartial(g)
  BY <1>4, MoveTyped, PhaseFacts, GameKeepsPurge DEF Record, RecordPartial, Typed
<1>5. CASE RecordError(g)
  <2>1. CASE Commanded /\ g \in dirty
    BY <1>5, <2>1, MoveTyped, PhaseFacts, GameKeepsPurge
       DEF RecordError, Typed, Commanded, Unmeasured
  <2>2. CASE ~(Commanded /\ g \in dirty)
    BY <1>5, <2>2, MoveTyped, PhaseFacts, GameKeepsPurge
       DEF RecordError, Typed, Commanded, PurgeInv
  <2> QED
    BY <2>1, <2>2
<1>6. CASE TripQuietly(g)
  BY <1>6, HaltKeepsPurge DEF TripQuietly, Refused, Commanded
<1>7. CASE Trip(g)
  <2>1. run.kind # "purge"
    BY <1>7 DEF Trip, Refused, Commanded
  <2> QED
    BY <1>7, <2>1, MoveTyped, PhaseFacts, GameKeepsPurge DEF Trip, Typed, PurgeInv
<1>8. CASE Pushed(g)
  BY <1>8, HaltKeepsPurge DEF Pushed, PurgeInv
<1>9. CASE Fail(g)
  <2>1. CASE Move(g, "stamp") /\ run' = run
    BY <1>9, <2>1, MoveTyped, PhaseFacts, FaultExcuses DEF Fail, Typed, PurgeInv
  <2>2. CASE EndRun
    BY <1>9, <2>2, FaultExcuses DEF Fail, EndRun
  <2> QED
    BY <1>9, <2>1, <2>2 DEF Fail
<1>10. CASE Stamp(g) \/ StampFails(g)
  BY <1>10, MoveTyped, PhaseFacts, GameKeepsPurge DEF Stamp, StampFails, Typed, PurgeInv, Unmeasured
<1> QED
  BY <1>1, <1>2, <1>3, <1>4, <1>5, <1>6, <1>7, <1>8, <1>9, <1>10 DEF Measure

LEMMA PurgeMoves ==
    ASSUME Typed, PurgeInv, [Next]_vars
    PROVE  PurgeInv'
<1>1. ASSUME NEW kind \in Kinds, NEW rows, NEW phase \in {"wait", "stat", "delete"},
             Begin(kind, rows, phase), phase = "delete" => kind = "purge"
      PROVE  PurgeInv'
  <2>1. faults = 0 => dirty = {}
    BY <1>1 DEF Begin, PurgeInv, Typed, TaskTyped
  <2>2. run'.kind = kind
    BY <1>1 DEF Begin, NoRun
  <2> QED
    BY <1>1, <2>1, <2>2 DEF Begin, PurgeInv
<1>2. CASE BeginSweep \/ BeginFull
  BY <1>1, <1>2 DEF BeginSweep, BeginFull, Kinds
<1>3. ASSUME NEW g \in Games, BeginValidate(g) \/ BeginPurge(g)
      PROVE  PurgeInv'
  BY <1>1, <1>3 DEF BeginValidate, BeginPurge, Kinds
<1>4. ASSUME NEW g \in Games, Own(g) \/ OrphanStamp(g) \/ OrphanFails(g)
      PROVE  PurgeInv'
  BY <1>4 DEF Own, OrphanStamp, OrphanFails, PurgeInv
<1>5. ASSUME NEW g \in Games, Measure(g)
      PROVE  PurgeInv'
  BY <1>5, MeasureKeepsPurge
<1>6. CASE Deadline
  <2>1. run'.kind = run.kind
    BY <1>6 DEF Deadline, Typed, TaskTyped, Runs
  <2> QED
    BY <1>6, <2>1 DEF Deadline, PurgeInv
<1>7. CASE Finish
  <2>1. faults = 0 => dirty = {}
    BY <1>7, PhaseFacts DEF Finish, AllDone, PurgeInv, Unmeasured, Typed, TaskTyped
  <2> QED
    BY <1>7, <2>1, NothingLeft DEF Finish
<1>8. CASE FinishFails \/ Cancel \/ Crash
  BY <1>8, FaultExcuses DEF FinishFails, Cancel, Crash, EndRun
<1>9. CASE Second \/ Rest \/ UNCHANGED vars
  BY <1>9 DEF Second, Rest, vars, svars, PurgeInv
<1> QED
  BY <1>2, <1>3, <1>4, <1>5, <1>6, <1>7, <1>8, <1>9 DEF Next

\* Without a failure no deletion is left without its measurement.
THEOREM PurgeCorrect == Spec => []PurgeIsMeasured
<1>1. Init => PurgeInv
  BY DEF Init, PurgeInv
<1>2. Typed /\ PurgeInv /\ [Next]_vars => PurgeInv'
  BY PurgeMoves
<1>3. Typed /\ PurgeInv => PurgeIsMeasured
  BY DEF PurgeInv, PurgeIsMeasured, Typed, TaskTyped
<1> QED
  BY <1>1, <1>2, <1>3, TypedAlways, PTL DEF Spec

-----------------------------------------------------------------------------
(* The pass.                                                               *)

\* What a gated sweep owes a game it has not started: it waits, or something
\* will keep the pass open.
PassInv ==
    /\ \A g \in Games : attempt[g] <= now
    /\ run.kind = "sweep" /\ run.pass = pass.number =>
         \A g \in owned : \/ tried[g] = pass.number \/ attempt[g] > pass.start
                          \/ task[g] = "wait" \/ run.tripped \/ run.cut

\* Attempts only ever move on.
LEMMA AttemptsGrow ==
    ASSUME Typed, PassInv, [Next]_vars
    PROVE  /\ \A g \in Games : attempt'[g] <= now' /\ attempt'[g] >= attempt[g]
           /\ \A g \in Games : attempt[g] \in Int /\ attempt'[g] \in Int
           /\ pass.start \in Int /\ now \in Int
<1>1. now \in Nat /\ \A g \in Games : attempt[g] \in Int /\ attempt[g] <= now
  <2>1. now \in Times /\ attempt \in [Games -> Times \cup {-1}]
    BY DEF Typed, MeasurementTypeOK, Never
  <2>2. Times \subseteq Nat /\ Times \cup {-1} \subseteq Int
    BY Settings DEF Times
  <2>3. now \in Nat /\ \A g \in Games : attempt[g] \in Int
    BY <2>1, <2>2
  <2>4. \A g \in Games : attempt[g] <= now
    BY DEF PassInv
  <2> QED
    BY <2>3, <2>4
<1>2. /\ now' \in Nat /\ now' >= now
      /\ \A g \in Games : attempt'[g] \in {attempt[g], now}
  <2>1. CASE Passes
    <3>1. PICK g \in Games : attempt' = [attempt EXCEPT ![g] = now] /\ now' = now
      BY <2>1 DEF Passes, WriteTruth
    <3> QED
      BY <1>1, <3>1 DEF Typed, MeasurementTypeOK
  <2>2. CASE \E g \in Games : AttemptOnly(g)
    BY <1>1, <2>2 DEF AttemptOnly, Typed, MeasurementTypeOK
  <2>3. CASE UNCHANGED mvars \/ ReserveNotice \/ ForgetNotice \/ \E d \in BOOLEAN : Notified(d)
    BY <1>1, <2>3 DEF mvars, ReserveNotice, ForgetNotice, Notified
  <2>4. CASE ClockTick
    BY <1>1, <2>4 DEF ClockTick
  <2> QED
    BY <2>1, <2>2, <2>3, <2>4, TruthSteps
<1>3. pass.start \in Int
  <2>1. pass.start \in Times
    BY DEF Typed, TaskTyped
  <2> QED
    BY <2>1, Settings DEF Times
<1> QED
  BY <1>1, <1>2, <1>3

\* Steps within a run that neither end a wait nor forget a start.
LEMMA KeepsCover ==
    ASSUME Typed, PassInv, [Next]_vars, UNCHANGED <<owned, pass>>,
           run'.kind = run.kind, run'.pass = run.pass,
           run.tripped => run'.tripped, run.cut => run'.cut,
           \A g \in Games : \/ task'[g] = task[g] \/ task[g] # "wait"
                            \/ tried'[g] = pass.number \/ run'.tripped \/ run'.cut,
           \A g \in Games : tried'[g] \in {tried[g], pass.number}
    PROVE  PassInv'
BY AttemptsGrow DEF PassInv, Typed, TaskTyped

LEMMA NoCover ==
    ASSUME Typed, PassInv, [Next]_vars, run'.kind # "sweep"
    PROVE  PassInv'
BY AttemptsGrow DEF PassInv

LEMMA MeasureKeepsCover ==
    ASSUME Typed, PassInv, NEW g \in Games, Measure(g), [Next]_vars
    PROVE  PassInv'
<1>1. ASSUME NEW phase \in Phases, Move(g, phase), task[g] # "wait",
             UNCHANGED <<owned, pass, run, tried>>
      PROVE  PassInv'
  BY <1>1, MoveTyped, KeepsCover DEF Typed
<1>2. ASSUME EndRun
      PROVE  PassInv'
  BY <1>2, NoCover DEF EndRun, NoRun
<1>3. CASE Start(g)
  <2>1. Move(g, "stat") \/ Move(g, "done")
    BY <1>3 DEF Start
  <2>2. /\ run'.kind = run.kind /\ run'.pass = run.pass /\ run'.tripped = run.tripped
        /\ run.cut => run'.cut
    BY <1>3 DEF Start, Typed, TaskTyped, Runs
  <2>3. CASE ~run.tripped /\ ~run.late
    <3>1. tried' = [tried EXCEPT ![g] = pass.number]
      BY <1>3, <2>3 DEF Start
    <3>2. \A h \in Games : tried'[h] = IF h = g THEN pass.number ELSE tried[h]
      BY <3>1 DEF Typed, TaskTyped
    <3> QED
      BY <1>3, <2>1, <2>2, <3>2, MoveTyped, PhaseFacts, KeepsCover DEF Start, Typed
  <2>4. CASE run.tripped \/ run.late
    <3>1. tried' = tried /\ (run'.tripped \/ run'.cut)
      BY <1>3, <2>2, <2>4 DEF Start, Typed, TaskTyped, Runs
    <3> QED
      BY <1>3, <2>1, <2>2, <3>1, MoveTyped, PhaseFacts, KeepsCover DEF Start, Typed
  <2> QED
    BY <2>3, <2>4
<1>4. CASE Delete(g) \/ Stat(g) \/ Record(g) \/ RecordPartial(g)
  BY <1>1, <1>4, PhaseFacts DEF Delete, Stat, Record, RecordPartial
<1>5. CASE RecordError(g) \/ Trip(g) \/ Stamp(g) \/ StampFails(g)
  BY <1>1, <1>5, PhaseFacts DEF RecordError, Trip, Stamp, StampFails
<1>6. CASE TripQuietly(g) \/ Pushed(g)
  <2>1. Halt(g) /\ task[g] # "wait" /\ UNCHANGED <<owned, pass, tried>>
    BY <1>6, PhaseFacts DEF TripQuietly, Pushed
  <2>2. CASE Sweeping
    <3>1. run' = [run EXCEPT !.tripped = TRUE] /\ Move(g, "done")
      BY <2>1, <2>2 DEF Halt
    <3>2. run'.kind = run.kind /\ run'.pass = run.pass /\ run'.tripped /\ run'.cut = run.cut
      BY <3>1 DEF Typed, TaskTyped, Runs
    <3> QED
      BY <2>1, <3>1, <3>2, MoveTyped, PhaseFacts, KeepsCover DEF Typed
  <2>3. CASE ~Sweeping
    BY <1>2, <2>1, <2>3 DEF Halt
  <2> QED
    BY <2>2, <2>3
<1>7. CASE Fail(g)
  BY <1>1, <1>2, <1>7, PhaseFacts DEF Fail
<1> QED
  BY <1>3, <1>4, <1>5, <1>6, <1>7 DEF Measure

LEMMA PassMoves ==
    ASSUME Typed, PassInv, [Next]_vars
    PROVE  PassInv'
<1>1. CASE BeginSweep
  <2>1. /\ \A g \in owned : g \in Games
        /\ \A g \in Candidates : task'[g] = "wait"
        /\ UNCHANGED <<attempt, owned, pass>>
    BY <1>1 DEF BeginSweep, Begin, Candidates, mvars, Typed, TaskTyped
  <2>2. \A g \in owned \ Candidates : attempt[g] > pass.start
    BY <2>1, AttemptsGrow DEF Candidates
  <2> QED
    BY <2>1, <2>2, AttemptsGrow DEF PassInv
<1>2. CASE BeginFull
  BY <1>2, NoCover DEF BeginFull, Begin, NoRun
<1>3. ASSUME NEW g \in Games, BeginValidate(g) \/ BeginPurge(g) \/ Own(g)
      PROVE  PassInv'
  BY <1>3, NoCover DEF BeginValidate, BeginPurge, Begin, NoRun, Own
<1>4. ASSUME NEW g \in Games, OrphanStamp(g) \/ OrphanFails(g)
      PROVE  PassInv'
  BY <1>4, KeepsCover DEF OrphanStamp, OrphanFails
<1>5. ASSUME NEW g \in Games, Measure(g)
      PROVE  PassInv'
  BY <1>5, MeasureKeepsCover
<1>6. CASE Deadline
  <2>1. /\ run'.kind = run.kind /\ run'.pass = run.pass
        /\ run'.tripped = run.tripped /\ run'.cut = run.cut
    BY <1>6 DEF Deadline, Typed, TaskTyped, Runs
  <2> QED
    BY <1>6, <2>1, KeepsCover DEF Deadline
<1>7. CASE Finish \/ FinishFails \/ Cancel \/ Crash
  BY <1>7, NoCover DEF Finish, FinishFails, Cancel, Crash, EndRun, NoRun
<1>8. CASE Second \/ Rest \/ UNCHANGED vars
  BY <1>8, KeepsCover DEF Second, Rest, vars, svars
<1> QED
  BY <1>1, <1>2, <1>3, <1>4, <1>5, <1>6, <1>7, <1>8 DEF Next

\* A closed pass has covered every owned game.
THEOREM PassCorrect == Spec => PassCovers
<1> DEFINE Covers == pass' # pass =>
                       \A g \in owned : tried[g] = pass.number \/ attempt[g] > pass.start
<1>1. Init => PassInv
  <2>1. SUFFICES ASSUME Init
                 PROVE  PassInv
    OBVIOUS
  <2>2. run.kind = "none" /\ now = 0 /\ \A g \in Games : attempt[g] = -1
    BY <2>1 DEF Init, NoRun, Never
  <2> QED
    BY <2>2 DEF PassInv
<1>2. Typed /\ PassInv /\ [Next]_vars => PassInv'
  BY PassMoves
<1>3. Typed /\ PassInv /\ [Next]_vars => [Covers]_vars
  <2>1. SUFFICES ASSUME Typed, PassInv, [Next]_vars, pass' # pass
                 PROVE  \A g \in owned : tried[g] = pass.number \/ attempt[g] > pass.start
    OBVIOUS
  <2>2. Finish
    BY <2>1 DEF Next, BeginSweep, BeginFull, BeginValidate, BeginPurge, Begin, Own, Measure,
         Start, Delete, Stat, Record, RecordError, RecordPartial, TripQuietly, Trip, Pushed,
         Fail, Stamp, StampFails, OrphanStamp, OrphanFails, Deadline, FinishFails, Cancel,
         Crash, Second, Rest, vars, svars
  <2>3. run.kind = "sweep" /\ run.pass = pass.number /\ ~run.tripped /\ ~run.cut /\ AllDone
    BY <2>1, <2>2 DEF Finish, CompletePass
  <2> QED
    BY <2>1, <2>3 DEF PassInv, AllDone, Typed, TaskTyped
<1> QED
  BY <1>1, <1>2, <1>3, TypedAlways, PTL DEF Spec, PassCovers

-----------------------------------------------------------------------------
(* The pace of the notices.                                                *)

\* The slot is never free before the operator may be told again.
NoticeInv == told <= noticeAt

LEMMA NoticeMoves ==
    ASSUME Typed, NoticeInv, [Next]_vars
    PROVE  NoticeInv'
<1>1. told \in Nat /\ noticeAt \in Nat /\ now \in Nat
  <2>1. told \in Nat /\ noticeAt \in Nat /\ now \in Times
    BY DEF Typed, MeasurementTypeOK
  <2> QED
    BY <2>1, Settings
<1>2. CASE UNCHANGED <<told, noticeAt>>
  BY <1>2 DEF NoticeInv
<1>3. CASE NoticeDue /\ ReserveNotice
  BY <1>1, <1>3, Settings DEF NoticeDue, ReserveNotice, NoticeInv
<1>4. CASE (\E delivered \in BOOLEAN : Notified(delivered)) \/ ForgetNotice
  BY <1>1, <1>4, Settings DEF Notified, ForgetNotice, NoticeInv
<1>5. CASE Passes \/ (\E g \in Games : AttemptOnly(g)) \/ UNCHANGED mvars \/ ClockTick
  BY <1>2, <1>5 DEF Passes, WriteTruth, AttemptOnly, mvars, ClockTick
<1> QED
  BY <1>3, <1>4, <1>5, TruthSteps

LEMMA OnlyTripPushes ==
    ASSUME Typed, [Next]_vars, NEW g \in Games, task[g] # "push", task'[g] = "push"
    PROVE  NoticeDue
<1>1. ASSUME NEW h \in Games, Measure(h), ~NoticeDue
      PROVE  FALSE
  <2>1. ASSUME NEW phase \in Phases, Move(h, phase), phase # "push"
        PROVE  FALSE
    BY <2>1, MoveTyped DEF Typed
  <2>2. CASE EndRun
    BY <2>2 DEF EndRun
  <2>3. CASE Halt(h)
    BY <2>1, <2>2, <2>3, PhaseFacts DEF Halt
  <2>4. CASE Start(h)
    BY <2>1, <2>4, PhaseFacts DEF Start
  <2>5. CASE Stat(h)
    BY <2>1, <2>5, PhaseFacts DEF Stat
  <2>6. CASE Delete(h) \/ Record(h) \/ RecordPartial(h)
    BY <2>1, <2>6, PhaseFacts DEF Delete, Record, RecordPartial
  <2>7. CASE RecordError(h) \/ Stamp(h) \/ StampFails(h)
    BY <2>1, <2>7, PhaseFacts DEF RecordError, Stamp, StampFails
  <2>8. CASE Fail(h)
    BY <2>1, <2>2, <2>8, PhaseFacts DEF Fail
  <2>9. CASE TripQuietly(h) \/ Pushed(h) \/ Trip(h)
    BY <1>1, <2>3, <2>9 DEF TripQuietly, Pushed, Trip
  <2> QED
    BY <1>1, <2>4, <2>5, <2>6, <2>7, <2>8, <2>9 DEF Measure
<1>2. \A h \in Games : ~(Own(h) \/ OrphanStamp(h) \/ OrphanFails(h) \/ BeginValidate(h) \/ BeginPurge(h))
  BY DEF Own, OrphanStamp, OrphanFails, BeginValidate, BeginPurge, Begin
<1>3. ~(BeginSweep \/ BeginFull \/ Deadline \/ Finish \/ FinishFails \/ Cancel \/ Crash)
  BY DEF BeginSweep, BeginFull, Begin, Deadline, Finish, FinishFails, Cancel, Crash, EndRun
<1>4. ~(Second \/ Rest \/ UNCHANGED vars)
  BY DEF Second, Rest, vars, svars
<1> QED
  BY <1>1, <1>2, <1>3, <1>4 DEF Next

\* Once the operator was told of a trip, no push starts before the window is over.
THEOREM NoticeCorrect == Spec => NoticePaced
<1> DEFINE Paced == (\E g \in Games : task[g] # "push" /\ task'[g] = "push") => now >= told
<1>1. Init => NoticeInv
  BY DEF Init, NoticeInv
<1>2. Typed /\ NoticeInv /\ [Next]_vars => NoticeInv'
  BY NoticeMoves
<1>3. Typed /\ NoticeInv /\ [Next]_vars => [Paced]_vars
  <2>1. SUFFICES ASSUME Typed, NoticeInv, [Next]_vars,
                        NEW g \in Games, task[g] # "push", task'[g] = "push"
                 PROVE  now >= told
    OBVIOUS
  <2>2. now >= noticeAt
    BY <2>1, OnlyTripPushes DEF NoticeDue
  <2>3. told \in Nat /\ noticeAt \in Nat /\ now \in Times
    BY <2>1 DEF Typed, MeasurementTypeOK
  <2> QED
    BY <2>1, <2>2, <2>3, Settings DEF NoticeInv
<1> QED
  BY <1>1, <1>2, <1>3, TypedAlways, PTL DEF Spec, NoticePaced

-----------------------------------------------------------------------------
(* The log.                                                                *)

LEMMA Least ==
    ASSUME NEW S \in SUBSET Nat, S # {}
    PROVE  \E x \in S : \A y \in S : x <= y
<1> DEFINE R == OpToRel(<, Nat)
<1>1. IsWellFoundedOn(R, Nat)
  BY NatLessThanWellFounded
<1>2. \A x, y \in Nat : x < y => <<x, y>> \in R
  BY DEF OpToRel
<1> HIDE DEF R
<1>3. PICK x \in S : \A y \in S : ~ (<<y, x>> \in R)
  BY <1>1, WFMin
<1>4. ASSUME NEW y \in S
      PROVE  x <= y
  <2>1. ~ (y < x)
    BY <1>2, <1>3
  <2> QED
    BY <2>1
<1> QED
  BY <1>4

\* The rows of the same game that follow row i.
Later(i) == {j \in DOMAIN log : j > i /\ log[j].game = log[i].game}

First(S) == CHOOSE j \in S : \A k \in S : j <= k

LEMMA FirstIn ==
    ASSUME NEW S \in SUBSET Nat, S # {}
    PROVE  First(S) \in S /\ \A k \in S : First(S) <= k
BY Least DEF First

LEMMA FirstIs ==
    ASSUME NEW S \in SUBSET Nat, NEW j \in S, \A k \in S : j <= k
    PROVE  First(S) = j
<1>1. S # {}
  OBVIOUS
<1>2. First(S) \in S /\ First(S) <= j
  BY <1>1, FirstIn
<1>3. First(S) \in Nat /\ j \in Nat /\ j <= First(S)
  BY <1>2
<1> QED
  BY <1>2, <1>3

Explained ==
    \A i \in DOMAIN log :
        /\ Later(i) = {} => status[log[i].game] = log[i].new
        /\ Later(i) # {} => log[First(Later(i))].prior = log[i].new

LEMMA ExplainedIs == LogIsComplete <=> Explained
BY DEF LogIsComplete, Explained, Later, First

LogInv == Explained /\ GreenIsObserved

LEMMA PassesExplained ==
    ASSUME Typed, LogInv, Passes
    PROVE  LogInv'
<1>1. PICK g \in Games, found \in Findings, observed \in Findings \cup {"none"},
           commanded \in BOOLEAN :
             /\ WriteTruth(g, found, observed, commanded)
             /\ observed = found \/ found = "partial"
  BY DEF Passes
<1> DEFINE row == [game |-> g, prior |-> status[g], new |-> StatusFor[found],
                   downward |-> IsDownward(status[g], StatusFor[found]),
                   commanded |-> commanded, at |-> now]
<1>0. PICK n : n = Len(log) + 1
  OBVIOUS
<1>2. log' = Append(log, row)
  BY <1>1 DEF WriteTruth, Logged
<1>3. /\ status' = [status EXCEPT ![g] = StatusFor[found]]
      /\ seen' = [seen EXCEPT ![g] = observed] /\ measured' = measured \cup {g}
  BY <1>1 DEF WriteTruth
<1>4. row.game = g /\ row.prior = status[g] /\ row.new = StatusFor[found]
  OBVIOUS
<1> HIDE DEF row
<1>5. /\ DOMAIN log = 1..Len(log) /\ Len(log) \in Nat /\ DOMAIN log' = 1..n
      /\ DOMAIN log' = DOMAIN log \cup {n} /\ log'[n] = row /\ n \notin DOMAIN log /\ n \in Nat
      /\ \A i \in DOMAIN log : log'[i] = log[i] /\ i < n /\ log[i].game \in Games
  <2>1. log \in Seq(Transition)
    BY DEF Typed, MeasurementTypeOK
  <2>2. \A i \in DOMAIN log : log[i].game \in Games
    <3>1. \A i \in DOMAIN log : log[i] \in Transition
      BY <2>1
    <3> QED
      BY <3>1 DEF Transition
  <2> QED
    BY <1>0, <1>2, <2>1, <2>2
<1>6. \A h \in Games : status'[h] = IF h = g THEN StatusFor[found] ELSE status[h]
  BY <1>3 DEF Typed, MeasurementTypeOK
<1>7. ASSUME NEW i \in DOMAIN log
      PROVE  Later(i)' = IF log[i].game = g THEN Later(i) \cup {n} ELSE Later(i)
  BY <1>4, <1>5, <1>7 DEF Later
<1>8. Later(n)' = {}
  BY <1>5 DEF Later
<1>9. ASSUME NEW i \in DOMAIN log
      PROVE  /\ (Later(i) = {} => status[log[i].game] = log[i].new)'
             /\ (Later(i) # {} => log[First(Later(i))].prior = log[i].new)'
  <2>1. Later(i) \subseteq DOMAIN log /\ Later(i) \in SUBSET Nat /\ log'[i] = log[i]
    BY <1>5, <1>9 DEF Later
  <2>2. CASE log[i].game # g
    <3>1. Later(i)' = Later(i) /\ status'[log[i].game] = status[log[i].game]
      BY <1>5, <1>6, <1>7, <1>9, <2>2
    <3>2. Later(i) # {} => First(Later(i)) \in DOMAIN log
      BY <2>1, FirstIn
    <3> QED
      BY <1>5, <1>9, <2>1, <3>1, <3>2 DEF LogInv, Explained
  <2>3. CASE log[i].game = g /\ Later(i) = {}
    <3>1. Later(i)' = {n} /\ log[i].new = status[g]
      BY <1>7, <1>9, <2>3 DEF LogInv, Explained
    <3>2. First({n}) = n
      <4>1. {n} \in SUBSET Nat /\ n \in {n} /\ \A k \in {n} : n <= k
        BY <1>5
      <4> QED
        BY <4>1, FirstIs
    <3> QED
      BY <1>4, <1>5, <2>1, <3>1, <3>2
  <2>4. CASE log[i].game = g /\ Later(i) # {}
    <3>1. First(Later(i)) \in Later(i) /\ \A k \in Later(i) : First(Later(i)) <= k
      BY <2>1, <2>4, FirstIn
    <3>2. First(Later(i) \cup {n}) = First(Later(i))
      <4>1. Later(i) \cup {n} \in SUBSET Nat /\ First(Later(i)) \in Later(i) \cup {n}
        BY <1>5, <2>1, <3>1
      <4>2. \A k \in Later(i) \cup {n} : First(Later(i)) <= k
        BY <1>5, <2>1, <3>1
      <4> QED
        BY <4>1, <4>2, FirstIs
    <3>3. Later(i)' = Later(i) \cup {n}
      BY <1>7, <1>9, <2>4
    <3>4. log[First(Later(i))].prior = log[i].new
      BY <1>9, <2>4 DEF LogInv, Explained
    <3> QED
      BY <1>5, <2>1, <3>1, <3>2, <3>3, <3>4
  <2> QED
    BY <2>2, <2>3, <2>4
<1>10. Explained'
  <2>1. status'[log'[n].game] = log'[n].new
    BY <1>4, <1>5, <1>6
  <2>2. ASSUME NEW i \in DOMAIN log'
        PROVE  /\ (Later(i) = {} => status[log[i].game] = log[i].new)'
               /\ (Later(i) # {} => log[First(Later(i))].prior = log[i].new)'
    <3>1. CASE i = n
      BY <1>8, <2>1, <3>1
    <3>2. CASE i \in DOMAIN log
      BY <1>9, <3>2
    <3> QED
      BY <1>5, <2>2, <3>1, <3>2
  <2> QED
    BY <2>2 DEF Explained
<1>11. GreenIsObserved'
  <2>1. StatusFor[found] = "up_to_date" => found = "cached" /\ observed = "cached"
    BY <1>1, StatusFacts DEF StatusFor
  <2>2. seen'[g] = observed /\ \A h \in Games \ {g} : seen'[h] = seen[h]
    BY <1>3 DEF Typed, MeasurementTypeOK
  <2> QED
    BY <1>3, <1>6, <2>1, <2>2 DEF LogInv, GreenIsObserved
<1> QED
  BY <1>10, <1>11 DEF LogInv

LEMMA LogMoves ==
    ASSUME Typed, LogInv, [Next]_vars
    PROVE  LogInv'
<1>1. CASE Passes
  BY <1>1, PassesExplained
<1>2. CASE UNCHANGED <<status, log, seen, measured>>
  BY <1>2 DEF LogInv, Explained, Later, GreenIsObserved
<1> QED
  BY <1>1, <1>2, TruthSteps
     DEF mvars, AttemptOnly, ReserveNotice, ForgetNotice, ClockTick, Notified

\* The transition log is the whole history of a game's status, and a measured
\* game is green because its newest observation was.
THEOREM LogCorrect == Spec => []LogExplainsStatus
<1>1. Init => LogInv
  BY DEF Init, LogInv, Explained, GreenIsObserved
<1>2. Typed /\ LogInv /\ [Next]_vars => LogInv'
  BY LogMoves
<1>3. LogInv => LogExplainsStatus
  BY ExplainedIs DEF LogInv, LogExplainsStatus
<1> QED
  BY <1>1, <1>2, <1>3, TypedAlways, PTL DEF Spec
=============================================================================
