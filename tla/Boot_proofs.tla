----------------------------- MODULE Boot_proofs -----------------------------
(***************************************************************************)
(* Proofs about module Boot, for every number of clients, starts, faults   *)
(* and invalidations: only what the stop has cancelled may meet a closed   *)
(* pool, no invalidation of the probe's cached answer is swallowed, the    *)
(* app opens its pool on the schema of its own image, and what is          *)
(* committed is one image's whole upgrade, whatever set of migrations the  *)
(* images hold.                                                            *)
(***************************************************************************)
EXTENDS Boot, FiniteSetTheorems, WellFoundedInduction, TLAPS

-----------------------------------------------------------------------------
(* The lifespan.                                                           *)

Opened == {"reap", "schedule", "test", "serve", "unschedule", "join"}

\* Each user of the pool lives within a stretch of the lifespan.
UsersInTime ==
    /\ life \in Opened => pool = "open"
    /\ worker = "on" => life \in {"schedule", "test", "serve", "unschedule", "join"}
    /\ tick = "on" => sched = "running"
    /\ tick = "cancelled" \/ orphans => life \in {"join", "close"} /\ sched = "none"
    /\ sched = "running" => life \in {"test", "serve", "unschedule"}
    /\ sched \in {"none", "running"}

LEMMA UsersMove ==
    ASSUME UsersInTime, [Next]_vars
    PROVE  UsersInTime'
<1>1. CASE UNCHANGED lvars
  BY <1>1 DEF UsersInTime, lvars
<1>2. CASE /\ life' = "off" /\ pool' = "none" /\ worker' = "none" /\ sched' = "none"
           /\ tick' = "none" /\ orphans' = FALSE
  BY <1>2 DEF UsersInTime, Opened
<1>3. ASSUME \E b \in Builds : Start(b)
      PROVE  UsersInTime'
  BY <1>3 DEF Start, UsersInTime, Opened
<1>4. ASSUME \E b \in Builds : CliCalls(b)
      PROVE  UsersInTime'
  BY <1>4 DEF CliCalls, UsersInTime
<1>5. CASE OpenPool
  BY <1>5, <1>2 DEF OpenPool, Gone, UsersInTime, Opened
<1>6. CASE SpawnWorker \/ StartScheduler \/ SelfTest
  BY <1>6 DEF SpawnWorker, StartScheduler, SelfTest, UsersInTime, Opened
<1>7. CASE WorkerDies \/ Tick \/ OrphansEnd
  BY <1>7 DEF WorkerDies, Tick, OrphansEnd, UsersInTime, Opened
<1>8. CASE Stop \/ StopScheduler
  BY <1>8 DEF Stop, StopScheduler, UsersInTime, Opened
<1>9. CASE JoinWorker \/ ClosePool
  BY <1>9 DEF JoinWorker, ClosePool, UsersInTime, Opened
<1>10. CASE Exit \/ JoinRaises \/ Ended \/ Crash
  BY <1>10, <1>2 DEF Exit, JoinRaises, Ended, Crash, Gone
<1>11. CASE CliCrashes \/ ProbeTurns \/ (\E p \in Runners : Migrates(p))
  BY <1>11, <1>1 DEF CliCrashes, ProbeTurns, Migrates
<1>12. CASE \E c \in Clients : HealthBegins(c) \/ HealthProbes(c) \/ HealthEnds(c)
  BY <1>12, <1>1 DEF HealthBegins, HealthProbes, HealthEnds
<1>13. CASE UNCHANGED vars
  BY <1>13, <1>1 DEF vars
<1> QED
  BY <1>3, <1>4, <1>5, <1>6, <1>7, <1>8, <1>9, <1>10, <1>11, <1>12, <1>13 DEF Next

-----------------------------------------------------------------------------
(* The probe.                                                              *)

Callers == [pc : {"idle", "probe", "wait", "told"}, asked : Nat, got : Nat, beside : BOOLEAN]

\* A cleared flag means that the latest invalidation has been seen: by the
\* refresh under way, or by the one that brought the cached answer.
SeenWhenClear ==
    ~force => IF refresh = NoRefresh THEN cache.began = forced ELSE refresh = forced

\* The refresh under way is that of the first in line, and began after it asked.
RefreshOfHead ==
    refresh # NoRefresh =>
        /\ refresh <= forced
        /\ lock # <<>>
        /\ caller[Head(lock)].pc = "wait" /\ caller[Head(lock)].asked <= refresh

AskedBefore == \A c \in Clients : caller[c].asked <= forced

ProbeInv ==
    /\ cache \in [age : Nat, began : Nat]
    /\ forced \in 0..MaxForced /\ refresh \in 0..NoRefresh
    /\ lock \in Seq(Clients)
    /\ caller \in [Clients -> Callers]
    /\ AskedBefore /\ SeenWhenClear /\ RefreshOfHead
    /\ InvalidationLands

LEMMA NoCallerFacts ==
    /\ NoCaller \in Callers
    /\ NoCaller.pc = "idle" /\ NoCaller.asked = 0 /\ NoCaller.got = 0
BY DEF NoCaller, Callers

LEMMA Fresh ==
    ASSUME cache' = [age |-> Never, began |-> 0],
           force' = FALSE, lock' = <<>>, refresh' = NoRefresh, forced' = 0,
           caller' = [c \in Clients |-> NoCaller]
    PROVE  ProbeInv'
<1>1. MaxForced \in Nat /\ NoRefresh = MaxForced + 1 /\ Never \in Nat
  BY ProbeAssumption DEF NoRefresh, Never
<1>2. \A c \in Clients : caller'[c] = NoCaller
  OBVIOUS
<1>3. caller' \in [Clients -> Callers]
  BY DEF Callers, NoCaller
<1>4. AskedBefore' /\ InvalidationLands'
  BY <1>2 DEF AskedBefore, InvalidationLands, NoCaller
<1>5. SeenWhenClear' /\ RefreshOfHead'
  BY DEF SeenWhenClear, RefreshOfHead, NoRefresh
<1>6. cache' \in [age : Nat, began : Nat] /\ lock' \in Seq(Clients)
  BY <1>1
<1>7. forced' \in 0..MaxForced /\ refresh' \in 0..NoRefresh
  BY <1>1
<1> QED
  BY <1>3, <1>4, <1>5, <1>6, <1>7 DEF ProbeInv, NoRefresh

LEMMA ProbeTyped ==
    ASSUME ProbeInv
    PROVE  /\ caller \in [Clients -> Callers] /\ lock \in Seq(Clients)
           /\ cache \in [age : Nat, began : Nat] /\ cache.began \in Nat
           /\ forced \in Nat /\ forced <= MaxForced
           /\ refresh \in Nat /\ MaxForced \in Nat /\ NoRefresh = MaxForced + 1
           /\ \A c \in Clients : caller[c] \in Callers /\ caller[c].asked \in Nat
                                 /\ caller[c].got \in Nat /\ caller[c].asked <= forced
BY ProbeAssumption DEF ProbeInv, NoRefresh, Callers, AskedBefore

\* A caller that is given the cached result has got, or is beside, a refresh
\* that began after it asked.
LEMMA CachedLands ==
    ASSUME ProbeInv, NEW c \in Clients, CacheFresh, Given(c),
           UNCHANGED <<cache, refresh, forced, force>>,
           \/ caller[c].pc = "probe" /\ lock' = lock
           \/ refresh = NoRefresh /\ lock' = Tail(lock) /\ lock # <<>>
    PROVE  ProbeInv'
<1> DEFINE b   == refresh \in caller[c].asked..MaxForced
           new == [caller[c] EXCEPT !.pc = "told", !.got = cache.began, !.beside = b]
<1>1. caller' = [caller EXCEPT ![c] = new]
  BY ProbeTyped DEF Given
<1>2. new \in Callers /\ new.pc = "told" /\ new.asked = caller[c].asked
      /\ new.got = cache.began /\ new.beside = b
  <2>1. b \in BOOLEAN
    OBVIOUS
  <2>2. caller[c] \in Callers /\ cache.began \in Nat
    BY ProbeTyped
  <2>3. \A x \in BOOLEAN : LET n == [caller[c] EXCEPT !.pc = "told", !.got = cache.began, !.beside = x]
                           IN n \in Callers /\ n.pc = "told" /\ n.asked = caller[c].asked
                              /\ n.got = cache.began /\ n.beside = x
    BY <2>2 DEF Callers
  <2> HIDE DEF b
  <2> QED
    BY <2>1, <2>3, Zenon
<1>3. new.got >= new.asked \/ new.beside
  <2>1. CASE refresh = NoRefresh
    BY <1>2, <2>1, ProbeTyped DEF ProbeInv, SeenWhenClear, CacheFresh
  <2>2. CASE refresh # NoRefresh
    <3>1. refresh = forced /\ caller[c].asked <= forced
      BY <2>2, ProbeTyped DEF ProbeInv, SeenWhenClear, CacheFresh
    <3>2. b
      BY <3>1, ProbeTyped
    <3> QED
      BY <1>2, <3>2
  <2> QED
    BY <2>1, <2>2
<1> HIDE DEF new
<1>4. caller' \in [Clients -> Callers] /\ caller'[c] = new
      /\ \A d \in Clients \ {c} : caller'[d] = caller[d]
  BY <1>1, <1>2, ProbeTyped
<1>5. AskedBefore'
  BY <1>2, <1>4, ProbeTyped DEF AskedBefore
<1>6. InvalidationLands'
  BY <1>3, <1>4 DEF InvalidationLands, ProbeInv
<1>7. RefreshOfHead'
  <2>1. SUFFICES ASSUME refresh # NoRefresh
                 PROVE  RefreshOfHead'
    BY DEF RefreshOfHead, NoRefresh
  <2>2. lock' = lock /\ caller[c].pc = "probe" /\ lock # <<>> /\ caller[Head(lock)].pc = "wait"
    BY <2>1 DEF ProbeInv, RefreshOfHead
  <2>3. Head(lock) \in Clients /\ Head(lock) # c
    BY <2>2, ProbeTyped
  <2> QED
    BY <2>1, <2>2, <2>3, <1>4 DEF ProbeInv, RefreshOfHead, NoRefresh
<1>8. SeenWhenClear'
  BY DEF ProbeInv, SeenWhenClear, NoRefresh
<1>9. lock' \in Seq(Clients)
  <2>1. CASE lock' = lock
    BY <2>1, ProbeTyped
  <2>2. CASE lock' = Tail(lock) /\ lock # <<>>
    BY <2>2, ProbeTyped
  <2> QED
    BY <2>1, <2>2
<1> QED
  BY <1>4, <1>5, <1>6, <1>7, <1>8, <1>9 DEF ProbeInv, NoRefresh

LEMMA WaitLands ==
    ASSUME ProbeInv, NEW c \in Clients, ProbeWaits(c)
    PROVE  ProbeInv'
<1> DEFINE new == [caller[c] EXCEPT !.pc = "wait"]
<1>1. new \in Callers /\ new.pc = "wait" /\ new.asked = caller[c].asked
  BY ProbeTyped DEF Callers
<1>2. caller' = [caller EXCEPT ![c] = new] /\ lock' = Append(lock, c) /\ caller[c].pc = "probe"
      /\ UNCHANGED <<cache, force, refresh, forced>>
  BY ProbeTyped DEF ProbeWaits
<1> HIDE DEF new
<1>3. caller' \in [Clients -> Callers] /\ caller'[c] = new
      /\ \A d \in Clients \ {c} : caller'[d] = caller[d]
  BY <1>1, <1>2, ProbeTyped
<1>4. AskedBefore' /\ InvalidationLands'
  BY <1>1, <1>2, <1>3, ProbeTyped DEF AskedBefore, InvalidationLands, ProbeInv
<1>5. RefreshOfHead'
  <2>1. SUFFICES ASSUME refresh # NoRefresh
                 PROVE  RefreshOfHead'
    BY <1>2 DEF RefreshOfHead, NoRefresh
  <2>2. lock # <<>> /\ caller[Head(lock)].pc = "wait"
    BY <2>1 DEF ProbeInv, RefreshOfHead
  <2>3. Head(lock) \in Clients /\ Head(lock) # c /\ Head(lock') = Head(lock) /\ lock' # <<>>
    BY <1>2, <2>2, ProbeTyped
  <2> QED
    BY <2>1, <2>2, <2>3, <1>2, <1>3 DEF ProbeInv, RefreshOfHead, NoRefresh
<1>6. SeenWhenClear' /\ lock' \in Seq(Clients)
  BY <1>2, ProbeTyped DEF ProbeInv, SeenWhenClear, NoRefresh
<1> QED
  BY <1>2, <1>3, <1>4, <1>5, <1>6 DEF ProbeInv, NoRefresh

LEMMA RefreshLands ==
    ASSUME ProbeInv, NEW c \in Clients, RefreshBegins(c) \/ RefreshEnds(c)
    PROVE  ProbeInv'
<1>1. caller[c].pc = "wait" /\ lock # <<>> /\ Head(lock) = c
  BY DEF RefreshBegins, RefreshEnds, Holds
<1>2. CASE RefreshBegins(c)
  <2>1. forced' = forced /\ refresh' = forced /\ UNCHANGED <<cache, lock, caller>>
    BY <1>2 DEF RefreshBegins
  <2>2. SeenWhenClear' /\ refresh' \in 0..NoRefresh
    BY <2>1, ProbeTyped DEF SeenWhenClear, NoRefresh
  <2>3. RefreshOfHead'
    BY <2>1, <1>1, ProbeTyped DEF RefreshOfHead, NoRefresh
  <2> QED
    BY <2>1, <2>2, <2>3 DEF ProbeInv, AskedBefore, InvalidationLands, NoRefresh
<1>3. CASE RefreshEnds(c)
  <2> DEFINE new == [caller[c] EXCEPT !.pc = "told", !.got = refresh]
  <2>1. refresh # NoRefresh /\ refresh <= forced /\ caller[c].asked <= refresh
    BY <1>1, <1>3 DEF RefreshEnds, ProbeInv, RefreshOfHead
  <2>2. new \in Callers /\ new.pc = "told" /\ new.asked = caller[c].asked /\ new.got = refresh
    BY ProbeTyped DEF Callers
  <2>3. /\ caller' = [caller EXCEPT ![c] = new] /\ lock' = Tail(lock)
        /\ cache' = [age |-> 0, began |-> refresh] /\ refresh' = NoRefresh
        /\ force' = force /\ forced' = forced
    BY <1>3, ProbeTyped DEF RefreshEnds
  <2> HIDE DEF new
  <2>4. caller' \in [Clients -> Callers] /\ caller'[c] = new
        /\ \A d \in Clients \ {c} : caller'[d] = caller[d]
    BY <2>2, <2>3, ProbeTyped
  <2>5. AskedBefore'
    BY <2>2, <2>3, <2>4, ProbeTyped DEF AskedBefore
  <2>6. InvalidationLands'
    BY <2>1, <2>2, <2>4, ProbeTyped DEF InvalidationLands, ProbeInv
  <2>7. SeenWhenClear' /\ RefreshOfHead'
    BY <2>1, <2>3 DEF SeenWhenClear, RefreshOfHead, ProbeInv, NoRefresh
  <2>8. lock' \in Seq(Clients) /\ cache' \in [age : Nat, began : Nat]
    BY <1>1, <2>3, ProbeTyped
  <2>9. forced' \in 0..MaxForced /\ refresh' \in 0..NoRefresh
    BY <2>3, ProbeTyped
  <2> QED
    BY <2>4, <2>5, <2>6, <2>7, <2>8, <2>9 DEF ProbeInv, NoRefresh
<1> QED
  BY <1>2, <1>3

\* The steps of the lifespan and of its requests.
LEMMA RequestLands ==
    ASSUME ProbeInv, NEW c \in Clients, HealthBegins(c) \/ HealthEnds(c)
    PROVE  ProbeInv'
<1>1. UNCHANGED <<cache, force, lock, refresh, forced>> /\ caller[c].pc \in {"idle", "told"}
  BY DEF HealthBegins, HealthEnds
<1>2. PICK new \in Callers : caller' = [caller EXCEPT ![c] = new] /\ new.pc # "told"
                             /\ new.asked \in {0, forced}
  <2>1. CASE HealthBegins(c)
    <3> DEFINE new == [NoCaller EXCEPT !.pc = "probe", !.asked = forced]
    <3>1. new \in Callers /\ new.pc = "probe" /\ new.asked = forced
      BY NoCallerFacts, ProbeTyped DEF Callers
    <3>2. caller' = [caller EXCEPT ![c] = new]
      BY <2>1 DEF HealthBegins
    <3> HIDE DEF new
    <3> QED
      BY <3>1, <3>2
  <2>2. CASE HealthEnds(c)
    BY <2>2, NoCallerFacts DEF HealthEnds
  <2> QED
    BY <2>1, <2>2
<1>3. caller' \in [Clients -> Callers] /\ caller'[c] = new
      /\ \A d \in Clients \ {c} : caller'[d] = caller[d]
  BY <1>2, ProbeTyped
<1>4. AskedBefore' /\ InvalidationLands'
  BY <1>1, <1>2, <1>3, ProbeTyped DEF AskedBefore, InvalidationLands, ProbeInv
<1>5. RefreshOfHead'
  <2>1. SUFFICES ASSUME refresh # NoRefresh
                 PROVE  RefreshOfHead'
    BY <1>1 DEF RefreshOfHead, NoRefresh
  <2>2. lock # <<>> /\ caller[Head(lock)].pc = "wait"
    BY <2>1 DEF ProbeInv, RefreshOfHead
  <2>3. Head(lock) \in Clients /\ Head(lock) # c
    BY <1>1, <2>2, ProbeTyped
  <2> QED
    BY <2>1, <2>2, <2>3, <1>1, <1>3 DEF ProbeInv, RefreshOfHead, NoRefresh
<1> QED
  BY <1>1, <1>3, <1>4, <1>5 DEF ProbeInv, SeenWhenClear, NoRefresh

LEMMA TurnLands ==
    ASSUME ProbeInv, Invalidate \/ Ages
    PROVE  ProbeInv'
<1>1. CASE Invalidate
  <2>1. forced' = forced + 1 /\ forced' \in 0..MaxForced /\ force'
        /\ UNCHANGED <<cache, lock, refresh, caller>>
    BY <1>1, ProbeTyped DEF Invalidate
  <2>2. AskedBefore' /\ RefreshOfHead'
    BY <2>1, ProbeTyped DEF ProbeInv, AskedBefore, RefreshOfHead, NoRefresh
  <2> QED
    BY <2>1, <2>2 DEF ProbeInv, SeenWhenClear, InvalidationLands, NoRefresh
<1>2. CASE Ages
  <2>1. cache' \in [age : Nat, began : Nat] /\ cache'.began = cache.began
    BY <1>2, ProbeTyped DEF Ages
  <2> QED
    BY <1>2, <2>1 DEF Ages, ProbeInv, AskedBefore, SeenWhenClear, RefreshOfHead,
                      InvalidationLands, NoRefresh
<1> QED
  BY <1>1, <1>2

LEMMA ProbeStepLands ==
    ASSUME ProbeInv, NEW c \in Clients, ProbeStep(c)
    PROVE  ProbeInv'
<1>1. CASE ProbeCached(c) \/ ProbeShares(c)
  BY <1>1, CachedLands DEF ProbeCached, ProbeShares, Holds
<1>2. CASE ProbeWaits(c)
  BY <1>2, WaitLands
<1>3. CASE RefreshBegins(c) \/ RefreshEnds(c)
  BY <1>3, RefreshLands
<1> QED
  BY <1>1, <1>2, <1>3 DEF ProbeStep

LEMMA ProbeMoves ==
    ASSUME ProbeInv, [Next]_vars
    PROVE  ProbeInv'
<1>1. CASE UNCHANGED pvars
  BY <1>1 DEF pvars, ProbeInv, AskedBefore, SeenWhenClear, RefreshOfHead, InvalidationLands,
              NoRefresh
<1>2. CASE Gone
  BY <1>2, Fresh DEF Gone
<1>3. ASSUME \E b \in Builds : Start(b) \/ CliCalls(b)
      PROVE  ProbeInv'
  BY <1>1, <1>3 DEF Start, CliCalls
<1>4. CASE \E p \in Runners : Migrates(p)
  BY <1>1, <1>4 DEF Migrates
<1>5. CASE Exit \/ OpenPool \/ SpawnWorker \/ StartScheduler \/ SelfTest
  BY <1>1, <1>2, <1>5 DEF Exit, OpenPool, SpawnWorker, StartScheduler, SelfTest, pvars
<1>6. CASE WorkerDies \/ Tick \/ OrphansEnd
  BY <1>1, <1>6 DEF WorkerDies, Tick, OrphansEnd
<1>7. CASE ProbeTurns
  BY <1>7, TurnLands DEF ProbeTurns
<1>8. ASSUME NEW c \in Clients, HealthBegins(c) \/ HealthProbes(c) \/ HealthEnds(c)
      PROVE  ProbeInv'
  BY <1>8, RequestLands, ProbeStepLands DEF HealthProbes
<1>9. CASE Stop \/ StopScheduler \/ JoinWorker \/ ClosePool \/ CliCrashes
  BY <1>1, <1>9 DEF Stop, StopScheduler, JoinWorker, ClosePool, CliCrashes
<1>10. CASE JoinRaises \/ Ended \/ Crash
  BY <1>2, <1>10 DEF JoinRaises, Ended, Crash
<1>11. CASE UNCHANGED vars
  BY <1>1, <1>11 DEF vars, pvars
<1> QED
  BY <1>3, <1>4, <1>5, <1>6, <1>7, <1>8, <1>9, <1>10, <1>11 DEF Next

LEMMA ProbeInductive == Spec => []ProbeInv
<1>1. Init => ProbeInv
  <2>1. SUFFICES ASSUME ProbeInit
                 PROVE  ProbeInv
    BY DEF Init
  <2>2. MaxForced \in Nat /\ NoRefresh = MaxForced + 1 /\ Never \in Nat
    BY ProbeAssumption DEF NoRefresh, Never
  <2>3. caller \in [Clients -> Callers] /\ \A c \in Clients : caller[c] = NoCaller
    BY <2>1, NoCallerFacts DEF ProbeInit
  <2>4. AskedBefore /\ InvalidationLands
    BY <2>1, <2>2, <2>3, NoCallerFacts DEF ProbeInit, AskedBefore, InvalidationLands
  <2>5. /\ cache = [age |-> Never, began |-> 0]
        /\ refresh = NoRefresh /\ lock = <<>> /\ forced = 0
    BY <2>1 DEF ProbeInit
  <2>6. SeenWhenClear /\ RefreshOfHead
    BY <2>5 DEF SeenWhenClear, RefreshOfHead
  <2>7. cache \in [age : Nat, began : Nat] /\ lock \in Seq(Clients)
    BY <2>2, <2>5
  <2> QED
    BY <2>2, <2>3, <2>4, <2>5, <2>6, <2>7 DEF ProbeInv
<1>2. ProbeInv /\ [Next]_vars => ProbeInv'
  BY ProbeMoves
<1> QED
  BY <1>1, <1>2, PTL DEF Spec

\* Every invalidation is seen by the next probe that begins, or a refresh that
\* began after it is under way.
THEOREM InvalidationLandsCorrect == Spec => []InvalidationLands
<1>1. Spec => []ProbeInv
  BY ProbeInductive
<1>2. ProbeInv => InvalidationLands
  BY DEF ProbeInv
<1> QED
  BY <1>1, <1>2, PTL

-----------------------------------------------------------------------------
(* The requests, and with them every user of the pool.                     *)

RequestsInTime == \A c \in Clients : caller[c].pc # "idle" => life = "serve"

LEMMA RequestsMove ==
    ASSUME ProbeInv, RequestsInTime, [Next]_vars
    PROVE  RequestsInTime'
<1>1. CASE UNCHANGED <<caller, life>>
  BY <1>1 DEF RequestsInTime
<1>2. CASE Gone
  BY <1>2 DEF Gone, RequestsInTime, NoCaller
<1>3. ASSUME caller' = caller, life # "serve"
      PROVE  RequestsInTime'
  BY <1>3 DEF RequestsInTime
<1>4. ASSUME \E b \in Builds : Start(b) \/ CliCalls(b)
      PROVE  RequestsInTime'
  BY <1>1, <1>3, <1>4 DEF Start, CliCalls, pvars
<1>5. CASE (\E p \in Runners : Migrates(p)) \/ WorkerDies \/ Tick \/ OrphansEnd \/ CliCrashes
  BY <1>1, <1>5 DEF Migrates, WorkerDies, Tick, OrphansEnd, CliCrashes, pvars, lvars
<1>6. CASE Exit \/ OpenPool \/ JoinRaises \/ Ended \/ Crash
  BY <1>2, <1>3, <1>6 DEF Exit, OpenPool, JoinRaises, Ended, Crash, pvars
<1>7. CASE SpawnWorker \/ StartScheduler \/ SelfTest \/ StopScheduler \/ JoinWorker \/ ClosePool
  BY <1>3, <1>7 DEF SpawnWorker, StartScheduler, SelfTest, StopScheduler, JoinWorker, ClosePool,
                    pvars
<1>8. CASE Stop
  BY <1>8 DEF Stop, RequestsInTime, pvars
<1>9. CASE ProbeTurns
  BY <1>1, <1>9 DEF ProbeTurns, Invalidate, Ages, lvars
<1>10. ASSUME NEW c \in Clients, HealthBegins(c) \/ HealthProbes(c) \/ HealthEnds(c)
       PROVE  RequestsInTime'
  <2>1. life' = life /\ life = "serve"
    BY <1>10 DEF HealthBegins, HealthProbes, HealthEnds, lvars, RequestsInTime, ProbeStep,
                 ProbeCached, ProbeWaits, ProbeShares, RefreshBegins, RefreshEnds, Holds
  <2> QED
    BY <2>1 DEF RequestsInTime
<1>11. CASE UNCHANGED vars
  BY <1>1, <1>11 DEF vars, pvars, lvars
<1> QED
  BY <1>4, <1>5, <1>6, <1>7, <1>8, <1>9, <1>10, <1>11 DEF Next

\* However a start or a stop goes, the worker, a request, the scheduler and a
\* callback in good standing find the pool open; only a callback and the tasks of
\* a sweep that were cancelled may still be there when it is closed.
THEOREM LateUsersAreCancelledCorrect == Spec => []LateUsersAreCancelled
<1>1. Init => UsersInTime /\ RequestsInTime
  BY DEF Init, ProbeInit, UsersInTime, RequestsInTime, Opened, NoCaller
<1>2. UsersInTime /\ [Next]_vars => UsersInTime'
  BY UsersMove
<1>3. ProbeInv /\ RequestsInTime /\ [Next]_vars => RequestsInTime'
  BY RequestsMove
<1>4. UsersInTime /\ RequestsInTime => LateUsersAreCancelled
  BY DEF UsersInTime, RequestsInTime, LateUsersAreCancelled, Opened
<1>5. Spec => []ProbeInv
  BY ProbeInductive
<1> QED
  BY <1>1, <1>2, <1>3, <1>4, <1>5, PTL DEF Spec

-----------------------------------------------------------------------------
(* The schema that a process opens.  Runners of different images migrate   *)
(* beside each other, and the check at the pool's opening compares ids     *)
(* alone.                                                                  *)

Pinned(p)  == runner[p].build.files
Applies(p) == runner[p].pc = "apply"

RunnerPcs == {"idle", "prepare", "begin", "apply", "done", "refused"}

RunnerTyped == runner \in [Runners -> [pc : RunnerPcs, build : Builds \cup {None}]]

IsFun(f) == f = [i \in DOMAIN f |-> f[i]]

\* Every row of `rows` is a row of `more`.
Extends(more, rows) == \A i \in DOMAIN rows : i \in DOMAIN more /\ more[i] = rows[i]

\* A runner that applies owns the transaction: what it has not done is to do,
\* what it did is its own image's, and what was committed is part of it.
TxnInv ==
    \A p \in Runners : Applies(p) =>
        /\ txn = [rows |-> txn.rows, tables |-> txn.tables, todo |-> txn.todo, stmt |-> txn.stmt]
        /\ txn.stmt \in Nat \ {0}
        /\ \A q \in Runners : Applies(q) => q = p
        /\ DOMAIN Pinned(p) = DOMAIN txn.rows \cup txn.todo
        /\ IsFun(txn.rows) /\ Extends(Pinned(p), txn.rows) /\ Extends(txn.rows, db.rows)

\* What a runner committed stays.
DoneInv == \A p \in Runners : runner[p].pc = "done" => Extends(db.rows, Pinned(p))

OwnInv == RunnerTyped /\ IsFun(db.rows) /\ TxnInv /\ DoneInv

\* Some numbers have a least one.
LEMMA HasLeast ==
    ASSUME NEW S, S \subseteq Nat, S # {}
    PROVE  \E x \in S : \A y \in S : x <= y
<1>1. PICK Less : /\ IsWellFoundedOn(Less, Nat)
                  /\ \A x, y \in Nat : x < y => <<x, y>> \in Less
  <2>1. IsWellFoundedOn(OpToRel(<, Nat), Nat)
    BY NatLessThanWellFounded
  <2>2. \A x, y \in Nat : x < y => <<x, y>> \in OpToRel(<, Nat)
    BY DEF OpToRel
  <2> QED
    BY <2>1, <2>2, Zenon
<1>2. PICK x \in S : \A y \in S : <<y, x>> \notin Less
  <2>1. IsWellFoundedOn(Less, Nat)
    BY <1>1
  <2> QED
    BY <2>1, WFMin, ZenonT(20)
<1>3. \A y \in S : x <= y
  <2>1. \A y \in S : ~(y < x)
    BY <1>1, <1>2
  <2> QED
    BY <2>1
<1> QED
  BY <1>3

\* A set of numbers with 0 and every successor holds them all.
LEMMA Induction ==
    ASSUME NEW S, 0 \in S, \A n \in Nat : n \in S => n + 1 \in S
    PROVE  Nat \subseteq S
<1> SUFFICES ASSUME Nat \ S # {} PROVE FALSE
  OBVIOUS
<1>1. PICK m \in Nat \ S : \A k \in Nat \ S : m <= k
  <2>1. Nat \ S \subseteq Nat
    OBVIOUS
  <2> QED
    BY <2>1, HasLeast
<1>2. m \in Nat /\ m # 0 /\ m - 1 \in Nat /\ (m - 1) + 1 = m /\ m \notin S
  BY <1>1
<1>3. m - 1 \in S
  BY <1>1, <1>2
<1> QED
  BY <1>2, <1>3

\* The least id still to do is one of them.
LEMMA LeastOf ==
    ASSUME NEW S, S \subseteq Nat, S # {}
    PROVE  Min(S) \in S
BY HasLeast DEF Min

\* An image's ids are numbers.
LEMMA PinnedFacts ==
    ASSUME RunnerTyped, NEW p \in Runners
    PROVE  DOMAIN Pinned(p) \subseteq Nat /\ IsFun(Pinned(p))
<1>1. runner[p].build \in Builds \cup {None}
  BY DEF RunnerTyped
<1>2. CASE runner[p].build \in Builds
  BY <1>2, MigrationsAssumption DEF Pinned, IsFun
<1>3. CASE runner[p].build = None
  BY <1>3 DEF Pinned, IsFun, None
<1> QED
  BY <1>1, <1>2, <1>3

\* A runner's move is its own.
LEMMA GoesTo ==
    ASSUME RunnerTyped, NEW p \in Runners, NEW pc \in RunnerPcs,
           runner' = [runner EXCEPT ![p].pc = pc]
    PROVE  /\ RunnerTyped' /\ runner'[p].pc = pc /\ runner'[p].build = runner[p].build
           /\ \A q \in Runners \ {p} : runner'[q] = runner[q]
BY DEF RunnerTyped

\* A runner leaves, or is called anew, and with it goes its transaction.
LEMMA Leaves ==
    ASSUME OwnInv, NEW p \in Runners, RunnerTyped', runner'[p].pc \notin {"apply", "done"},
           \A q \in Runners \ {p} : runner'[q] = runner[q],
           UNCHANGED db, Applies(p) \/ UNCHANGED txn
    PROVE  OwnInv'
<1>1. IsFun(db.rows)' /\ DoneInv'
  BY DEF OwnInv, DoneInv, Pinned, Extends, IsFun
<1>2. CASE Applies(p)
  <2>1. \A q \in Runners : ~Applies(q)'
    BY <1>2 DEF OwnInv, TxnInv, Applies
  <2> QED
    BY <1>1, <2>1 DEF TxnInv, OwnInv
<1>3. CASE UNCHANGED txn
  <2>1. \A q \in Runners : Applies(q)' => Applies(q) /\ Pinned(q)' = Pinned(q)
    BY DEF Applies, Pinned
  <2>2. TxnInv
    BY DEF OwnInv
  <2> QED
    BY <1>1, <1>3, <2>1, <2>2 DEF TxnInv, Extends, IsFun, OwnInv
<1> QED
  BY <1>2, <1>3

\* The transaction begins.
LEMMA BeginOwn ==
    ASSUME OwnInv, NEW p \in Runners, BeginTxn(p), runner'[p].pc = "apply"
    PROVE  OwnInv'
<1> DEFINE files == Pinned(p)
<1>1. /\ runner[p].pc = "begin" /\ txn = NoTxn /\ db' = db
      /\ ~GapRefused(DOMAIN db.rows, DOMAIN files) /\ ~Drifted(db.rows, files)
      /\ txn' = [rows |-> db.rows, tables |-> db.tables, stmt |-> 1,
                 todo |-> DOMAIN files \ DOMAIN db.rows]
      /\ Goto(p, "apply")
  <2>1. RunnerTyped
    BY DEF OwnInv
  <2>2. ~Goto(p, "refused")
    BY <2>1 DEF Goto, RunnerTyped, RunnerPcs
  <2> QED
    BY <2>2, Zenon DEF BeginTxn, Pinned
<1>2. /\ RunnerTyped' /\ Pinned(p)' = Pinned(p)
      /\ \A q \in Runners \ {p} : runner'[q] = runner[q]
  <2>1. RunnerTyped
    BY DEF OwnInv
  <2>2. runner' = [runner EXCEPT ![p].pc = "apply"]
    BY <1>1 DEF Goto
  <2> QED
    BY <2>1, <2>2, GoesTo DEF Pinned, RunnerPcs
<1>3. \A q \in Runners : ~Applies(q)
  BY <1>1 DEF OwnInv, TxnInv, NoTxn
<1>4. Extends(files, db.rows)
  BY <1>1 DEF GapRefused, Drifted, Extends
<1>5. TxnInv'
  <2>1. \A q \in Runners : Applies(q)' => q = p
    BY <1>2, <1>3 DEF Applies
  <2>2. /\ DOMAIN files = DOMAIN txn'.rows \cup txn'.todo /\ txn'.stmt = 1
        /\ txn' = [rows |-> txn'.rows, tables |-> txn'.tables, todo |-> txn'.todo, stmt |-> txn'.stmt]
        /\ txn'.rows = db.rows
    BY <1>1, <1>4 DEF Extends
  <2>3. IsFun(txn'.rows) /\ Extends(files, txn'.rows) /\ Extends(txn'.rows, db'.rows)
    BY <1>1, <1>4, <2>2 DEF OwnInv, Extends
  <2> QED
    BY <1>2, <2>1, <2>2, <2>3 DEF TxnInv, Extends, IsFun
<1> QED
  BY <1>1, <1>2, <1>5 DEF OwnInv, DoneInv, Extends, Pinned, IsFun

\* A statement changes tables, not rows.
LEMMA StatementOwn ==
    ASSUME OwnInv, NEW p \in Runners, ApplyStatement(p)
    PROVE  OwnInv'
<1> DEFINE tables == Ran(txn.tables, Statements(p)[txn.stmt])
<1>1. Applies(p) /\ txn' = [txn EXCEPT !.tables = tables, !.stmt = txn.stmt + 1]
  BY DEF ApplyStatement, Todo, Applies
<1>2. TxnInv
  BY DEF OwnInv
<1>3. /\ txn' = [rows |-> txn.rows, tables |-> tables, todo |-> txn.todo, stmt |-> txn.stmt + 1]
      /\ txn.stmt \in Nat
  <2>1. /\ txn = [rows |-> txn.rows, tables |-> txn.tables, todo |-> txn.todo, stmt |-> txn.stmt]
        /\ txn.stmt \in Nat
    BY <1>1, <1>2 DEF TxnInv
  <2> HIDE DEF tables
  <2> QED
    BY <1>1, <2>1
<1> HIDE DEF tables
<1>4. /\ txn'.rows = txn.rows /\ txn'.todo = txn.todo /\ txn'.stmt \in Nat \ {0}
      /\ txn' = [rows |-> txn'.rows, tables |-> txn'.tables, todo |-> txn'.todo, stmt |-> txn'.stmt]
  BY <1>3
<1>5. TxnInv'
  <2>1. UNCHANGED <<db, runner>>
    BY DEF ApplyStatement
  <2> QED
    BY <1>2, <1>4, <2>1 DEF TxnInv, Applies, Pinned, Extends, IsFun
<1> QED
  BY <1>5 DEF OwnInv, ApplyStatement, RunnerTyped, DoneInv, Pinned, Extends, IsFun, Applies

\* The least migration to do is recorded.
LEMMA RecordOwn ==
    ASSUME OwnInv, NEW p \in Runners, RecordRow(p)
    PROVE  OwnInv'
<1> DEFINE i    == Min(txn.todo)
           rows == [j \in DOMAIN txn.rows \cup {i} |->
                      IF j = i THEN Pinned(p)[i] ELSE txn.rows[j]]
<1>1. /\ Applies(p) /\ txn.todo # {} /\ UNCHANGED <<db, runner>>
      /\ txn' = [txn EXCEPT !.rows = rows, !.todo = txn.todo \ {i}, !.stmt = 1]
  BY DEF RecordRow, Todo, Applies, Pinned
<1>2. TxnInv /\ RunnerTyped
  BY DEF OwnInv
<1>3. /\ txn = [rows |-> txn.rows, tables |-> txn.tables, todo |-> txn.todo, stmt |-> txn.stmt]
      /\ \A q \in Runners : Applies(q) => q = p
      /\ DOMAIN Pinned(p) = DOMAIN txn.rows \cup txn.todo
      /\ Extends(Pinned(p), txn.rows) /\ Extends(txn.rows, db.rows)
  BY <1>1, <1>2 DEF TxnInv
<1>4. i \in txn.todo
  BY <1>1, <1>2, <1>3, PinnedFacts, LeastOf
<1> HIDE DEF i
<1>5. /\ DOMAIN rows = DOMAIN txn.rows \cup {i} /\ IsFun(rows) /\ rows[i] = Pinned(p)[i]
      /\ \A j \in DOMAIN txn.rows \ {i} : rows[j] = txn.rows[j]
  BY DEF IsFun
<1> HIDE DEF rows
<1>6. Extends(Pinned(p), rows) /\ Extends(rows, db.rows)
  BY <1>3, <1>4, <1>5 DEF Extends
<1>7. txn' = [rows |-> rows, tables |-> txn.tables, todo |-> txn.todo \ {i}, stmt |-> 1]
  BY <1>1, <1>3
<1>8. /\ txn'.rows = rows /\ txn'.todo = txn.todo \ {i} /\ txn'.stmt = 1
      /\ txn' = [rows |-> txn'.rows, tables |-> txn'.tables, todo |-> txn'.todo, stmt |-> txn'.stmt]
  BY <1>7
<1>9. DOMAIN Pinned(p) = DOMAIN txn'.rows \cup txn'.todo
  BY <1>3, <1>4, <1>5, <1>8
<1>10. TxnInv'
  <2>1. \A q \in Runners : Applies(q)' => q = p /\ Pinned(q)' = Pinned(q)
    BY <1>1, <1>3 DEF Applies, Pinned
  <2>2. db' = db
    BY <1>1
  <2> QED
    BY <1>5, <1>6, <1>8, <1>9, <2>1, <2>2 DEF TxnInv, Extends, IsFun
<1> QED
  BY <1>1, <1>10 DEF OwnInv, RunnerTyped, DoneInv, Pinned, Extends, IsFun

\* The commit: the committed rows are the image's, and what was there stays.
LEMMA CommitOwn ==
    ASSUME OwnInv, NEW p \in Runners, Commit(p), runner'[p].pc = "done"
    PROVE  OwnInv'
<1>1. /\ Applies(p) /\ txn.todo = {} /\ txn' = NoTxn
      /\ runner' = [runner EXCEPT ![p].pc = "done"]
      /\ db' = [rows |-> txn.rows, tables |-> txn.tables]
  <2>1. RunnerTyped
    BY DEF OwnInv
  <2>2. ~Goto(p, "refused")
    BY <2>1 DEF Goto, RunnerTyped, RunnerPcs
  <2> QED
    BY <2>2, Zenon DEF Commit, Goto, Applies
<1>2. TxnInv /\ RunnerTyped
  BY DEF OwnInv
<1>3. /\ RunnerTyped' /\ runner'[p].build = runner[p].build
      /\ \A q \in Runners \ {p} : runner'[q] = runner[q]
  BY <1>1, <1>2, GoesTo DEF RunnerPcs
<1>4. /\ \A q \in Runners : Applies(q) => q = p
      /\ DOMAIN Pinned(p) = DOMAIN txn.rows
      /\ IsFun(txn.rows) /\ Extends(Pinned(p), txn.rows) /\ Extends(txn.rows, db.rows)
  BY <1>1, <1>2 DEF TxnInv
<1>5. db'.rows = txn.rows
  BY <1>1
<1>6. \A q \in Runners : ~Applies(q)'
  BY <1>1, <1>2, <1>3, <1>4, GoesTo DEF Applies, RunnerPcs
<1>7. IsFun(db.rows)'
  BY <1>4, <1>5 DEF IsFun
<1>8. Extends(db'.rows, db.rows) /\ Extends(db'.rows, Pinned(p))
  BY <1>4, <1>5 DEF Extends
<1>9. DoneInv'
  <2>1. \A q \in Runners : Pinned(q)' = Pinned(q)
    BY <1>3 DEF Pinned
  <2>2. \A q \in Runners : runner'[q].pc = "done" => q = p \/ Extends(db.rows, Pinned(q))
    BY <1>3 DEF OwnInv, DoneInv
  <2> QED
    BY <1>8, <2>1, <2>2 DEF DoneInv, Extends
<1> QED
  BY <1>3, <1>6, <1>7, <1>9 DEF OwnInv, TxnInv

\* Any step of a runner.
LEMMA MigrateOwn ==
    ASSUME OwnInv, NEW p \in Runners, Migrate(p)
    PROVE  OwnInv'
<1>0. RunnerTyped
  BY DEF OwnInv
<1>1. ASSUME NEW pc \in {"refused", "begin"}, runner' = [runner EXCEPT ![p].pc = pc],
             UNCHANGED db, Applies(p) \/ UNCHANGED txn
      PROVE  OwnInv'
  <2>1. /\ RunnerTyped' /\ runner'[p].pc = pc
        /\ \A q \in Runners \ {p} : runner'[q] = runner[q]
    BY <1>0, <1>1, GoesTo DEF RunnerPcs
  <2> QED
    BY <1>1, <2>1, Leaves
<1>2. CASE Prepare(p)
  BY <1>1, <1>2 DEF Prepare, Goto
<1>3. CASE BeginTxn(p)
  <2>1. CASE runner' = [runner EXCEPT ![p].pc = "apply"]
    <3>1. runner'[p].pc = "apply"
      BY <1>0, <2>1, GoesTo DEF RunnerPcs
    <3> QED
      BY <1>3, <3>1, BeginOwn
  <2>2. CASE runner' = [runner EXCEPT ![p].pc = "refused"] /\ UNCHANGED txn
    BY <1>1, <1>3, <2>2 DEF BeginTxn
  <2> QED
    BY <1>3, <2>1, <2>2, Zenon DEF BeginTxn, Goto
<1>4. CASE BusyFails(p)
  BY <1>1, <1>4 DEF BusyFails, Goto
<1>5. CASE StatementFails(p)
  BY <1>1, <1>5 DEF StatementFails, Goto, Todo, Applies
<1>6. CASE Commit(p)
  <2>1. CASE runner' = [runner EXCEPT ![p].pc = "done"]
    <3>1. runner'[p].pc = "done"
      BY <1>0, <2>1, GoesTo DEF RunnerPcs
    <3> QED
      BY <1>6, <3>1, CommitOwn
  <2>2. CASE runner' = [runner EXCEPT ![p].pc = "refused"] /\ UNCHANGED db
    BY <1>1, <1>6, <2>2 DEF Commit, Applies
  <2> QED
    BY <1>6, <2>1, <2>2, Zenon DEF Commit, Goto
<1> QED
  BY <1>2, <1>3, <1>4, <1>5, <1>6, StatementOwn, RecordOwn DEF Migrate

\* A process dies.
LEMMA DiesOwn ==
    ASSUME OwnInv, NEW p \in Runners, Dies(p), UNCHANGED db
    PROVE  OwnInv' /\ runner'[p].pc = "idle"
<1>1. /\ RunnerTyped' /\ runner'[p].pc = "idle"
      /\ \A q \in Runners \ {p} : runner'[q] = runner[q]
  BY DEF Dies, OwnInv, RunnerTyped, RunnerPcs
<1>2. Applies(p) \/ UNCHANGED txn
  BY DEF Dies, Applies
<1> QED
  BY <1>1, <1>2, Leaves

\* A migration is called, by who applies nothing.
LEMMA CallOwn ==
    ASSUME OwnInv, NEW p \in Runners, NEW b \in Builds, Call(p, b), ~Applies(p),
           UNCHANGED <<db, txn>>
    PROVE  OwnInv'
<1>1. /\ RunnerTyped' /\ runner'[p].pc = "prepare"
      /\ \A q \in Runners \ {p} : runner'[q] = runner[q]
  BY DEF Call, OwnInv, RunnerTyped, RunnerPcs
<1> QED
  BY <1>1, Leaves

\* While no process runs, none of its migrations does.
OffIdle == life = "off" => runner["app"].pc = "idle"

\* A migration moves its own runner.
LEMMA MigrateAlone ==
    ASSUME RunnerTyped, NEW p \in Runners, Migrate(p)
    PROVE  runner[p].pc # "idle" /\ \A q \in Runners \ {p} : runner'[q] = runner[q]
<1>1. \A pc : Goto(p, pc) => \A q \in Runners \ {p} : runner'[q] = runner[q]
  BY DEF Goto, RunnerTyped
<1>2. CASE Prepare(p) \/ BusyFails(p) \/ StatementFails(p)
  BY <1>1, <1>2, Zenon DEF Prepare, BusyFails, StatementFails, Todo
<1>3. CASE BeginTxn(p) \/ Commit(p)
  BY <1>1, <1>3, Zenon DEF BeginTxn, Commit
<1>4. CASE ApplyStatement(p) \/ RecordRow(p)
  BY <1>4 DEF ApplyStatement, RecordRow, Todo
<1> QED
  BY <1>2, <1>3, <1>4 DEF Migrate

\* Every step of the process and of the command line.
LEMMA OwnMoves ==
    ASSUME OwnInv, OffIdle, [Next]_vars
    PROVE  OwnInv' /\ OffIdle'
<1> USE DEF Runners
<1>1. CASE UNCHANGED <<db, txn, runner>> /\ (life' = "off" => life = "off")
  BY <1>1 DEF OwnInv, OffIdle, RunnerTyped, IsFun, TxnInv, DoneInv, Extends, Pinned, Applies
<1>2. ASSUME NEW b \in Builds, Start(b)
      PROVE  OwnInv' /\ OffIdle'
  <2>1. CASE BindRefused
    BY <1>1, <1>2, <2>1 DEF Start
  <2>2. CASE ~BindRefused
    <3>1. life' = "migrate" /\ Call("app", b) /\ ~Applies("app") /\ UNCHANGED <<db, txn>>
      BY <1>2, <2>2 DEF Start, OffIdle, Applies
    <3> QED
      BY <3>1, CallOwn DEF OffIdle
  <2> QED
    BY <2>1, <2>2
<1>3. ASSUME NEW b \in Builds, CliCalls(b)
      PROVE  OwnInv' /\ OffIdle'
  <2>1. OwnInv'
    BY <1>3, CallOwn DEF CliCalls, Applies
  <2>2. life' = life /\ runner'["app"] = runner["app"]
    BY <1>3 DEF CliCalls, Call, OwnInv, RunnerTyped
  <2> QED
    BY <2>1, <2>2 DEF OffIdle, Applies
<1>4. ASSUME NEW p \in Runners, Migrates(p)
      PROVE  OwnInv' /\ OffIdle'
  <2>1. OwnInv' /\ life' = life
    BY <1>4, MigrateOwn DEF Migrates, lvars
  <2>2. /\ runner[p].pc # "idle"
        /\ \A q \in Runners \ {p} : runner'[q] = runner[q]
    BY <1>4, MigrateAlone DEF Migrates, OwnInv
  <2> QED
    BY <2>1, <2>2 DEF OffIdle
<1>5. ASSUME Dies("app"), UNCHANGED db
      PROVE  OwnInv' /\ OffIdle'
  BY <1>5, DiesOwn DEF OffIdle
<1>6. CASE Exit \/ JoinRaises \/ Ended \/ Crash
  BY <1>5, <1>6 DEF Exit, JoinRaises, Ended, Crash
<1>7. CASE OpenPool
  <2>1. CASE Dies("app")
    BY <1>5, <1>7, <2>1 DEF OpenPool
  <2>2. CASE life' = "reap" /\ UNCHANGED <<runner, txn>>
    BY <1>1, <1>7, <2>2 DEF OpenPool
  <2> QED
    BY <1>7, <2>1, <2>2 DEF OpenPool
<1>8. CASE CliCrashes
  <2>1. OwnInv' /\ life' = life
    BY <1>8, DiesOwn DEF CliCrashes, lvars
  <2>2. runner'["app"] = runner["app"]
    BY <1>8 DEF CliCrashes, Dies, OwnInv, RunnerTyped
  <2> QED
    BY <2>1, <2>2 DEF OffIdle
<1>9. CASE SpawnWorker \/ StartScheduler \/ SelfTest \/ WorkerDies \/ Tick \/ OrphansEnd \/ ProbeTurns
  BY <1>1, <1>9 DEF SpawnWorker, StartScheduler, SelfTest, WorkerDies, Tick, OrphansEnd, ProbeTurns,
                    dvars, lvars
<1>10. CASE Stop \/ StopScheduler \/ JoinWorker \/ ClosePool
  BY <1>1, <1>10 DEF Stop, StopScheduler, JoinWorker, ClosePool, dvars
<1>11. ASSUME NEW c \in Clients, HealthBegins(c) \/ HealthProbes(c) \/ HealthEnds(c)
       PROVE  OwnInv' /\ OffIdle'
  BY <1>1, <1>11 DEF HealthBegins, HealthProbes, HealthEnds, dvars, lvars
<1>12. CASE UNCHANGED vars
  BY <1>1, <1>12 DEF vars, dvars, lvars
<1> QED
  BY <1>2, <1>3, <1>4, <1>6, <1>7, <1>8, <1>9, <1>10, <1>11, <1>12 DEF Next

\* An app opens its pool on exactly the rows of its own image, whatever other
\* runners of whatever images committed beside it or before it, and however any
\* of them crashed (main.py:107-125, migrate.py:628-637 and 715-728).
THEOREM OpensOnOwnCorrect == Spec => OpensOnOwn
<1>1. Init => OwnInv /\ OffIdle
  BY DEF Init, MigrationsInit, OwnInv, OffIdle, RunnerTyped, RunnerPcs, IsFun, TxnInv, DoneInv,
         Applies, Runners
<1>2. OwnInv /\ OffIdle /\ [Next]_vars => OwnInv' /\ OffIdle'
  BY OwnMoves
<1>3. OwnInv /\ [Next]_vars => [pool # "open" /\ pool' = "open" => db.rows = Pinned("app")]_vars
  <2> SUFFICES ASSUME OwnInv, Next, pool # "open", pool' = "open"
               PROVE  db.rows = Pinned("app")
    BY DEF vars, lvars
  <2>1. OpenPool
    BY DEF Next, Start, CliCalls, Migrates, Exit, Gone, SpawnWorker, StartScheduler, SelfTest,
           WorkerDies, Tick, OrphansEnd, ProbeTurns, HealthBegins, HealthProbes, HealthEnds, Stop,
           StopScheduler, JoinWorker, JoinRaises, ClosePool, Ended, Crash, CliCrashes, lvars
  <2>2. runner["app"].pc = "done" /\ SchemaCurrent
    BY <2>1 DEF OpenPool, Gone
  <2>3. Extends(db.rows, Pinned("app"))
    BY <2>2 DEF OwnInv, DoneInv, Runners
  <2>4. IsFun(db.rows) /\ IsFun(Pinned("app"))
    BY PinnedFacts DEF OwnInv, Runners
  <2> QED
    BY <2>2, <2>3, <2>4 DEF SchemaCurrent, Extends, IsFun, Pinned
<1> QED
  BY <1>1, <1>2, <1>3, PTL DEF Spec, OpensOnOwn, Pinned

-----------------------------------------------------------------------------
(* What is committed is an image's whole upgrade, from the empty database. *)

\* A table is created where there is none, and dropped or renamed where it is.
Fits(s, tables) == IF s[1] = "create" THEN s[2] \notin tables ELSE s[2] \in tables

\* The first k statements of a script, each on the tables that the one before
\* it left, lead from some tables to others.
ScriptRuns(script, k, from, to) ==
    \E t : /\ t = [j \in 0..k |-> t[j]] /\ t[0] = from /\ t[k] = to
           /\ \A j \in 1..k : Fits(script[j], t[j - 1]) /\ t[j] = Ran(t[j - 1], script[j])

\* The scripts of the rows 1..n, one after the other, lead from nothing to
\* some tables.
Upgrades(rows, n, tables) ==
    \E at : /\ at = [i \in 0..n |-> at[i]] /\ at[0] = {} /\ at[n] = tables
            /\ \A i \in 1..n :
                  ScriptRuns(Script[rows[i]], Len(Script[rows[i]]), at[i - 1], at[i])

\* The committed schema is that of an image that passed its checks: its rows,
\* the tables its scripts leave, and those it is expected to leave among them.
Whole(b, schema) ==
    /\ b.sound /\ b.files = b.pinned
    /\ schema.rows = b.files
    /\ ExpectedTables(b.files, DOMAIN b.files) \subseteq schema.tables
    /\ \E n \in Nat : DOMAIN b.files = 1..n /\ Upgrades(b.files, n, schema.tables)

SchemaIsUpgrade ==
    db = [rows |-> <<>>, tables |-> {}] \/ \E b \in Builds : Whole(b, db)

\* A runner works for an image, and past its checks for one that passed them.
Checked(r) ==
    /\ r.pc # "idle" => r.build \in Builds
    /\ r.pc \in {"begin", "apply", "done"} => r.build.sound /\ r.build.files = r.build.pinned

AllChecked == \A p \in Runners : Checked(runner[p])

\* The transaction has run the scripts of its rows, and of the next one the
\* statements before stmt.
Partway(files, t) ==
    \E n, m, base :
        /\ n \in Nat /\ m \in Nat
        /\ DOMAIN files = 1..m /\ n <= m
        /\ DOMAIN t.rows = 1..n /\ t.todo = (n + 1)..m
        /\ Upgrades(t.rows, n, base)
        /\ n < m => /\ t.stmt - 1 <= Len(Script[files[n + 1]])
                    /\ ScriptRuns(Script[files[n + 1]], t.stmt - 1, base, t.tables)
        /\ n = m => base = t.tables

UpgradeUnderWay == \A p \in Runners : Applies(p) => Partway(Pinned(p), txn)

SchemaInv == SchemaIsUpgrade /\ AllChecked /\ UpgradeUnderWay

\* What it takes to be partway through, before the last script has run.
LEMMA PartwayIn ==
    ASSUME NEW files, NEW t, NEW n \in Nat, NEW m \in Nat, NEW base,
           DOMAIN files = 1..m, n <= m, DOMAIN t.rows = 1..n, t.todo = (n + 1)..m,
           Upgrades(t.rows, n, base), n = m => base = t.tables,
           n < m => /\ t.stmt - 1 <= Len(Script[files[n + 1]])
                    /\ ScriptRuns(Script[files[n + 1]], t.stmt - 1, base, t.tables)
    PROVE  Partway(files, t)
  BY Zenon DEF Partway

LEMMA ScriptStarts ==
    ASSUME NEW script, NEW tables
    PROVE  ScriptRuns(script, 0, tables, tables)
<1> DEFINE t == [j \in 0..0 |-> tables]
<1>1. t[0] = tables /\ 1..0 = {} /\ t = [j \in 0..0 |-> t[j]]
  OBVIOUS
<1> HIDE DEF t
<1> QED
  BY <1>1 DEF ScriptRuns

LEMMA ScriptGoesOn ==
    ASSUME NEW script, NEW k \in Nat, NEW from, NEW to, ScriptRuns(script, k, from, to),
           Fits(script[k + 1], to)
    PROVE  ScriptRuns(script, k + 1, from, Ran(to, script[k + 1]))
<1>1. PICK t : /\ t[0] = from /\ t[k] = to
               /\ \A j \in 1..k : Fits(script[j], t[j - 1]) /\ t[j] = Ran(t[j - 1], script[j])
  BY DEF ScriptRuns
<1> DEFINE more == [j \in 0..(k + 1) |-> IF j = k + 1 THEN Ran(to, script[k + 1]) ELSE t[j]]
<1>2. /\ more[k + 1] = Ran(to, script[k + 1]) /\ \A j \in 0..k : more[j] = t[j]
      /\ more = [j \in 0..(k + 1) |-> more[j]]
  OBVIOUS
<1> HIDE DEF more
<1>3. more[0] = from /\ more[k] = to
  <2>1. 0 \in 0..k /\ k \in 0..k
    OBVIOUS
  <2> QED
    BY <1>1, <1>2, <2>1, Zenon
<1>4. ASSUME NEW j \in 1..(k + 1)
      PROVE  Fits(script[j], more[j - 1]) /\ more[j] = Ran(more[j - 1], script[j])
  <2>1. CASE j = k + 1
    <3>1. j - 1 = k
      BY <2>1
    <3> QED
      BY <1>2, <1>3, <2>1, <3>1
  <2>2. CASE j \in 1..k
    <3>1. j - 1 \in 0..k /\ j \in 0..k
      BY <2>2
    <3> QED
      BY <1>1, <1>2, <2>2, <3>1
  <2> QED
    BY <2>1, <2>2
<1> QED
  BY <1>2, <1>3, <1>4 DEF ScriptRuns

LEMMA UpgradeStarts ==
    ASSUME NEW rows
    PROVE  Upgrades(rows, 0, {})
<1> DEFINE at == [i \in 0..0 |-> {}]
<1>1. at[0] = {} /\ 1..0 = {} /\ at = [i \in 0..0 |-> at[i]]
  OBVIOUS
<1> HIDE DEF at
<1> QED
  BY <1>1 DEF Upgrades

LEMMA UpgradeGoesOn ==
    ASSUME NEW rows, NEW more, NEW n \in Nat, NEW base, NEW tables,
           Upgrades(rows, n, base), \A i \in 1..n : more[i] = rows[i],
           ScriptRuns(Script[more[n + 1]], Len(Script[more[n + 1]]), base, tables)
    PROVE  Upgrades(more, n + 1, tables)
<1>1. PICK at : /\ at[0] = {} /\ at[n] = base
                /\ \A i \in 1..n :
                      ScriptRuns(Script[rows[i]], Len(Script[rows[i]]), at[i - 1], at[i])
  BY DEF Upgrades
<1> DEFINE up == [j \in 0..(n + 1) |-> IF j = n + 1 THEN tables ELSE at[j]]
<1>2. /\ up[n + 1] = tables /\ \A j \in 0..n : up[j] = at[j]
      /\ up = [j \in 0..(n + 1) |-> up[j]]
  OBVIOUS
<1> HIDE DEF up
<1>3. up[0] = {} /\ up[n] = base
  <2>1. 0 \in 0..n /\ n \in 0..n
    OBVIOUS
  <2> QED
    BY <1>1, <1>2, <2>1, Zenon
<1>4. ASSUME NEW i \in 1..(n + 1)
      PROVE  ScriptRuns(Script[more[i]], Len(Script[more[i]]), up[i - 1], up[i])
  <2>1. CASE i = n + 1
    <3>1. i - 1 = n
      BY <2>1
    <3> QED
      BY <1>2, <1>3, <2>1, <3>1
  <2>2. CASE i \in 1..n
    <3>1. i - 1 \in 0..n /\ i \in 0..n
      BY <2>2
    <3> QED
      BY <1>1, <1>2, <2>2, <3>1
  <2> QED
    BY <2>1, <2>2
<1> QED
  BY <1>2, <1>3, <1>4 DEF Upgrades

\* A runner leaves the transaction, or is called: nothing is committed.
LEMMA LeavesSchema ==
    ASSUME SchemaInv, OwnInv, NEW p \in Runners, UNCHANGED db, Checked(runner'[p]),
           \A q \in Runners \ {p} : runner'[q] = runner[q],
           runner'[p].pc # "apply", Applies(p) \/ UNCHANGED txn
    PROVE  SchemaInv'
<1>1. SchemaIsUpgrade'
  BY DEF SchemaInv, SchemaIsUpgrade, Whole
<1>2. AllChecked'
  BY DEF SchemaInv, AllChecked, Checked
<1>3. ASSUME NEW q \in Runners, Applies(q)'
      PROVE  Applies(q) /\ Pinned(q)' = Pinned(q) /\ txn' = txn
  <2>1. q # p /\ runner'[q] = runner[q]
    BY <1>3 DEF Applies
  <2>2. Applies(q) /\ Pinned(q)' = Pinned(q)
    BY <1>3, <2>1 DEF Applies, Pinned
  <2>3. ~Applies(p)
    BY <2>1, <2>2 DEF OwnInv, TxnInv
  <2> QED
    BY <2>2, <2>3
<1>4. UpgradeUnderWay'
  <2>1. UpgradeUnderWay
    BY DEF SchemaInv
  <2> SUFFICES ASSUME NEW q \in Runners, Applies(q)'
               PROVE  Partway(Pinned(q), txn)'
    BY DEF UpgradeUnderWay
  <2>2. Partway(Pinned(q), txn) /\ Pinned(q)' = Pinned(q) /\ txn' = txn
    BY <1>3, <2>1 DEF UpgradeUnderWay
  <2> QED
    BY <2>2 DEF Partway
<1> QED
  BY <1>1, <1>2, <1>4 DEF SchemaInv

\* The committed rows are 1..n, and their scripts have run.
LEMMA CommittedUpgrade ==
    ASSUME SchemaIsUpgrade
    PROVE  \E n \in Nat : DOMAIN db.rows = 1..n /\ Upgrades(db.rows, n, db.tables)
<1>1. CASE db = [rows |-> <<>>, tables |-> {}]
  <2>1. DOMAIN db.rows = 1..0 /\ db.tables = {}
    BY <1>1
  <2> QED
    BY <2>1, UpgradeStarts
<1>2. CASE \E b \in Builds : Whole(b, db)
  BY <1>2 DEF Whole
<1> QED
  BY <1>1, <1>2 DEF SchemaIsUpgrade

\* The transaction begins: an image without a gap continues what is committed.
LEMMA BeginSchema ==
    ASSUME SchemaInv, OwnInv, OwnInv', NEW p \in Runners, BeginTxn(p), runner'[p].pc = "apply"
    PROVE  SchemaInv'
<1> DEFINE files == Pinned(p)
<1>1. /\ runner[p].pc = "begin" /\ db' = db
      /\ ~GapRefused(DOMAIN db.rows, DOMAIN files)
      /\ txn' = [rows |-> db.rows, tables |-> db.tables, stmt |-> 1,
                 todo |-> DOMAIN files \ DOMAIN db.rows]
      /\ runner' = [runner EXCEPT ![p].pc = "apply"]
  <2>1. RunnerTyped
    BY DEF OwnInv
  <2>2. ~Goto(p, "refused")
    BY <2>1 DEF Goto, RunnerTyped, RunnerPcs
  <2> QED
    BY <2>2, Zenon DEF BeginTxn, Pinned, Goto
<1>2. /\ runner'[p].build = runner[p].build /\ Pinned(p)' = files
      /\ \A q \in Runners \ {p} : runner'[q] = runner[q]
  BY <1>1, GoesTo DEF OwnInv, Pinned, RunnerPcs
<1>3. runner[p].build \in Builds /\ runner[p].build.sound
      /\ runner[p].build.files = runner[p].build.pinned
  BY <1>1 DEF SchemaInv, AllChecked, Checked
<1>4. AllChecked'
  BY <1>2, <1>3 DEF SchemaInv, AllChecked, Checked
<1>5. PICK m \in Nat : DOMAIN files = 1..m
  <2>1. IsFiniteSet(DOMAIN files)
    BY <1>3, MigrationsAssumption DEF Pinned
  <2>2. DOMAIN db.rows \cup DOMAIN files = DOMAIN files
    BY <1>1 DEF GapRefused
  <2>3. DOMAIN files = 1..Cardinality(DOMAIN files)
    BY <1>1, <2>2 DEF GapRefused
  <2>4. Cardinality(DOMAIN files) \in Nat
    BY <2>1, FS_CardinalityType
  <2> QED
    BY <2>3, <2>4
<1>6. PICK n \in Nat : DOMAIN db.rows = 1..n /\ Upgrades(db.rows, n, db.tables)
  BY CommittedUpgrade DEF SchemaInv
<1>7. n <= m
  <2>1. 1..n \subseteq 1..m
    BY <1>1, <1>5, <1>6 DEF GapRefused
  <2>2. CASE n = 0
    BY <2>2
  <2>3. CASE n # 0
    <3>1. n \in 1..n
      BY <2>3
    <3> QED
      BY <2>1, <3>1
  <2> QED
    BY <2>2, <2>3
<1>8. (1..m) \ (1..n) = (n + 1)..m
  BY <1>7
<1>9. /\ txn'.rows = db.rows /\ txn'.tables = db.tables /\ txn'.stmt = 1
      /\ txn'.todo = (n + 1)..m
  BY <1>1, <1>5, <1>6, <1>8
<1>10. Partway(files, txn')
  <2>1. n < m => 0 <= Len(Script[files[n + 1]])
    <3>1. ASSUME n < m PROVE 0 <= Len(Script[files[n + 1]])
      <4>1. n + 1 \in DOMAIN files
        BY <1>5, <3>1
      <4>2. files[n + 1] \in DOMAIN Script
        BY <1>3, <4>1, MigrationsAssumption DEF Pinned
      <4> QED
        BY <4>2, MigrationsAssumption
    <3> QED
      BY <3>1
  <2>2. txn'.stmt - 1 = 0
    BY <1>9
  <2>3. ScriptRuns(Script[files[n + 1]], 0, db.tables, db.tables)
    BY ScriptStarts
  <2> HIDE DEF files
  <2> QED
    BY <1>5, <1>6, <1>7, <1>9, <2>1, <2>2, <2>3 DEF Partway
<1>11. UpgradeUnderWay'
  <2> SUFFICES ASSUME NEW q \in Runners, Applies(q)'
               PROVE  Partway(Pinned(q), txn)'
    BY DEF UpgradeUnderWay
  <2>1. Applies(p)'
    BY DEF Applies
  <2>2. q = p
    BY <2>1 DEF OwnInv, TxnInv
  <2> QED
    BY <1>2, <1>10, <2>2 DEF Partway
<1>12. SchemaIsUpgrade'
  BY <1>1 DEF SchemaInv, SchemaIsUpgrade, Whole
<1> QED
  BY <1>4, <1>11, <1>12 DEF SchemaInv

\* Where a runner stands that still has migrations to do.
LEMMA NextToDo ==
    ASSUME SchemaInv, OwnInv, NEW p \in Runners, Applies(p), txn.todo # {}
    PROVE  \E n, m, base :
             /\ n \in Nat /\ m \in Nat
             /\ DOMAIN Pinned(p) = 1..m /\ n < m
             /\ DOMAIN txn.rows = 1..n /\ txn.todo = (n + 1)..m /\ Min(txn.todo) = n + 1
             /\ Upgrades(txn.rows, n, base)
             /\ txn.stmt \in Nat \ {0} /\ Len(Script[Pinned(p)[n + 1]]) \in Nat
             /\ txn.stmt - 1 <= Len(Script[Pinned(p)[n + 1]])
             /\ ScriptRuns(Script[Pinned(p)[n + 1]], txn.stmt - 1, base, txn.tables)
<1>1. Partway(Pinned(p), txn)
  BY DEF SchemaInv, UpgradeUnderWay
<1>2. PICK n, m, base :
        /\ n \in Nat /\ m \in Nat
        /\ DOMAIN Pinned(p) = 1..m /\ n <= m
        /\ DOMAIN txn.rows = 1..n /\ txn.todo = (n + 1)..m
        /\ Upgrades(txn.rows, n, base)
        /\ n < m => /\ txn.stmt - 1 <= Len(Script[Pinned(p)[n + 1]])
                    /\ ScriptRuns(Script[Pinned(p)[n + 1]], txn.stmt - 1, base, txn.tables)
  BY <1>1 DEF Partway
<1>3. n < m
  BY <1>2
<1>4. Min(txn.todo) = n + 1
  <2>1. n + 1 \in txn.todo /\ \A y \in txn.todo : y \in Nat /\ n + 1 <= y
    BY <1>2, <1>3
  <2>2. \A x \in txn.todo : (\A y \in txn.todo : x <= y) => x = n + 1
    BY <2>1
  <2> QED
    BY <2>1, <2>2 DEF Min
<1>5. txn.stmt \in Nat \ {0}
  BY DEF OwnInv, TxnInv
<1>6. Len(Script[Pinned(p)[n + 1]]) \in Nat
  <2>1. runner[p].build \in Builds
    BY DEF SchemaInv, AllChecked, Checked, Applies
  <2>2. n + 1 \in DOMAIN Pinned(p)
    BY <1>2, <1>3
  <2>3. Pinned(p)[n + 1] \in DOMAIN Script
    BY <2>1, <2>2, MigrationsAssumption DEF Pinned
  <2> QED
    BY <2>3, MigrationsAssumption
<1> QED
  BY <1>2, <1>3, <1>4, <1>5, <1>6

\* One more statement.
LEMMA StatementSchema ==
    ASSUME SchemaInv, OwnInv, NEW p \in Runners, ApplyStatement(p)
    PROVE  SchemaInv'
<1>1. Applies(p) /\ txn.todo # {} /\ UNCHANGED <<db, runner>>
  BY DEF ApplyStatement, Todo, Applies
<1>2. PICK n, m, base :
             /\ n \in Nat /\ m \in Nat
             /\ DOMAIN Pinned(p) = 1..m /\ n < m
             /\ DOMAIN txn.rows = 1..n /\ txn.todo = (n + 1)..m /\ Min(txn.todo) = n + 1
             /\ Upgrades(txn.rows, n, base)
             /\ txn.stmt \in Nat \ {0} /\ Len(Script[Pinned(p)[n + 1]]) \in Nat
             /\ txn.stmt - 1 <= Len(Script[Pinned(p)[n + 1]])
             /\ ScriptRuns(Script[Pinned(p)[n + 1]], txn.stmt - 1, base, txn.tables)
  BY <1>1, NextToDo
<1> DEFINE script == Script[Pinned(p)[n + 1]]
           tables == Ran(txn.tables, script[txn.stmt])
<1>3. Statements(p) = script
  BY <1>2 DEF Statements, Pinned
<1>4. /\ txn.stmt <= Len(script) /\ Fits(script[txn.stmt], txn.tables)
      /\ txn' = [txn EXCEPT !.tables = tables, !.stmt = txn.stmt + 1]
  BY <1>3 DEF ApplyStatement, Runs, Fits
<1> HIDE DEF script, tables
<1>5. /\ txn'.rows = txn.rows /\ txn'.todo = txn.todo /\ txn'.tables = tables
      /\ txn'.stmt = txn.stmt + 1
  <2>1. txn = [rows |-> txn.rows, tables |-> txn.tables, todo |-> txn.todo, stmt |-> txn.stmt]
    BY <1>1 DEF OwnInv, TxnInv
  <2> QED
    BY <1>4, <2>1
<1>6. ScriptRuns(script, txn'.stmt - 1, base, tables)
  <2>1. txn.stmt - 1 \in Nat /\ (txn.stmt - 1) + 1 = txn.stmt /\ txn'.stmt - 1 = txn.stmt
    BY <1>2, <1>5
  <2>2. ScriptRuns(script, txn.stmt - 1, base, txn.tables)
    BY <1>2 DEF script
  <2>3. ScriptRuns(script, (txn.stmt - 1) + 1, base, Ran(txn.tables, script[(txn.stmt - 1) + 1]))
    BY <1>4, <2>1, <2>2, ScriptGoesOn
  <2> QED
    BY <2>1, <2>3 DEF tables
<1>7. txn'.stmt - 1 <= Len(script)
  BY <1>2, <1>4, <1>5 DEF script
<1>8. Partway(Pinned(p), txn')
  <2>1. n <= m /\ n # m
    BY <1>2
  <2>2. /\ txn'.stmt - 1 <= Len(Script[Pinned(p)[n + 1]])
        /\ ScriptRuns(Script[Pinned(p)[n + 1]], txn'.stmt - 1, base, tables)
    BY <1>6, <1>7 DEF script
  <2>3. /\ n \in Nat /\ m \in Nat /\ DOMAIN Pinned(p) = 1..m /\ DOMAIN txn'.rows = 1..n
        /\ txn'.todo = (n + 1)..m /\ Upgrades(txn'.rows, n, base)
    BY <1>2, <1>5
  <2>4. ScriptRuns(Script[Pinned(p)[n + 1]], txn'.stmt - 1, base, txn'.tables)
    BY <1>5, <2>2
  <2> QED
    BY <2>1, <2>2, <2>3, <2>4, PartwayIn, Zenon
<1>9. UpgradeUnderWay'
  <2> SUFFICES ASSUME NEW q \in Runners, Applies(q)'
               PROVE  Partway(Pinned(q), txn)'
    BY DEF UpgradeUnderWay
  <2>1. q = p
    BY <1>1 DEF OwnInv, TxnInv, Applies
  <2> QED
    BY <1>1, <1>8, <2>1 DEF Partway, Pinned
<1> QED
  BY <1>1, <1>9 DEF SchemaInv, SchemaIsUpgrade, Whole, AllChecked

\* The script has run, and its row is written.
LEMMA RecordSchema ==
    ASSUME SchemaInv, OwnInv, NEW p \in Runners, RecordRow(p)
    PROVE  SchemaInv'
<1>1. Applies(p) /\ txn.todo # {} /\ UNCHANGED <<db, runner>>
  BY DEF RecordRow, Todo, Applies
<1>2. PICK n, m, base :
             /\ n \in Nat /\ m \in Nat
             /\ DOMAIN Pinned(p) = 1..m /\ n < m
             /\ DOMAIN txn.rows = 1..n /\ txn.todo = (n + 1)..m /\ Min(txn.todo) = n + 1
             /\ Upgrades(txn.rows, n, base)
             /\ txn.stmt \in Nat \ {0} /\ Len(Script[Pinned(p)[n + 1]]) \in Nat
             /\ txn.stmt - 1 <= Len(Script[Pinned(p)[n + 1]])
             /\ ScriptRuns(Script[Pinned(p)[n + 1]], txn.stmt - 1, base, txn.tables)
  BY <1>1, NextToDo
<1> DEFINE files == Pinned(p)
           script == Script[files[n + 1]]
           rows == [j \in DOMAIN txn.rows \cup {n + 1} |->
                      IF j = n + 1 THEN files[n + 1] ELSE txn.rows[j]]
<1>3. /\ txn.stmt > Len(script)
      /\ txn' = [txn EXCEPT !.rows = rows, !.todo = txn.todo \ {n + 1}, !.stmt = 1]
  <2>1. Statements(p) = script
    BY <1>2 DEF Statements, Pinned
  <2> QED
    BY <1>2, <2>1 DEF RecordRow, Pinned
<1>4. /\ DOMAIN rows = 1..(n + 1) /\ rows[n + 1] = files[n + 1]
      /\ \A i \in 1..n : rows[i] = txn.rows[i]
  BY <1>2
<1> HIDE DEF rows, script, files
<1>5. /\ txn'.rows = rows /\ txn'.todo = txn.todo \ {n + 1} /\ txn'.tables = txn.tables
      /\ txn'.stmt = 1
  <2>1. txn = [rows |-> txn.rows, tables |-> txn.tables, todo |-> txn.todo, stmt |-> txn.stmt]
    BY <1>1 DEF OwnInv, TxnInv
  <2> QED
    BY <1>3, <2>1
<1>6. ScriptRuns(script, Len(script), base, txn.tables)
  <2>1. txn.stmt - 1 = Len(script)
    BY <1>2, <1>3 DEF script, files
  <2> QED
    BY <1>2, <2>1 DEF script, files
<1>7. Upgrades(rows, n + 1, txn.tables)
  BY <1>2, <1>4, <1>6, UpgradeGoesOn DEF script
<1>8. txn'.todo = ((n + 1) + 1)..m
  BY <1>2, <1>5
<1>9. (n + 1) < m => 0 <= Len(Script[files[(n + 1) + 1]])
  <2>1. ASSUME (n + 1) < m PROVE 0 <= Len(Script[files[(n + 1) + 1]])
    <3>1. runner[p].build \in Builds
      BY <1>1 DEF SchemaInv, AllChecked, Checked, Applies
    <3>2. (n + 1) + 1 \in DOMAIN files
      BY <1>2, <2>1 DEF files
    <3>3. files[(n + 1) + 1] \in DOMAIN Script
      BY <3>1, <3>2, MigrationsAssumption DEF Pinned, files
    <3> QED
      BY <3>3, MigrationsAssumption
  <2> QED
    BY <2>1
<1>10. Partway(files, txn')
  <2>1. ScriptRuns(Script[files[(n + 1) + 1]], 0, txn.tables, txn.tables)
    BY ScriptStarts
  <2>2. txn'.stmt - 1 = 0 /\ n + 1 \in Nat /\ n + 1 <= m /\ DOMAIN files = 1..m
    BY <1>2, <1>5 DEF files
  <2>3. DOMAIN txn'.rows = 1..(n + 1) /\ Upgrades(txn'.rows, n + 1, txn'.tables)
    BY <1>4, <1>5, <1>7
  <2>4. (n + 1) < m => txn'.stmt - 1 <= Len(Script[files[(n + 1) + 1]])
    BY <1>9, <2>2
  <2>5. ScriptRuns(Script[files[(n + 1) + 1]], txn'.stmt - 1, txn'.tables, txn'.tables)
    BY <1>5, <2>1, <2>2
  <2>6. m \in Nat /\ txn'.todo = ((n + 1) + 1)..m
    BY <1>2, <1>8
  <2> QED
    BY <2>2, <2>3, <2>4, <2>5, <2>6, PartwayIn, Zenon
<1>11. UpgradeUnderWay'
  <2> SUFFICES ASSUME NEW q \in Runners, Applies(q)'
               PROVE  Partway(Pinned(q), txn)'
    BY DEF UpgradeUnderWay
  <2>1. q = p
    BY <1>1 DEF OwnInv, TxnInv, Applies
  <2> QED
    BY <1>1, <1>10, <2>1 DEF Partway, Pinned, files
<1> QED
  BY <1>1, <1>11 DEF SchemaInv, SchemaIsUpgrade, Whole, AllChecked

\* The commit: the image's whole upgrade.
LEMMA CommitSchema ==
    ASSUME SchemaInv, OwnInv, OwnInv', NEW p \in Runners, Commit(p), runner'[p].pc = "done"
    PROVE  SchemaInv' /\ \E b \in Builds : Whole(b, db')
<1> DEFINE files == Pinned(p)
<1>1. /\ Applies(p) /\ txn.todo = {}
      /\ ~TablesRefused(txn.tables, files, DOMAIN files)
      /\ runner' = [runner EXCEPT ![p].pc = "done"]
      /\ db' = [rows |-> txn.rows, tables |-> txn.tables]
  <2>1. RunnerTyped
    BY DEF OwnInv
  <2>2. ~Goto(p, "refused")
    BY <2>1 DEF Goto, RunnerTyped, RunnerPcs
  <2> QED
    BY <2>2, Zenon DEF Commit, Goto, Applies, Pinned
<1>2. /\ runner'[p].build = runner[p].build
      /\ \A q \in Runners \ {p} : runner'[q] = runner[q]
  BY <1>1, GoesTo DEF OwnInv, RunnerPcs
<1>3. /\ runner[p].build \in Builds /\ runner[p].build.sound
      /\ runner[p].build.files = runner[p].build.pinned
  BY <1>1 DEF SchemaInv, AllChecked, Checked, Applies
<1>4. AllChecked'
  BY <1>2, <1>3 DEF SchemaInv, AllChecked, Checked
<1>5. UpgradeUnderWay'
  <2>1. \A q \in Runners : Applies(q) => q = p
    BY <1>1 DEF OwnInv, TxnInv
  <2>2. \A q \in Runners : ~Applies(q)'
    BY <1>2, <2>1 DEF Applies
  <2> QED
    BY <2>2 DEF UpgradeUnderWay
<1>6. PICK n, m, base :
        /\ n \in Nat /\ m \in Nat
        /\ DOMAIN files = 1..m /\ n <= m
        /\ DOMAIN txn.rows = 1..n /\ txn.todo = (n + 1)..m
        /\ Upgrades(txn.rows, n, base)
        /\ n = m => base = txn.tables
  BY <1>1 DEF SchemaInv, UpgradeUnderWay, Partway
<1>7. n = m
  <2>1. ASSUME n < m PROVE FALSE
    <3>1. n + 1 \in (n + 1)..m
      BY <1>6, <2>1
    <3>2. (n + 1)..m = {}
      BY <1>1, <1>6
    <3> QED
      BY <3>1, <3>2
  <2> QED
    BY <1>6, <2>1
<1>8. txn.rows = files
  <2>1. IsFun(txn.rows) /\ Extends(files, txn.rows)
    BY <1>1 DEF OwnInv, TxnInv
  <2>2. IsFun(files) /\ DOMAIN files = DOMAIN txn.rows
    BY <1>6, <1>7, PinnedFacts DEF OwnInv
  <2> HIDE DEF files
  <2> QED
    BY <2>1, <2>2 DEF IsFun, Extends
<1>9. \E b \in Builds : Whole(b, db')
  <2> DEFINE b == runner[p].build
  <2>1. b \in Builds /\ b.sound /\ b.files = b.pinned /\ b.files = files
    BY <1>3 DEF Pinned
  <2>2. db'.rows = files /\ db'.tables = txn.tables
    BY <1>1, <1>8
  <2>3. ExpectedTables(files, DOMAIN files) \subseteq db'.tables
    BY <1>1, <2>2 DEF TablesRefused
  <2>4. n \in Nat /\ DOMAIN files = 1..n /\ Upgrades(files, n, db'.tables)
    BY <1>6, <1>7, <1>8, <2>2
  <2> HIDE DEF b, files
  <2> QED
    BY <2>1, <2>2, <2>3, <2>4 DEF Whole
<1> QED
  BY <1>4, <1>5, <1>9 DEF SchemaInv, SchemaIsUpgrade

\* Any step of a runner.
LEMMA MigrateSchema ==
    ASSUME SchemaInv, OwnInv, OwnInv', NEW p \in Runners, Migrate(p)
    PROVE  SchemaInv'
<1>0. RunnerTyped
  BY DEF OwnInv
<1>1. ASSUME NEW pc \in {"refused", "begin"}, runner' = [runner EXCEPT ![p].pc = pc],
             runner[p].pc # "idle",
             pc = "begin" => /\ runner[p].build.sound
                             /\ runner[p].build.files = runner[p].build.pinned,
             UNCHANGED db, Applies(p) \/ UNCHANGED txn
      PROVE  SchemaInv'
  <2>1. /\ runner'[p].pc = pc /\ runner'[p].build = runner[p].build
        /\ \A q \in Runners \ {p} : runner'[q] = runner[q]
    BY <1>0, <1>1, GoesTo DEF RunnerPcs
  <2>2. Checked(runner'[p])
    BY <1>1, <2>1 DEF SchemaInv, AllChecked, Checked
  <2> QED
    BY <1>1, <2>1, <2>2, LeavesSchema
<1>2. CASE Prepare(p)
  <2>1. CASE runner' = [runner EXCEPT ![p].pc = "refused"]
    BY <1>1, <1>2, <2>1 DEF Prepare
  <2>2. CASE /\ runner' = [runner EXCEPT ![p].pc = "begin"]
             /\ runner[p].build.sound /\ ~ManifestRefused(runner[p].build)
    BY <1>1, <1>2, <2>2 DEF Prepare, ManifestRefused
  <2> QED
    BY <1>2, <2>1, <2>2 DEF Prepare, Goto
<1>3. CASE BeginTxn(p)
  <2>1. CASE runner' = [runner EXCEPT ![p].pc = "apply"]
    <3>1. runner'[p].pc = "apply"
      BY <1>0, <2>1, GoesTo DEF RunnerPcs
    <3> QED
      BY <1>3, <3>1, BeginSchema
  <2>2. CASE runner' = [runner EXCEPT ![p].pc = "refused"] /\ UNCHANGED txn
    BY <1>1, <1>3, <2>2 DEF BeginTxn
  <2> QED
    BY <1>3, <2>1, <2>2, Zenon DEF BeginTxn, Goto
<1>4. CASE BusyFails(p)
  BY <1>1, <1>4 DEF BusyFails, Goto
<1>5. CASE StatementFails(p)
  BY <1>1, <1>5 DEF StatementFails, Goto, Todo, Applies
<1>6. CASE Commit(p)
  <2>1. CASE runner' = [runner EXCEPT ![p].pc = "done"]
    <3>1. runner'[p].pc = "done"
      BY <1>0, <2>1, GoesTo DEF RunnerPcs
    <3> QED
      BY <1>6, <3>1, CommitSchema
  <2>2. CASE runner' = [runner EXCEPT ![p].pc = "refused"] /\ UNCHANGED db
    BY <1>1, <1>6, <2>2 DEF Commit, Applies
  <2> QED
    BY <1>6, <2>1, <2>2, Zenon DEF Commit, Goto
<1> QED
  BY <1>2, <1>3, <1>4, <1>5, <1>6, StatementSchema, RecordSchema DEF Migrate

\* A process dies, and what it had not committed is gone.
LEMMA DiesSchema ==
    ASSUME SchemaInv, OwnInv, NEW p \in Runners, Dies(p), UNCHANGED db
    PROVE  SchemaInv'
<1>1. /\ runner'[p].pc = "idle"
      /\ \A q \in Runners \ {p} : runner'[q] = runner[q]
  BY DEF Dies, OwnInv, RunnerTyped, RunnerPcs
<1>2. Checked(runner'[p])
  BY <1>1 DEF Checked
<1>3. Applies(p) \/ UNCHANGED txn
  BY DEF Dies, Applies
<1> QED
  BY <1>1, <1>2, <1>3, LeavesSchema

LEMMA CallSchema ==
    ASSUME SchemaInv, OwnInv, NEW p \in Runners, NEW b \in Builds, Call(p, b),
           UNCHANGED <<db, txn>>
    PROVE  SchemaInv'
<1>1. /\ runner'[p].pc = "prepare" /\ runner'[p].build = b
      /\ \A q \in Runners \ {p} : runner'[q] = runner[q]
  BY DEF Call, OwnInv, RunnerTyped, RunnerPcs
<1>2. Checked(runner'[p])
  BY <1>1 DEF Checked
<1> QED
  BY <1>1, <1>2, LeavesSchema

LEMMA SchemaMoves ==
    ASSUME SchemaInv, OwnInv, OwnInv', [Next]_vars
    PROVE  SchemaInv'
<1> USE DEF Runners
<1>1. CASE UNCHANGED <<db, txn, runner>>
  BY <1>1 DEF SchemaInv, SchemaIsUpgrade, Whole, AllChecked, UpgradeUnderWay, Partway,
              Applies, Pinned
<1>2. ASSUME NEW b \in Builds, Start(b)
      PROVE  SchemaInv'
  BY <1>1, <1>2, CallSchema DEF Start
<1>3. ASSUME NEW b \in Builds, CliCalls(b)
      PROVE  SchemaInv'
  BY <1>3, CallSchema DEF CliCalls
<1>4. ASSUME NEW p \in Runners, Migrates(p)
      PROVE  SchemaInv'
  BY <1>4, MigrateSchema DEF Migrates
<1>5. CASE Exit \/ JoinRaises \/ Ended \/ Crash
  BY <1>5, DiesSchema DEF Exit, JoinRaises, Ended, Crash
<1>6. CASE OpenPool
  <2>1. CASE Dies("app")
    BY <1>6, <2>1, DiesSchema DEF OpenPool
  <2>2. CASE UNCHANGED <<runner, txn>>
    BY <1>1, <1>6, <2>2 DEF OpenPool
  <2> QED
    BY <1>6, <2>1, <2>2 DEF OpenPool
<1>7. CASE CliCrashes
  BY <1>7, DiesSchema DEF CliCrashes
<1>8. CASE SpawnWorker \/ StartScheduler \/ SelfTest \/ WorkerDies \/ Tick \/ OrphansEnd \/ ProbeTurns
  BY <1>1, <1>8 DEF SpawnWorker, StartScheduler, SelfTest, WorkerDies, Tick, OrphansEnd, ProbeTurns, dvars
<1>9. CASE Stop \/ StopScheduler \/ JoinWorker \/ ClosePool
  BY <1>1, <1>9 DEF Stop, StopScheduler, JoinWorker, ClosePool, dvars
<1>10. ASSUME NEW c \in Clients, HealthBegins(c) \/ HealthProbes(c) \/ HealthEnds(c)
       PROVE  SchemaInv'
  BY <1>1, <1>10 DEF HealthBegins, HealthProbes, HealthEnds, dvars
<1>11. CASE UNCHANGED vars
  BY <1>1, <1>11 DEF vars, dvars
<1> QED
  BY <1>2, <1>3, <1>4, <1>5, <1>6, <1>7, <1>8, <1>9, <1>10, <1>11 DEF Next

\* All or nothing, for any set of images, however their scripts create, drop and
\* rename tables: what is committed is nothing, or the whole upgrade of one
\* image that passed its checks, every statement of it run on what the one
\* before left (migrate.py:615-676).
THEOREM SchemaIsUpgradeCorrect == Spec => []SchemaIsUpgrade
<1>1. Init => OwnInv /\ OffIdle /\ SchemaInv
  BY DEF Init, MigrationsInit, OwnInv, OffIdle, RunnerTyped, RunnerPcs, IsFun, TxnInv, DoneInv,
         Applies, Runners, SchemaInv, SchemaIsUpgrade, AllChecked, Checked, UpgradeUnderWay
<1>2. OwnInv /\ OffIdle /\ [Next]_vars => OwnInv' /\ OffIdle'
  BY OwnMoves
<1>3. SchemaInv /\ OwnInv /\ OwnInv' /\ [Next]_vars => SchemaInv'
  BY SchemaMoves
<1>4. SchemaInv => SchemaIsUpgrade
  BY DEF SchemaInv
<1> QED
  BY <1>1, <1>2, <1>3, <1>4, PTL DEF Spec

-----------------------------------------------------------------------------
(* What the scripts leave is what their CREATEs and DROPs promise.         *)

Creates(s, x) == s[1] = "create" /\ s[2] = x
Drops(s, x)   == s[1] = "drop" /\ s[2] = x

\* x is a table after k statements: it was there and none drops it, or one makes
\* it, by creating or by renaming, and none after that drops it.
FromStatement(script, k, from, x) ==
    \/ x \in from /\ \A l \in 1..k : ~Drops(script[l], x)
    \/ \E j \in 1..k : /\ Creates(script[j], x) \/ (script[j][1] = "rename" /\ script[j][3] = x)
                       /\ \A l \in (j + 1)..k : ~Drops(script[l], x)

\* One statement more.
LEMMA FromStatementGoesOn ==
    ASSUME NEW script, NEW k \in Nat, NEW from, NEW tables, NEW x,
           \A y \in tables : FromStatement(script, k, from, y),
           script[k + 1][1] \in {"create", "drop", "rename"},
           x \in Ran(tables, script[k + 1])
    PROVE  FromStatement(script, k + 1, from, x)
<1> DEFINE s == script[k + 1]
<1>1. CASE Creates(s, x) \/ (s[1] = "rename" /\ s[3] = x)
  <2>1. k + 1 \in 1..(k + 1) /\ ((k + 1) + 1)..(k + 1) = {}
    OBVIOUS
  <2> QED
    BY <1>1, <2>1, Zenon DEF FromStatement
<1>2. CASE ~(Creates(s, x) \/ (s[1] = "rename" /\ s[3] = x))
  <2>1. x \in tables /\ ~Drops(s, x)
    <3>1. CASE s[1] = "create"
      BY <1>2, <3>1 DEF Ran, Creates, Drops
    <3>2. CASE s[1] = "drop"
      BY <1>2, <3>2 DEF Ran, Creates, Drops
    <3>3. CASE s[1] = "rename"
      BY <1>2, <3>3 DEF Ran, Creates, Drops
    <3> QED
      BY <3>1, <3>2, <3>3
  <2> HIDE DEF s
  <2>2. CASE x \in from /\ \A l \in 1..k : ~Drops(script[l], x)
    <3>1. \A l \in 1..(k + 1) : l \in 1..k \/ l = k + 1
      OBVIOUS
    <3> QED
      BY <2>1, <2>2, <3>1, Zenon DEF FromStatement, s
  <2>3. ASSUME NEW j \in 1..k,
               Creates(script[j], x) \/ (script[j][1] = "rename" /\ script[j][3] = x),
               \A l \in (j + 1)..k : ~Drops(script[l], x)
        PROVE  FromStatement(script, k + 1, from, x)
    <3>1. j \in 1..(k + 1) /\ \A l \in (j + 1)..(k + 1) : l \in (j + 1)..k \/ l = k + 1
      OBVIOUS
    <3>2. \A l \in (j + 1)..(k + 1) : ~Drops(script[l], x)
      BY <2>1, <2>3, <3>1, Zenon DEF s
    <3> QED
      BY <2>3, <3>1, <3>2, Zenon DEF FromStatement
  <2>4. FromStatement(script, k, from, x)
    BY <2>1
  <2> QED
    BY <2>2, <2>3, <2>4, Zenon DEF FromStatement
<1> QED
  BY <1>1, <1>2

\* What a whole script leaves was there and it never drops it, or it creates it
\* and does not drop it later: what it renames, it drops under the new name.
LEMMA ScriptLeaves ==
    ASSUME NEW content \in DOMAIN Script, NEW from, NEW to, NEW x \in to,
           ScriptRuns(Script[content], Len(Script[content]), from, to)
    PROVE  LET script == Script[content] IN
           \/ x \in from /\ \A l \in 1..Len(script) : ~Drops(script[l], x)
           \/ \E j \in 1..Len(script) :
                Creates(script[j], x) /\ \A l \in (j + 1)..Len(script) : ~Drops(script[l], x)
<1> DEFINE script == Script[content]
           K      == Len(script)
<1>1. /\ K \in Nat
      /\ \A k \in 1..K : script[k][1] \in {"create", "drop", "rename"}
      /\ \A k \in 1..K : script[k][1] = "rename" =>
            \E l \in (k + 1)..K : Drops(script[l], script[k][3])
  BY MigrationsAssumption, RenamesAssumption DEF Drops
<1>2. PICK t : /\ t[0] = from /\ t[K] = to
               /\ \A j \in 1..K : t[j] = Ran(t[j - 1], script[j])
  BY DEF ScriptRuns
<1> HIDE DEF script, K
<1> DEFINE S == {k \in Nat : k <= K => \A y \in t[k] : FromStatement(script, k, from, y)}
<1>3. 0 \in S
  <2>1. 1..0 = {}
    OBVIOUS
  <2>2. \A y \in t[0] : FromStatement(script, 0, from, y)
    BY <1>2, <2>1, Zenon DEF FromStatement
  <2> QED
    BY <2>2
<1>4. ASSUME NEW k \in Nat, k \in S PROVE k + 1 \in S
  <2> SUFFICES ASSUME k + 1 <= K, NEW y \in t[k + 1]
               PROVE  FromStatement(script, k + 1, from, y)
    OBVIOUS
  <2>1. k + 1 \in 1..K /\ (k + 1) - 1 = k /\ k <= K
    BY <1>1
  <2>2. t[k + 1] = Ran(t[k], script[k + 1])
    BY <1>2, <2>1
  <2>3. \A z \in t[k] : FromStatement(script, k, from, z)
    BY <1>4, <2>1
  <2> QED
    BY <1>1, <2>1, <2>2, <2>3, FromStatementGoesOn
<1>5. K \in S
  <2> HIDE DEF S
  <2> QED
    BY <1>1, <1>3, <1>4, Induction
<1>6. FromStatement(script, K, from, x)
  BY <1>1, <1>2, <1>5
<1>7. ASSUME NEW j \in 1..K, script[j][1] = "rename", script[j][3] = x,
             \A l \in (j + 1)..K : ~Drops(script[l], x)
      PROVE  FALSE
  BY <1>1, <1>7
<1> QED
  BY <1>6, <1>7, Zenon DEF FromStatement, script, K

\* The scripts of rows 1..n create a table, and none of them drops it later.
Promised(rows, n, x) ==
    \E i \in 1..n : \E j \in 1..Len(Script[rows[i]]) :
        /\ Creates(Script[rows[i]][j], x)
        /\ \A h \in 1..n : \A l \in 1..Len(Script[rows[h]]) :
              h > i \/ (h = i /\ l > j) => ~Drops(Script[rows[h]][l], x)

\* That is what _expected_tables_for makes of them.
LEMMA PromisedExpected ==
    ASSUME NEW rows, NEW n \in Nat, NEW x, Promised(rows, n, x)
    PROVE  x \in ExpectedTables(rows, 1..n)
<1> DEFINE at == Places(rows, 1..n)
           stmt(p) == Script[rows[p[1]]][p[2]]
           kept(p) == ~\E q \in at : Later(q, p) /\ stmt(q)[1] = "drop" /\ stmt(q)[2] = stmt(p)[2]
<1>1. PICK i, j :
        /\ i \in 1..n /\ j \in 1..Len(Script[rows[i]])
        /\ Creates(Script[rows[i]][j], x)
        /\ \A h \in 1..n : \A l \in 1..Len(Script[rows[h]]) :
              h > i \/ (h = i /\ l > j) => ~Drops(Script[rows[h]][l], x)
  BY DEF Promised
<1>2. \A q \in at : \E h \in 1..n : \E l \in 1..Len(Script[rows[h]]) : q = <<h, l>>
  BY DEF Places
<1>3. <<i, j>> \in at
  <2>1. i \in 1..n /\ <<i, j>> \in {<<i, k>> : k \in 1..Len(Script[rows[i]])}
    BY <1>1
  <2> QED
    BY <2>1, Zenon DEF Places
<1>4. stmt(<<i, j>>)[1] = "create" /\ stmt(<<i, j>>)[2] = x
  BY <1>1 DEF Creates
<1>5. kept(<<i, j>>)
  <2> SUFFICES ASSUME NEW q \in at, Later(q, <<i, j>>), stmt(q)[1] = "drop", stmt(q)[2] = x
               PROVE  FALSE
    BY <1>4
  <2>1. PICK h \in 1..n : \E l \in 1..Len(Script[rows[h]]) : q = <<h, l>>
    BY <1>2
  <2>0. PICK l \in 1..Len(Script[rows[h]]) : q = <<h, l>>
    BY <2>1
  <2>2. h > i \/ (h = i /\ l > j)
    BY <2>0 DEF Later
  <2>3. Drops(Script[rows[h]][l], x)
    BY <2>0 DEF Drops
  <2> QED
    BY <1>1, <2>2, <2>3
<1>6. ExpectedTables(rows, 1..n) = {stmt(p)[2] : p \in {q \in at : stmt(q)[1] = "create" /\ kept(q)}}
  BY Zenon DEF ExpectedTables
<1> HIDE DEF at, kept
<1>7. <<i, j>> \in {q \in at : stmt(q)[1] = "create" /\ kept(q)}
  BY <1>3, <1>4, <1>5
<1> QED
  BY <1>4, <1>6, <1>7

\* One script more.
LEMMA PromisedGoesOn ==
    ASSUME NEW rows, NEW n \in Nat, NEW from, NEW to, NEW x \in to,
           rows[n + 1] \in DOMAIN Script,
           \A y \in from : Promised(rows, n, y),
           ScriptRuns(Script[rows[n + 1]], Len(Script[rows[n + 1]]), from, to)
    PROVE  Promised(rows, n + 1, x)
<1> DEFINE script == Script[rows[n + 1]]
<1>1. \/ x \in from /\ \A l \in 1..Len(script) : ~Drops(script[l], x)
      \/ \E j \in 1..Len(script) :
           Creates(script[j], x) /\ \A l \in (j + 1)..Len(script) : ~Drops(script[l], x)
  BY ScriptLeaves
<1>2. /\ n + 1 \in 1..(n + 1)
      /\ \A h \in 1..(n + 1) : h \in 1..n \/ h = n + 1
      /\ \A h \in 1..n : h \in 1..(n + 1)
  OBVIOUS
<1>3. CASE x \in from /\ \A l \in 1..Len(script) : ~Drops(script[l], x)
  <2>1. PICK i, j :
        /\ i \in 1..n /\ j \in 1..Len(Script[rows[i]])
        /\ Creates(Script[rows[i]][j], x)
        /\ \A h \in 1..n : \A l \in 1..Len(Script[rows[h]]) :
              h > i \/ (h = i /\ l > j) => ~Drops(Script[rows[h]][l], x)
    BY <1>3 DEF Promised
  <2>2. \A h \in 1..(n + 1) : \A l \in 1..Len(Script[rows[h]]) :
              h > i \/ (h = i /\ l > j) => ~Drops(Script[rows[h]][l], x)
    BY <1>2, <1>3, <2>1, Zenon
  <2> QED
    BY <1>2, <2>1, <2>2, Zenon DEF Promised
<1>4. ASSUME NEW j \in 1..Len(script), Creates(script[j], x),
             \A l \in (j + 1)..Len(script) : ~Drops(script[l], x)
      PROVE  Promised(rows, n + 1, x)
  <2>1. Len(script) \in Nat
    BY MigrationsAssumption
  <2>2. \A h \in 1..(n + 1) : \A l \in 1..Len(Script[rows[h]]) :
              h > n + 1 \/ (h = n + 1 /\ l > j) => ~Drops(Script[rows[h]][l], x)
    <3> SUFFICES ASSUME NEW h \in 1..(n + 1), NEW l \in 1..Len(Script[rows[h]]),
                        h > n + 1 \/ (h = n + 1 /\ l > j)
                 PROVE  ~Drops(Script[rows[h]][l], x)
      OBVIOUS
    <3>1. h = n + 1 /\ l > j
      OBVIOUS
    <3>2. l \in (j + 1)..Len(script)
      BY <2>1, <3>1
    <3> QED
      BY <1>4, <3>1, <3>2
  <2> QED
    BY <1>2, <1>4, <2>2, Zenon DEF Promised
<1> QED
  BY <1>1, <1>3, <1>4

\* An upgrade from nothing leaves what its scripts promise, and no more.
LEMMA UpgradeLeaves ==
    ASSUME NEW rows, NEW n \in Nat, NEW tables, Upgrades(rows, n, tables),
           \A i \in 1..n : rows[i] \in DOMAIN Script
    PROVE  tables \subseteq ExpectedTables(rows, 1..n)
<1>1. PICK at : /\ at[0] = {} /\ at[n] = tables
                /\ \A i \in 1..n :
                     ScriptRuns(Script[rows[i]], Len(Script[rows[i]]), at[i - 1], at[i])
  BY DEF Upgrades
<1> DEFINE S == {k \in Nat : k <= n => \A y \in at[k] : Promised(rows, k, y)}
<1>2. 0 \in S
  BY <1>1
<1>3. ASSUME NEW k \in Nat, k \in S PROVE k + 1 \in S
  <2> SUFFICES ASSUME k + 1 <= n, NEW y \in at[k + 1]
               PROVE  Promised(rows, k + 1, y)
    OBVIOUS
  <2>1. k + 1 \in 1..n /\ (k + 1) - 1 = k /\ k <= n
    OBVIOUS
  <2>2. ScriptRuns(Script[rows[k + 1]], Len(Script[rows[k + 1]]), at[k], at[k + 1])
    BY <1>1, <2>1
  <2>3. \A z \in at[k] : Promised(rows, k, z)
    BY <1>3, <2>1
  <2>4. rows[k + 1] \in DOMAIN Script
    BY <2>1
  <2> QED
    BY <2>2, <2>3, <2>4, PromisedGoesOn
<1>4. n \in S
  <2> HIDE DEF S
  <2> QED
    BY <1>2, <1>3, Induction
<1> QED
  BY <1>1, <1>4, PromisedExpected

\* The schema of an image that is whole is one of the schemas.
LEMMA WholeIsSchema ==
    ASSUME NEW b \in Builds, NEW rows, NEW tables, Whole(b, [rows |-> rows, tables |-> tables])
    PROVE  [rows |-> rows, tables |-> tables] \in Schemas
<1>1. /\ b.sound /\ b.files = b.pinned /\ rows = b.files
      /\ ExpectedTables(b.files, DOMAIN b.files) \subseteq tables
  BY DEF Whole
<1>2. PICK n \in Nat : DOMAIN b.files = 1..n /\ Upgrades(b.files, n, tables)
  BY DEF Whole
<1>3. \A i \in 1..n : b.files[i] \in DOMAIN Script
  BY <1>2, MigrationsAssumption
<1>4. tables \subseteq ExpectedTables(b.files, DOMAIN b.files)
  BY <1>2, <1>3, UpgradeLeaves
<1>5. tables = ExpectedTables(b.files, DOMAIN b.files)
  BY <1>1, <1>4
<1> QED
  BY <1>1, <1>5 DEF Schemas, ManifestRefused

\* A step of a runner upgrades the committed schema or leaves it.
LEMMA UpgradesWhole ==
    ASSUME SchemaInv, OwnInv, OwnInv', NEW p \in Runners, Migrate(p)
    PROVE  UNCHANGED db \/ History!Upgrade
<1>1. UNCHANGED db \/ Commit(p)
  BY DEF Migrate, Prepare, BeginTxn, BusyFails, ApplyStatement, RecordRow, StatementFails
<1>2. ASSUME Commit(p), db' # db
      PROVE  History!Upgrade
  <2>1. /\ Applies(p) /\ runner' = [runner EXCEPT ![p].pc = "done"]
        /\ db' = [rows |-> txn.rows, tables |-> txn.tables]
    BY <1>2, Zenon DEF Commit, Applies, Goto
  <2>2. runner'[p].pc = "done"
    BY <2>1, GoesTo DEF OwnInv, RunnerPcs
  <2>3. \E b \in Builds : Whole(b, db')
    BY <1>2, <2>2, CommitSchema
  <2>4. db' \in Schemas
    BY <2>1, <2>3, WholeIsSchema
  <2>5. Extends(db'.rows, db.rows)
    BY <2>1 DEF OwnInv, TxnInv
  <2> QED
    BY <2>4, <2>5 DEF History!Upgrade, History!Continues, Extends
<1> QED
  BY <1>1, <1>2

\* The migrations implement the history of whole schemas, each one's rows
\* continuing those of the one before, for any images whose scripts drop what
\* they rename: no run of a runner, with any other beside it and whatever fails,
\* makes a part of an upgrade durable (migrate.py:615-676).
THEOREM ImplementsHistoryCorrect == Spec => ImplementsHistory
<1>1. Init => OwnInv /\ OffIdle /\ SchemaInv /\ History!Init
  BY DEF Init, MigrationsInit, OwnInv, OffIdle, RunnerTyped, RunnerPcs, IsFun, TxnInv, DoneInv,
         Applies, Runners, SchemaInv, SchemaIsUpgrade, AllChecked, Checked, UpgradeUnderWay,
         History!Init
<1>2. OwnInv /\ OffIdle /\ [Next]_vars => OwnInv' /\ OffIdle'
  BY OwnMoves
<1>3. SchemaInv /\ OwnInv /\ OwnInv' /\ [Next]_vars => SchemaInv'
  BY SchemaMoves
<1>4. SchemaInv /\ OwnInv /\ OwnInv' /\ [Next]_vars => [History!Upgrade]_db
  <2> SUFFICES ASSUME SchemaInv, OwnInv, OwnInv', [Next]_vars, db' # db
               PROVE  History!Upgrade
    OBVIOUS
  <2>1. PICK p \in Runners : Migrates(p)
    BY DEF Next, Start, CliCalls, Exit, Gone, OpenPool, SpawnWorker, StartScheduler, SelfTest,
           WorkerDies, Tick, OrphansEnd, ProbeTurns, HealthBegins, HealthProbes, HealthEnds, Stop,
           StopScheduler, JoinWorker, JoinRaises, ClosePool, Ended, Crash, CliCrashes, lvars,
           dvars, vars
  <2> QED
    BY <2>1, UpgradesWhole DEF Migrates
<1> QED
  BY <1>1, <1>2, <1>3, <1>4, PTL DEF Spec, ImplementsHistory, History!Spec

-----------------------------------------------------------------------------
(* What is committed, an image that continues it takes up.                 *)

\* Files that agree on some ids promise the same tables for them.
LEMMA ExpectedAgree ==
    ASSUME NEW f, NEW g, NEW ids, \A i \in ids : f[i] = g[i]
    PROVE  ExpectedTables(f, ids) = ExpectedTables(g, ids)
<1> DEFINE at == Places(f, ids)
           stmt(p) == Script[f[p[1]]][p[2]]
           kept(p) == ~\E q \in at : Later(q, p) /\ stmt(q)[1] = "drop" /\ stmt(q)[2] = stmt(p)[2]
           same(p) == Script[g[p[1]]][p[2]]
           held(p) == ~\E q \in at : Later(q, p) /\ same(q)[1] = "drop" /\ same(q)[2] = same(p)[2]
<1>1. at = Places(g, ids)
  BY DEF Places
<1>2. \A p \in at : stmt(p) = same(p)
  <2> SUFFICES ASSUME NEW p \in at PROVE f[p[1]] = g[p[1]]
    OBVIOUS
  <2>1. \E i \in ids : \E k : p = <<i, k>>
    BY DEF Places
  <2> QED
    BY <2>1
<1>3. ExpectedTables(f, ids) = {stmt(p)[2] : p \in {q \in at : stmt(q)[1] = "create" /\ kept(q)}}
  BY Zenon DEF ExpectedTables
<1>4. ExpectedTables(g, ids) = {same(p)[2] : p \in {q \in at : same(q)[1] = "create" /\ held(q)}}
  BY <1>1, Zenon DEF ExpectedTables
<1>5. {q \in at : stmt(q)[1] = "create" /\ kept(q)} = {q \in at : same(q)[1] = "create" /\ held(q)}
  <2>1. \A q \in at : kept(q) <=> held(q)
    BY <1>2
  <2> HIDE DEF at, kept, held
  <2> QED
    BY <1>2, <2>1
<1> DEFINE R == {q \in at : same(q)[1] = "create" /\ held(q)}
<1>6. \A p \in R : stmt(p)[2] = same(p)[2]
  BY <1>2
<1>7. ExpectedTables(f, ids) = {stmt(p)[2] : p \in R} /\ ExpectedTables(g, ids) = {same(p)[2] : p \in R}
  BY <1>3, <1>4, <1>5
<1> HIDE DEF R
<1> QED
  BY <1>6, <1>7

\* An image that passes its checks, whose ids have no gap, and whose files are
\* the rows that were committed and perhaps more.
Continuing(b) ==
    /\ b.sound /\ b.files = b.pinned
    /\ \E m \in Nat : DOMAIN b.files = 1..m
    /\ Extends(b.files, db.rows)

\* What run_migrations compares under BEGIN IMMEDIATE.
Refused(b) ==
    \/ GapRefused(DOMAIN db.rows, DOMAIN b.files) \/ Drifted(db.rows, b.files)
    \/ TablesRefused(db.tables, b.files, DOMAIN db.rows)

NeverStranded == \A b \in Builds : Continuing(b) => ~Refused(b)

\* The gap, the drift and the missing tables that the checks look for are not there.
LEMMA UpgradeTakesUp == SchemaIsUpgrade => NeverStranded
<1> SUFFICES ASSUME SchemaIsUpgrade, NEW b \in Builds, Continuing(b) PROVE ~Refused(b)
  BY DEF NeverStranded
<1>1. PICK m \in Nat : DOMAIN b.files = 1..m
  BY DEF Continuing
<1>2. /\ DOMAIN db.rows \subseteq DOMAIN b.files
      /\ \A i \in DOMAIN db.rows : b.files[i] = db.rows[i]
  BY DEF Continuing, Extends
<1>3. ~Drifted(db.rows, b.files)
  BY <1>2 DEF Drifted
<1>4. ~GapRefused(DOMAIN db.rows, DOMAIN b.files)
  <2>1. DOMAIN db.rows \cup DOMAIN b.files = 1..m
    BY <1>1, <1>2
  <2>2. Cardinality(1..m) = m
    BY <1>1, FS_Interval
  <2> QED
    BY <1>2, <2>1, <2>2 DEF GapRefused
<1>5. ExpectedTables(b.files, DOMAIN db.rows) \subseteq db.tables
  <2>1. CASE db = [rows |-> <<>>, tables |-> {}]
    <3>1. DOMAIN db.rows = {} /\ Places(b.files, {}) = {}
      BY <2>1 DEF Places
    <3> QED
      BY <3>1 DEF ExpectedTables
  <2>2. ASSUME NEW c \in Builds, Whole(c, db) PROVE ExpectedTables(b.files, DOMAIN db.rows) \subseteq db.tables
    <3>1. db.rows = c.files /\ ExpectedTables(c.files, DOMAIN c.files) \subseteq db.tables
      BY <2>2 DEF Whole
    <3>2. ExpectedTables(b.files, DOMAIN db.rows) = ExpectedTables(db.rows, DOMAIN db.rows)
      BY <1>2, ExpectedAgree
    <3> QED
      BY <3>1, <3>2
  <2> QED
    BY <2>1, <2>2 DEF SchemaIsUpgrade
<1> QED
  BY <1>3, <1>4, <1>5 DEF Refused, TablesRefused

\* No crash, failure or race of two runners leaves a schema that the checks of an
\* image refuse which continues it: the upgrade is simply taken up again
\* (migrate.py:615-676).
THEOREM NeverStrandedCorrect == Spec => []NeverStranded
BY SchemaIsUpgradeCorrect, UpgradeTakesUp, PTL
=============================================================================
