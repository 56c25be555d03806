--------------------------- MODULE Content_proofs ---------------------------
(***************************************************************************)
(* Proofs about the modules of ContentMC, for every value of their         *)
(* constants.                                                              *)
(*   Curation: types, and the operator's word.                             *)
(*   Archive: types, and that no torn copy is published.                   *)
(*   ManifestFetch: that a fetch accounts for every title.                 *)
(*   CacheGuard: types, that no wolf is cried, and that the alarm of a     *)
(*   loss stands until it is told.                                         *)
(*   KeyBudget: that the monitor turns green only when there is room.      *)
(* At the end, the types of all of them side by side.                      *)
(***************************************************************************)
EXTENDS ContentMC, FiniteSetTheorems, SequenceTheorems, WellFoundedInduction, TLAPS

-----------------------------------------------------------------------------
(* Curation: who decided a row of the block list.                          *)

\* A row that is in the table has an author.
LEMMA RowFacts ==
    ASSUME NEW mode, NEW source, source # "none"
    PROVE  Row(mode, source) # NoRow
BY DEF Row, NoRow

-----------------------------------------------------------------------------
(* Types.                                                                  *)

LEMMA InitTyped == Init => TypeOK
BY CurationAssumption DEF Init, TypeOK, Forms, NoSync, NoTick, NoRow

LEMMA SyncTyped ==
    ASSUME TypeOK, SyncBegins \/ SyncEnds \/ SyncFails
    PROVE  TypeOK'
<1>1. CASE SyncBegins
  BY <1>1, CurationAssumption DEF SyncBegins, TypeOK, file
<1>2. CASE SyncEnds
  BY <1>2, CurationAssumption DEF SyncEnds, TypeOK, NoSync, file
<1>3. CASE SyncFails
  <2>1. info' \in [Apps -> Infos \cup {NoInfo}]
    BY <1>3, CurationAssumption DEF SyncFails, TypeOK, Learned
  <2>2. sync' \in [on : BOOLEAN, left : SUBSET Apps, budget : 0..Fetches]
    BY <1>3, CurationAssumption DEF SyncFails, NoSync
  <2> QED
    BY <1>3, <2>1, <2>2, CurationAssumption DEF SyncFails, Fault, TypeOK, file
<1> QED
  BY <1>1, <1>2, <1>3

LEMMA SyncAppTyped ==
    ASSUME TypeOK, NEW a \in Apps, NEW answer \in Answers[a], SyncApp(a, answer)
    PROVE  TypeOK'
<1>1. answer \in Infos \cup {NoInfo} /\ info[a] \in Infos \cup {NoInfo}
  BY CurationAssumption DEF TypeOK
<1>2. info' \in [Apps -> Infos \cup {NoInfo}]
  BY <1>1 DEF SyncApp, TypeOK, Learned
<1>3. sync' \in [on : BOOLEAN, left : SUBSET Apps, budget : 0..Fetches]
  <2>1. sync \in [on : BOOLEAN, left : SUBSET Apps, budget : 0..Fetches]
    BY DEF TypeOK
  <2>2. CASE sync' = [sync EXCEPT !.left = @ \ {a}, !.budget = @ - 1] /\ sync.budget > 0
    <3>1. Fetches \in Nat /\ sync.budget \in 0..Fetches /\ sync.left \ {a} \in SUBSET Apps
      BY <2>1, CurationAssumption
    <3>2. sync.budget - 1 \in 0..Fetches
      BY <2>2, <3>1
    <3> QED
      BY <2>1, <2>2, <3>1, <3>2
  <2>3. CASE sync' = [sync EXCEPT !.left = @ \ {a}, !.budget = @]
    BY <2>1, <2>3
  <2> QED
    BY <2>2, <2>3 DEF SyncApp
<1>4. owned \subseteq owned' /\ owned' \subseteq Apps
  BY DEF SyncApp, TypeOK
<1>5. lent' \subseteq [app : owned', form : Forms, apps : SUBSET Apps]
  BY <1>4 DEF SyncApp, TypeOK, file
<1> QED
  BY <1>2, <1>3, <1>4, <1>5 DEF SyncApp, TypeOK, file

LEMMA TickTyped ==
    ASSUME TypeOK, TickStep \/ TickFails
    PROVE  TypeOK'
<1>1. CASE TickReads
  BY <1>1 DEF TickReads, TypeOK, NoTick, file
<1>2. ASSUME NEW a \in Apps, TickInserts(a) PROVE TypeOK'
  <2>1. excl' \in [Apps -> {NoRow} \cup [mode : Modes, source : {"operator", "classifier", "gameshelf"}]]
    BY <1>2 DEF TickInserts, TypeOK, Row, Modes
  <2> QED
    BY <1>2, <2>1, CurationAssumption DEF TickInserts, TypeOK, Fault, file
<1>3. CASE TickExcludes \/ TickAllows
  <2>1. With("exclude") \in SUBSET Apps /\ With("allow") \in SUBSET Apps
    BY DEF With
  <2>2. tick' \in [pc : {"idle", "insert", "allow", "prune"}, left : SUBSET Apps,
                   exclude : SUBSET Apps, allow : SUBSET Apps]
    BY <1>3, <2>1 DEF TickExcludes, TickAllows, TypeOK
  <2> QED
    BY <1>3, <2>2 DEF TickExcludes, TickAllows, TypeOK, file
<1>4. CASE TickPrunes
  <2>1. selection' \subseteq Apps
    BY <1>4 DEF TickPrunes, Pruned, Restored, TypeOK
  <2> QED
    BY <1>4, <2>1, CurationAssumption DEF TickPrunes, Fault, NoTick, TypeOK
<1>5. CASE TickFails
  <2>1. selection' \subseteq Apps /\ form' \in Forms /\ faults' \in 0..MaxFaults
    BY <1>5, CurationAssumption DEF TickFails, Torn, Fault, Forms, TypeOK
  <2> QED
    BY <1>5, <2>1 DEF TickFails, NoTick, TypeOK
<1> QED
  BY <1>1, <1>2, <1>3, <1>4, <1>5 DEF TickStep

LEMMA EndpointTyped ==
    ASSUME TypeOK,
           \/ \E a \in Apps :
                \/ HostPrefills(a) \/ RunBegins(a) \/ ClearExclusion(a)
                \/ \E mode \in Modes : SetExclusion(a, mode)
           \/ \E apps \in SUBSET Apps : ReconcileGameshelf(apps) \/ HostSelects(apps)
           \/ RunEnds
    PROVE  TypeOK'
<1>1. ASSUME NEW a \in Apps, HostPrefills(a) \/ RunBegins(a) PROVE TypeOK'
  <2>1. CASE HostPrefills(a)
    BY <2>1 DEF HostPrefills, TypeOK, file
  <2>2. CASE RunBegins(a)
    <3>1. /\ selection' \subseteq Apps /\ form' \in Forms /\ faults' \in 0..MaxFaults
          /\ lent' \subseteq [app : owned, form : Forms, apps : SUBSET Apps]
      BY <2>2, CurationAssumption DEF RunBegins, Torn, Fault, Forms, TypeOK
    <3> QED
      BY <2>2, <3>1 DEF RunBegins, TypeOK
  <2> QED
    BY <1>1, <2>1, <2>2
<1>2. ASSUME NEW a \in Apps, NEW mode \in Modes, ClearExclusion(a) \/ SetExclusion(a, mode)
      PROVE  TypeOK'
  BY <1>2, CurationAssumption DEF ClearExclusion, SetExclusion, Meddle, TypeOK, Row, file
<1>3. ASSUME NEW apps \in SUBSET Apps, ReconcileGameshelf(apps) PROVE TypeOK'
  <2>1. excl' \in [Apps -> {NoRow} \cup [mode : Modes, source : {"operator", "classifier", "gameshelf"}]]
    BY <1>3 DEF ReconcileGameshelf, Reconciled, Row, Modes, TypeOK
  <2> QED
    BY <1>3, <2>1, CurationAssumption DEF ReconcileGameshelf, Meddle, TypeOK, file
<1>4. ASSUME NEW apps \in SUBSET Apps, HostSelects(apps) PROVE TypeOK'
  BY <1>4, CurationAssumption DEF HostSelects, Meddle, Forms, TypeOK
<1>5. "allow" \in Modes
  BY DEF Modes
<1>6. CASE RunEnds
  <2>1. PICK l \in lent, ok \in BOOLEAN :
          LET prefilled == {a \in {l.app} : ok}
          IN /\ lent' = {} /\ bins' = bins \cup prefilled
             /\ \/ PutBack(l) /\ done' = done \cup prefilled /\ UNCHANGED faults
                \/ PutBack(l) /\ ok /\ Fault /\ UNCHANGED done
                \/ Torn /\ UNCHANGED done
                \/ Fault /\ UNCHANGED <<done, form, selection>>
             /\ UNCHANGED <<info, owned, excl, sync, tick, asked, ops>>
    BY <1>6 DEF RunEnds
  <2>2. l.app \in owned /\ l.form \in Forms /\ l.apps \subseteq Apps
    BY DEF TypeOK
  <2>3. selection' \subseteq Apps /\ form' \in Forms
    BY <2>1, <2>2 DEF PutBack, Torn, Forms, TypeOK
  <2>4. faults' \in 0..MaxFaults
    BY <2>1, CurationAssumption DEF Torn, Fault, TypeOK
  <2>5. bins' \subseteq Apps /\ done' \subseteq owned
    BY <2>1, <2>2 DEF TypeOK
  <2> QED
    BY <2>1, <2>3, <2>4, <2>5 DEF TypeOK
<1> QED
  BY <1>1, <1>2, <1>3, <1>4, <1>5, <1>6

LEMMA CurationStepTyped == TypeOK /\ [Next]_vars => TypeOK'
<1> SUFFICES ASSUME TypeOK, [Next]_vars PROVE TypeOK'
  OBVIOUS
<1>1. CASE UNCHANGED vars
  BY <1>1 DEF vars, file, TypeOK
<1>2. CASE Next
  BY <1>2, SyncTyped, SyncAppTyped, TickTyped, EndpointTyped DEF Next
<1> QED
  BY <1>1, <1>2

\* Every reachable state is well typed; in particular the store budget of a
\* library_sync is never overdrawn (library_sync.py:119-143).
THEOREM TypeCorrect == Spec => []TypeOK
<1> QED
  BY InitTyped, CurationStepTyped, PTL DEF Spec

-----------------------------------------------------------------------------
(* The operator's word.                                                    *)

\* Who else writes the table leaves the operator's rows alone: the tick writes
\* where there is no row, Game_shelf inserts there and deletes its own.
LEMMA OthersYield ==
    ASSUME TypeOK, OperatorWins,
           \/ \E b \in Apps : TickInserts(b)
           \/ \E push \in SUBSET Apps : ReconcileGameshelf(push)
    PROVE  OperatorWins'
<1> SUFFICES ASSUME NEW a \in Apps, asked'[a] # "none"
             PROVE  excl'[a] = Row(asked'[a], "operator")
  BY DEF OperatorWins
<1>1. asked' = asked /\ excl[a] = Row(asked[a], "operator")
  BY DEF OperatorWins, TickInserts, ReconcileGameshelf
<1>2. excl[a] # NoRow /\ excl[a].source = "operator"
  BY <1>1 DEF Row, NoRow
<1>3. excl'[a] = excl[a]
  BY <1>2 DEF TickInserts, ReconcileGameshelf, Reconciled, TypeOK
<1> QED
  BY <1>1, <1>3

\* Whatever a tick read before it, whatever Game_shelf pushes: the operator's
\* last word on an app stands in prefill_exclusions.
THEOREM OperatorWinsCorrect == Spec => []OperatorWins
<1>1. Init => OperatorWins
  BY DEF Init, OperatorWins
<1>2. TypeOK /\ OperatorWins /\ [Next]_vars => OperatorWins'
  <2> SUFFICES ASSUME TypeOK, OperatorWins, [Next]_vars PROVE OperatorWins'
    OBVIOUS
  <2>1. CASE UNCHANGED <<excl, asked>>
    BY <2>1 DEF OperatorWins
  <2>2. ASSUME NEW a \in Apps, NEW mode \in Modes, SetExclusion(a, mode) PROVE OperatorWins'
    BY <2>2 DEF SetExclusion, OperatorWins, TypeOK
  <2>3. ASSUME NEW a \in Apps, ClearExclusion(a) PROVE OperatorWins'
    BY <2>3 DEF ClearExclusion, OperatorWins, TypeOK
  <2>4. ASSUME NEW a \in Apps, TickInserts(a) PROVE OperatorWins'
    BY <2>4, OthersYield
  <2>5. ASSUME NEW apps \in SUBSET Apps, ReconcileGameshelf(apps) PROVE OperatorWins'
    BY <2>5, OthersYield
  <2>6. CASE SyncBegins \/ SyncEnds \/ SyncFails \/ RunEnds \/ TickReads \/ TickExcludes \/ TickAllows
             \/ TickPrunes \/ TickFails
    BY <2>1, <2>6 DEF SyncBegins, SyncEnds, SyncFails, RunEnds, TickReads, TickExcludes, TickAllows,
                      TickPrunes, TickFails
  <2>7. ASSUME NEW a \in Apps,
               \/ HostPrefills(a) \/ RunBegins(a)
               \/ \E answer \in Answers[a] : SyncApp(a, answer)
               \/ \E apps \in SUBSET Apps : HostSelects(apps)
        PROVE  UNCHANGED <<excl, asked>>
    BY <2>7 DEF HostPrefills, RunBegins, SyncApp, HostSelects
  <2>8. CASE UNCHANGED vars
    BY <2>1, <2>8 DEF vars
  <2>9. ASSUME NEW apps \in SUBSET Apps, HostSelects(apps) PROVE OperatorWins'
    BY <2>1, <2>9 DEF HostSelects
  <2> QED
    BY <2>1, <2>2, <2>3, <2>4, <2>5, <2>6, <2>7, <2>8, <2>9 DEF Next, TickStep
<1> QED
  BY <1>1, <1>2, TypeCorrect, PTL DEF Spec

-----------------------------------------------------------------------------
(* Archive: the names of the copies.                                       *)

\* A name of its own per attempt.
LEMMA NamesDiffer ==
    ASSUME NEW s \in Syncers, NEW t \in Syncers, NEW f \in Manifests, NEW g \in Manifests
    PROVE  /\ TempName(s, f) \in Temps
           /\ TempName(s, f) = TempName(t, g) => s = t /\ f = g
BY DEF TempName, Temps

-----------------------------------------------------------------------------
(* Types.                                                                  *)

Copies == [pc : {"idle", "pick", "open", "fill", "publish", "stamp"},
           todo : SUBSET Manifests, file : SUBSET Manifests, src : Texts]

LEMMA NoCopyTyped == NoCopy \in Copies
BY DEF NoCopy, Copies, Texts

LEMMA LeaveTyped ==
    ASSUME ArchiveTypeOK, NEW s \in Syncers, NEW f \in Manifests
    PROVE  Leave(s, f) \in Copies
BY DEF ArchiveTypeOK, Leave, NoCopy, Copies, Texts

LEMMA HostTyped ==
    ASSUME ArchiveTypeOK, NEW f \in Manifests,
           HostBegins(f) \/ HostCompletes(f) \/ Settles(f) \/ HostDrops(f)
    PROVE  ArchiveTypeOK'
BY DEF HostBegins, HostCompletes, Settles, HostDrops, ArchiveTypeOK, Texts

LEMMA CopyTyped ==
    ASSUME ArchiveTypeOK, NEW s \in Syncers, SyncStep(s) \/ \E f \in Manifests : CopyFails(s, f)
    PROVE  ArchiveTypeOK'
<1> USE DEF Texts
<1>0. copies \in [Syncers -> Copies]
  BY DEF ArchiveTypeOK, Copies
<1>1. CASE Begins(s)
  <2>1. [NoCopy EXCEPT !.pc = "pick", !.todo = {f \in Manifests : live[f] # "absent" /\ ~Archived(f)}]
          \in Copies
    BY NoCopyTyped DEF Copies
  <2>2. copies' \in [Syncers -> Copies]
    BY <1>0, <1>1, <2>1 DEF Begins
  <2>3. temps' \in [Temps -> Texts \cup {"torn"}]
    BY <1>1 DEF Begins, ArchiveTypeOK
  <2> QED
    BY <1>1, <2>2, <2>3 DEF Begins, ArchiveTypeOK, Copies
<1>2. CASE Finishes(s)
  BY <1>0, <1>2, NoCopyTyped DEF Finishes, ArchiveTypeOK, Copies
<1>3. ASSUME NEW f \in Manifests, Picks(s, f) PROVE ArchiveTypeOK'
  <2>1. [copies[s] EXCEPT !.pc = "open", !.file = {f}] \in Copies
    BY <1>0 DEF Copies
  <2>2. copies' \in [Syncers -> Copies]
    BY <1>0, <1>3, <2>1, LeaveTyped DEF Picks
  <2> QED
    BY <1>3, <2>2 DEF Picks, ArchiveTypeOK, Copies
<1>4. ASSUME NEW f \in Manifests, Opens(s, f) PROVE ArchiveTypeOK'
  <2>1. temps' \in [Temps -> Texts \cup {"torn"}]
    BY <1>4 DEF Opens, ArchiveTypeOK
  <2>2. CASE live[f] = "absent"
    <3>1. copies' \in [Syncers -> Copies]
      BY <1>0, <1>4, <2>2, LeaveTyped DEF Opens
    <3> QED
      BY <1>4, <2>1, <3>1 DEF Opens, ArchiveTypeOK, Copies
  <2>3. CASE live[f] # "absent"
    <3>1. copies' \in [Syncers -> Copies]
      BY <1>0, <1>4, <2>3 DEF Opens, ArchiveTypeOK, Copies
    <3> QED
      BY <1>4, <2>1, <3>1 DEF Opens, ArchiveTypeOK, Copies
  <2> QED
    BY <2>2, <2>3
<1>5. ASSUME NEW f \in Manifests, Fills(s, f) PROVE ArchiveTypeOK'
  <2>1. copies' \in [Syncers -> Copies]
    BY <1>0, <1>5 DEF Fills, Copies
  <2>2. temps' \in [Temps -> Texts \cup {"torn"}]
    BY <1>0, <1>5 DEF Fills, ArchiveTypeOK, Copies
  <2> QED
    BY <1>5, <2>1, <2>2 DEF Fills, ArchiveTypeOK, Copies
<1>6. ASSUME NEW f \in Manifests, Publishes(s, f) PROVE ArchiveTypeOK'
  <2>1. copies' \in [Syncers -> Copies]
    BY <1>0, <1>6 DEF Publishes, Copies
  <2>2. arch' \in [Manifests -> Texts \cup {"empty", "torn"}]
    BY <1>6, NamesDiffer DEF Publishes, ArchiveTypeOK
  <2>3. temps' \in [Temps -> Texts \cup {"torn"}]
    BY <1>6 DEF Publishes, ArchiveTypeOK
  <2> QED
    BY <1>6, <2>1, <2>2, <2>3 DEF Publishes, ArchiveTypeOK, Copies
<1>7. ASSUME NEW f \in Manifests, Stamps(s, f) PROVE ArchiveTypeOK'
  <2>1. copies' \in [Syncers -> Copies]
    BY <1>0, <1>7, LeaveTyped DEF Stamps
  <2> QED
    BY <1>7, <2>1, ArchiveAssumption DEF Stamps, IOFault, ArchiveTypeOK, Copies
<1>8. ASSUME NEW f \in Manifests, CopyFails(s, f) PROVE ArchiveTypeOK'
  <2>1. copies' \in [Syncers -> Copies]
    BY <1>0, <1>8, LeaveTyped DEF CopyFails
  <2>2. temps' \in [Temps -> Texts \cup {"torn"}]
    BY <1>8 DEF CopyFails, ArchiveTypeOK
  <2> QED
    BY <1>8, <2>1, <2>2, ArchiveAssumption DEF CopyFails, IOFault, ArchiveTypeOK, Copies
<1> QED
  BY <1>1, <1>2, <1>3, <1>4, <1>5, <1>6, <1>7, <1>8 DEF SyncStep

\* Every reachable state is well typed.
THEOREM ArchiveTypeCorrect == ArchiveSpec => []ArchiveTypeOK
<1>1. ArchiveInit => ArchiveTypeOK
  BY ArchiveAssumption, NoCopyTyped DEF ArchiveInit, ArchiveTypeOK, Copies, Texts
<1>2. ArchiveTypeOK /\ [ArchiveNext]_archiveVars => ArchiveTypeOK'
  <2> SUFFICES ASSUME ArchiveTypeOK, [ArchiveNext]_archiveVars PROVE ArchiveTypeOK'
    OBVIOUS
  <2>1. CASE AgentRestarts
    <3>1. copies' \in [Syncers -> Copies]
      BY <2>1, NoCopyTyped DEF AgentRestarts
    <3> QED
      BY <2>1, <3>1, ArchiveAssumption DEF AgentRestarts, IOFault, ArchiveTypeOK, Copies, Texts
  <2>2. CASE UNCHANGED archiveVars
    BY <2>2 DEF archiveVars, ArchiveTypeOK
  <2> QED
    BY <2>1, <2>2, HostTyped, CopyTyped DEF ArchiveNext
<1> QED
  BY <1>1, <1>2, PTL DEF ArchiveSpec

-----------------------------------------------------------------------------
(* No torn copy is published.                                              *)

\* A call works on one file at a time, and what it is about to publish was
\* filled: nobody else writes under its name.
Filled ==
    \A s \in Syncers :
        /\ \A f, g \in copies[s].file : f = g
        /\ copies[s].pc = "publish" =>
            \A f \in copies[s].file : temps[TempName(s, f)] # "torn"

ArchiveInv == ArchiveTypeOK /\ Filled /\ ArchiveWhole

LEMMA CopyKeeps ==
    ASSUME ArchiveInv, NEW s \in Syncers, SyncStep(s) \/ \E f \in Manifests : CopyFails(s, f)
    PROVE  (Filled /\ ArchiveWhole)'
<1> USE DEF ArchiveInv
<1>0. /\ copies \in [Syncers -> Copies] /\ temps \in [Temps -> Texts \cup {"torn"}]
      /\ \A t \in Syncers : copies[t].file \subseteq Manifests
  BY DEF ArchiveTypeOK, Copies
<1>a. \A f \in Manifests : Leave(s, f).file = {} /\ Leave(s, f).pc = "pick"
  BY DEF Leave, NoCopy
<1>1. CASE Begins(s)
  <2>1. copies'[s].file = {} /\ \A t \in Syncers : t # s => copies'[t] = copies[t]
    BY <1>0, <1>1 DEF Begins, NoCopy
  <2>2. \A t \in Temps : temps'[t] # "torn" \/ temps'[t] = temps[t]
    BY <1>0, <1>1 DEF Begins
  <2> QED
    BY <1>0, <1>1, <2>1, <2>2, NamesDiffer DEF Begins, Filled, ArchiveWhole
<1>2. CASE Finishes(s)
  BY <1>0, <1>2 DEF Finishes, NoCopy, Filled, ArchiveWhole
<1>3. ASSUME NEW f \in Manifests, Picks(s, f) PROVE (Filled /\ ArchiveWhole)'
  <2>1. /\ copies'[s].pc \in {"pick", "open"} /\ copies'[s].file \in {{}, {f}}
        /\ \A t \in Syncers : t # s => copies'[t] = copies[t]
    BY <1>0, <1>3, <1>a DEF Picks, Copies
  <2> QED
    BY <1>3, <2>1 DEF Picks, Filled, ArchiveWhole
<1>4. ASSUME NEW f \in Manifests, Opens(s, f) PROVE (Filled /\ ArchiveWhole)'
  <2>1. /\ copies'[s].pc \in {"pick", "fill"} /\ copies'[s].file \subseteq copies[s].file
        /\ \A t \in Syncers : t # s => copies'[t] = copies[t]
    BY <1>0, <1>4, <1>a DEF Opens, Copies
  <2>2. \A t \in Syncers, g \in Manifests : t # s => temps'[TempName(t, g)] = temps[TempName(t, g)]
    BY <1>0, <1>4, NamesDiffer DEF Opens
  <2> QED
    BY <1>0, <1>4, <2>1, <2>2 DEF Opens, Filled, ArchiveWhole
<1>5. ASSUME NEW f \in Manifests, Fills(s, f) PROVE (Filled /\ ArchiveWhole)'
  <2>1. /\ copies'[s].pc = "publish" /\ copies'[s].file = copies[s].file /\ f \in copies[s].file
        /\ \A t \in Syncers : t # s => copies'[t] = copies[t]
    BY <1>0, <1>5 DEF Fills, Copies
  <2>2. temps'[TempName(s, f)] # "torn"
    BY <1>0, <1>5, NamesDiffer DEF Fills, ArchiveTypeOK, Texts
  <2>3. \A t \in Syncers, g \in Manifests : t # s => temps'[TempName(t, g)] = temps[TempName(t, g)]
    BY <1>0, <1>5, NamesDiffer DEF Fills
  <2> QED
    BY <1>0, <1>5, <2>1, <2>2, <2>3 DEF Fills, Filled, ArchiveWhole
<1>6. ASSUME NEW f \in Manifests, Publishes(s, f) PROVE (Filled /\ ArchiveWhole)'
  <2>1. /\ copies'[s].pc = "stamp" /\ copies'[s].file = copies[s].file
        /\ \A t \in Syncers : t # s => copies'[t] = copies[t]
    BY <1>0, <1>6 DEF Publishes, Copies
  <2>2. \A t \in Temps : temps'[t] # "torn" \/ temps'[t] = temps[t]
    BY <1>0, <1>6 DEF Publishes
  <2>3. temps[TempName(s, f)] # "torn"
    BY <1>6 DEF Publishes, Filled
  <2>4. ArchiveWhole'
    BY <1>6, <2>3 DEF Publishes, ArchiveWhole, ArchiveTypeOK
  <2> QED
    BY <1>0, <2>1, <2>2, <2>4, NamesDiffer DEF Filled
<1>7. ASSUME NEW f \in Manifests, Stamps(s, f) PROVE (Filled /\ ArchiveWhole)'
  BY <1>0, <1>7, <1>a DEF Stamps, Filled, ArchiveWhole
<1>8. ASSUME NEW f \in Manifests, CopyFails(s, f) PROVE (Filled /\ ArchiveWhole)'
  <2>1. \A t \in Temps : temps'[t] # "torn" \/ temps'[t] = temps[t]
    BY <1>0, <1>8 DEF CopyFails
  <2> QED
    BY <1>0, <1>8, <1>a, <2>1, NamesDiffer DEF CopyFails, Filled, ArchiveWhole
<1> QED
  BY <1>1, <1>2, <1>3, <1>4, <1>5, <1>6, <1>7, <1>8 DEF SyncStep

\* However many files there are, however the two callers meet and wherever a
\* copy or the agent dies: no truncated copy gets its final name.
THEOREM ArchiveWholeCorrect == ArchiveSpec => []ArchiveWhole
<1>1. ArchiveInit => Filled /\ ArchiveWhole
  BY DEF ArchiveInit, NoCopy, Filled, ArchiveWhole
<1>2. ArchiveTypeOK /\ Filled /\ ArchiveWhole /\ [ArchiveNext]_archiveVars => (Filled /\ ArchiveWhole)'
  <2> SUFFICES ASSUME ArchiveInv, [ArchiveNext]_archiveVars PROVE (Filled /\ ArchiveWhole)'
    BY DEF ArchiveInv
  <2>1. CASE AgentRestarts
    BY <2>1 DEF AgentRestarts, NoCopy, Filled, ArchiveWhole, ArchiveInv
  <2>2. CASE UNCHANGED archiveVars
    BY <2>2 DEF archiveVars, Filled, ArchiveWhole, ArchiveInv
  <2>3. ASSUME NEW f \in Manifests, HostBegins(f) \/ HostCompletes(f) \/ Settles(f) \/ HostDrops(f)
        PROVE  (Filled /\ ArchiveWhole)'
    BY <2>3 DEF HostBegins, HostCompletes, Settles, HostDrops, Filled, ArchiveWhole, ArchiveInv
  <2> QED
    BY <2>1, <2>2, <2>3, CopyKeeps DEF ArchiveNext
<1> QED
  BY <1>1, <1>2, ArchiveTypeCorrect, PTL DEF ArchiveSpec

-----------------------------------------------------------------------------
(* ManifestFetch: the shape of a run and of its counters.                  *)

Everything == UNION {Ships[a] : a \in Titles}

Reports == [Titles -> [status : Statuses \cup {"none"}, names : SUBSET Everything]]

Runs == [pc : {"idle", "start", "helper", "archive"}, asked : SUBSET Titles, said : Reports,
         left : SUBSET Titles, exit : Exits]

Tallies == [fetched : Nat, skipped : Nat, failed : Nat, empty : Nat, apps : Nat]

FetchShape == fetch \in Runs /\ tally \in Tallies

-----------------------------------------------------------------------------
(* The inductive invariant.                                                *)

\* The apps whose report is dealt with.
Reached == Said \ fetch.left

\* Everything readable that was reported of an app is in the archive.
Written(a) == {<<a, m>> : m \in fetch.said[a].names \ Hollow} \subseteq shas

Fruitless == {a \in Reached : fetch.said[a].names = {}}

\* Only what Steam has is reported, and nothing of an app that was not attempted.
Told ==
    \A a \in Titles : /\ fetch.said[a].names \subseteq Ships[a]
                      /\ fetch.said[a].status = "not_attempted" => fetch.said[a].names = {}

\* Who was asked, who answered and who is waiting.
RunInv ==
    /\ Told
    /\ fetchJob = "running" <=> fetch.pc # "idle"
    /\ fetch.left \subseteq Said /\ Said \subseteq Sent
    /\ fetch.pc = "start" => fetch.asked = {} /\ tally = NoTally /\ Said = {}
    /\ fetch.pc \in {"helper", "archive"} =>
         fetch.asked # {} /\ tally.apps = Cardinality(fetch.asked)
    /\ fetch.pc = "helper" =>
         /\ fetch.left = {}
         /\ tally.fetched = 0 /\ tally.skipped = 0 /\ tally.failed = 0 /\ tally.empty = 0

\* While it archives, the counters account for the apps it has dealt with.
ShelfRun ==
    fetch.pc = "archive" =>
       /\ \A a \in Reached : Written(a)
       /\ Clean(fetch.exit) =>
            tally.failed = Cardinality(fetch.asked \cap OutOfRange) + Cardinality(Fruitless)
       /\ (\E a \in Reached : fetch.said[a].names # {}) => tally.fetched + tally.skipped > 0
       /\ (\A a \in Reached : fetch.said[a].names \subseteq Hollow) =>
            tally.empty = tally.fetched + tally.skipped

FetchInv == FetchTypeOK /\ FetchShape /\ RunInv /\ ShelfRun /\ FetchAccounted

-----------------------------------------------------------------------------
(* Lemmas: how a run's sets and counters move.                             *)

\* Nothing it deals with is infinite.
LEMMA FetchFinite ==
    ASSUME FetchShape, RunInv
    PROVE  /\ \A S \in SUBSET Titles : IsFiniteSet(S) /\ Cardinality(S) \in Nat
           /\ \A a \in Titles : \A S \in SUBSET fetch.said[a].names :
                 IsFiniteSet(S) /\ Cardinality(S) \in Nat /\ (Cardinality(S) = 0 <=> S = {})
<1>1. \A S \in SUBSET Titles : IsFiniteSet(S) /\ Cardinality(S) \in Nat
  BY FetchAssumption, FS_Subset, FS_CardinalityType
<1>2. ASSUME NEW a \in Titles, NEW S \in SUBSET fetch.said[a].names
      PROVE  IsFiniteSet(S) /\ Cardinality(S) \in Nat /\ (Cardinality(S) = 0 <=> S = {})
  <2>1. IsFiniteSet(Ships[a]) /\ S \in SUBSET Ships[a]
    BY FetchAssumption DEF RunInv, Told
  <2>2. IsFiniteSet(S)
    BY <2>1, FS_Subset
  <2> QED
    BY <2>2, FS_CardinalityType, FS_EmptySet
<1> QED
  BY <1>1, <1>2

\* A run that is quiet, and keeps what it has: the property is about these.
LEMMA FetchKeeps ==
    ASSUME FetchInv, UNCHANGED <<fetch, tally, fetchJob>>, shas \subseteq shas'
    PROVE  RunInv' /\ ShelfRun' /\ FetchAccounted' /\ FetchShape'
<1>1. RunInv' /\ FetchShape'
  BY DEF FetchInv, RunInv, Told, FetchShape, Said, Sent
<1>2. ShelfRun'
  BY DEF FetchInv, ShelfRun, Reached, Said, Fruitless, Written
<1>3. FetchAccounted'
  BY DEF FetchInv, FetchAccounted
<1> QED
  BY <1>1, <1>2, <1>3

\* The run fails: unless an app waits to be archived, all that was reported is.
LEMMA FetchAborts ==
    ASSUME FetchInv, Fails, tally' = tally, shas \subseteq shas',
           fetch.left # {} \/ fetch.asked = {}
    PROVE  FetchShape' /\ RunInv' /\ ShelfRun' /\ FetchAccounted'
<1>1. /\ fetch' \in Runs /\ fetchJob' = "failed" /\ fetch'.pc = "idle"
      /\ fetch'.asked = fetch.asked /\ fetch'.said = fetch.said
      /\ fetch'.left = fetch.left /\ fetch'.exit = fetch.exit
  BY DEF Fails, FetchInv, FetchShape, Runs
<1>2. RunInv'
  BY <1>1 DEF FetchInv, RunInv, Told, Said, Sent
<1>3. ShelfRun' /\ FetchAccounted'
  BY <1>1 DEF ShelfRun, FetchAccounted
<1> QED
  BY <1>1, <1>2, <1>3 DEF FetchInv, FetchShape

-----------------------------------------------------------------------------
(* Each action preserves the invariant.                                    *)

LEMMA StartFetchStep ==
    ASSUME FetchInv, StartFetch
    PROVE  FetchShape' /\ RunInv' /\ ShelfRun' /\ FetchAccounted'
<1>1. /\ fetch' = [pc |-> "start", asked |-> {}, said |-> [a \in Titles |-> Silent],
                   left |-> {}, exit |-> "zero"]
      /\ tally' = NoTally /\ fetchJob' = "running"
  BY DEF StartFetch, NoFetch
<1>2. Silent \in [status : Statuses \cup {"none"}, names : SUBSET Everything]
  BY DEF Silent
<1>3. fetch' \in Runs /\ tally' \in Tallies
  BY <1>1, <1>2 DEF Runs, Reports, Exits, Tallies, NoTally
<1>4. Said' = {}
  BY <1>1 DEF Said
<1>5. RunInv'
  BY <1>1, <1>4 DEF RunInv, Told, Silent
<1> QED
  BY <1>1, <1>3, <1>5 DEF FetchShape, ShelfRun, FetchAccounted

LEMMA EnumeratesStep ==
    ASSUME FetchInv, Enumerates
    PROVE  FetchShape' /\ RunInv' /\ ShelfRun' /\ FetchAccounted'
<1>1. /\ fetch.pc = "start" /\ fetch.asked = {} /\ tally = NoTally /\ Said = {}
      /\ fetch \in Runs /\ fetchJob = "running" /\ fetch.left = {}
      /\ \A a \in Titles : fetch.said[a].names \subseteq Ships[a]
  BY DEF Enumerates, FetchInv, RunInv, Told, FetchShape
<1>2. Enumerated \subseteq Titles /\ Cardinality(Enumerated) \in Nat
  <2>1. Enumerated \subseteq Titles
    BY DEF Enumerated, FetchInv, FetchTypeOK
  <2> QED
    BY <2>1, FetchFinite DEF FetchInv
<1>3. tally' = [fetched |-> 0, skipped |-> 0, failed |-> 0, empty |-> 0,
                apps |-> Cardinality(Enumerated)]
  BY <1>1 DEF Enumerates, NoTally
<1>4. tally' \in Tallies
  BY <1>2, <1>3 DEF Tallies
<1>5. CASE Enumerated = {}
  <2>1. fetchJob' = "done" /\ fetch' = [fetch EXCEPT !.pc = "idle"]
    BY <1>5 DEF Enumerates
  <2>2. /\ fetch' \in Runs /\ fetch'.pc = "idle" /\ fetch'.asked = {}
        /\ fetch'.said = fetch.said /\ fetch'.left = fetch.left
    BY <1>1, <2>1 DEF Runs
  <2>3. RunInv'
    <3>1. Told'
      BY <2>2 DEF FetchInv, RunInv, Told
    <3> QED
      BY <1>1, <2>1, <2>2, <3>1 DEF RunInv, Said, Sent
  <2>4. FetchAccounted'
    <3>1. {a \in fetch'.asked : fetch'.said[a].names = {}} = {} /\ Cardinality({}) = 0
      BY <2>2, FS_EmptySet
    <3>2. tally'.failed = 0 /\ tally'.apps = 0
      BY <1>3, <1>5, FS_EmptySet
    <3> QED
      BY <2>1, <2>2, <3>1, <3>2 DEF FetchAccounted
  <2> QED
    BY <1>4, <2>2, <2>3, <2>4 DEF FetchShape, ShelfRun
<1>6. CASE Enumerated # {}
  <2>1. fetchJob' = fetchJob
        /\ fetch' = [fetch EXCEPT !.pc = "helper", !.asked = Enumerated]
    BY <1>6 DEF Enumerates
  <2>2. /\ fetch' \in Runs /\ fetch'.pc = "helper" /\ fetch'.asked = Enumerated
        /\ fetch'.said = fetch.said /\ fetch'.left = fetch.left
    BY <1>1, <1>2, <2>1 DEF Runs
  <2>3. RunInv'
    <3>1. Said' = {}
      BY <1>1, <2>2 DEF Said
    <3>2. Told'
      BY <2>2 DEF FetchInv, RunInv, Told
    <3> QED
      BY <1>1, <1>3, <1>6, <2>1, <2>2, <3>1, <3>2 DEF RunInv
  <2> QED
    BY <1>1, <1>4, <2>1, <2>2, <2>3 DEF FetchShape, ShelfRun, FetchAccounted
<1> QED
  BY <1>5, <1>6

LEMMA HelperReportsStep ==
    ASSUME FetchInv, NEW a \in Titles, NEW status \in Statuses, NEW names \in SUBSET Ships[a],
           HelperReports(a, status, names)
    PROVE  FetchShape' /\ RunInv' /\ ShelfRun' /\ FetchAccounted'
<1> DEFINE report == [status |-> status, names |-> names]
<1>1. /\ fetch.pc = "helper" /\ a \in Sent /\ fetch \in Runs /\ fetchJob' = fetchJob
      /\ fetch' = [fetch EXCEPT !.said[a] = report]
      /\ tally' = tally
  BY DEF HelperReports, FetchInv, FetchShape
<1>2. report \in [status : Statuses \cup {"none"}, names : SUBSET Everything]
      /\ report.names \subseteq Ships[a]
  BY DEF Everything
<1> HIDE DEF report
<1>3. /\ fetch' \in Runs /\ fetch'.pc = "helper" /\ fetch'.asked = fetch.asked
      /\ fetch'.left = fetch.left /\ fetch'.exit = fetch.exit
      /\ fetch'.said = [fetch.said EXCEPT ![a] = report]
  BY <1>1, <1>2 DEF Runs, Reports
<1>4. \A b \in Titles : fetch'.said[b] = IF b = a THEN report ELSE fetch.said[b]
  BY <1>1, <1>3 DEF Runs, Reports
<1>5. Said' \subseteq Said \cup {a} /\ Sent' = Sent
  BY <1>3, <1>4 DEF Said, Sent
<1>6. RunInv'
  <2>1. Told'
    <3>1. report.status = "not_attempted" => report.names = {}
      BY DEF report, HelperReports
    <3> QED
      BY <1>2, <1>4, <3>1 DEF FetchInv, RunInv, Told
  <2> QED
    BY <1>1, <1>3, <1>5, <2>1 DEF FetchInv, RunInv
<1> QED
  BY <1>1, <1>3, <1>6 DEF FetchInv, FetchShape, ShelfRun, FetchAccounted, RunInv

LEMMA HelperEndsStep ==
    ASSUME FetchInv, NEW exit \in Exits, HelperEnds(exit)
    PROVE  FetchShape' /\ RunInv' /\ ShelfRun' /\ FetchAccounted'
<1>1. /\ fetch.pc = "helper" /\ fetch \in Runs /\ tally \in Tallies /\ fetchJob' = fetchJob
      /\ fetch' = [fetch EXCEPT !.pc = "archive", !.left = Said, !.exit = exit]
      /\ tally' = [tally EXCEPT !.failed = Cardinality(fetch.asked \cap OutOfRange)]
  BY DEF HelperEnds, FetchInv, FetchShape
<1>2. Cardinality(fetch.asked \cap OutOfRange) \in Nat
  BY <1>1, FetchFinite DEF FetchInv, Runs
<1>3. /\ fetch' \in Runs /\ fetch'.pc = "archive" /\ fetch'.asked = fetch.asked
      /\ fetch'.left = Said /\ fetch'.exit = exit /\ fetch'.said = fetch.said
  BY <1>1 DEF Runs, Said
<1>4. /\ tally' \in Tallies
      /\ tally'.failed = Cardinality(fetch.asked \cap OutOfRange)
      /\ tally'.fetched = tally.fetched /\ tally'.skipped = tally.skipped
      /\ tally'.empty = tally.empty /\ tally'.apps = tally.apps
  BY <1>1, <1>2 DEF Tallies
<1>5. Said' = Said /\ Sent' = Sent
  BY <1>3 DEF Said, Sent
<1>6. RunInv'
  <2>1. Told'
    BY <1>3 DEF FetchInv, RunInv, Told
  <2> QED
    BY <1>1, <1>3, <1>4, <1>5, <2>1 DEF FetchInv, RunInv
<1>7. ShelfRun'
  <2>1. Reached' = {} /\ Fruitless' = {}
    BY <1>3, <1>5 DEF Reached, Fruitless
  <2>2. Cardinality({}) = 0
    BY FS_EmptySet
  <2>3. tally'.failed = Cardinality(fetch'.asked \cap OutOfRange) + Cardinality(Fruitless')
    BY <1>2, <1>3, <1>4, <2>1, <2>2
  <2>4. tally'.empty = tally'.fetched + tally'.skipped
    BY <1>1, <1>4 DEF FetchInv, RunInv
  <2> QED
    BY <2>1, <2>3, <2>4 DEF ShelfRun
<1> QED
  BY <1>1, <1>3, <1>4, <1>6, <1>7 DEF FetchInv, FetchShape, FetchAccounted, RunInv

\* One more app is dealt with: it is fruitless, or what it had is counted.
LEMMA ArchivesStep ==
    ASSUME FetchInv, NEW a \in Titles, Archives(a)
    PROVE  FetchShape' /\ RunInv' /\ ShelfRun' /\ FetchAccounted'
<1> DEFINE said == fetch.said[a]
           new  == {m \in said.names \ Hollow : <<a, m>> \notin shas}
<1>1. /\ fetch.pc = "archive" /\ a \in fetch.left /\ fetch \in Runs /\ tally \in Tallies
      /\ fetchJob' = fetchJob
      /\ fetch' = [fetch EXCEPT !.left = @ \ {a}]
      /\ shas' = shas \cup {<<a, m>> : m \in new}
  BY DEF Archives, FetchInv, FetchShape
<1>2. tally' = IF said.status = "not_attempted" /\ ~Clean(fetch.exit) THEN tally
               ELSE IF said.names = {} THEN [tally EXCEPT !.failed = @ + 1]
               ELSE [tally EXCEPT !.fetched = @ + Cardinality(new),
                                  !.skipped = @ + Cardinality(said.names \ new),
                                  !.empty = @ + Cardinality(said.names \cap Hollow)]
  BY DEF Archives
<1>3. /\ fetch' \in Runs /\ fetch'.pc = "archive" /\ fetch'.asked = fetch.asked
      /\ fetch'.left = fetch.left \ {a} /\ fetch'.exit = fetch.exit
      /\ fetch'.said = fetch.said
  BY <1>1 DEF Runs
<1>4. Said' = Said /\ Sent' = Sent /\ a \in Said /\ a \notin Reached
      /\ Reached' = Reached \cup {a}
  BY <1>1, <1>3 DEF Said, Sent, Reached, FetchInv, RunInv
<1>5. /\ Cardinality(new) \in Nat /\ Cardinality(said.names \ new) \in Nat
      /\ Cardinality(said.names \cap Hollow) \in Nat
      /\ (Cardinality(new) = 0 <=> new = {})
      /\ (Cardinality(said.names \ new) = 0 <=> said.names \ new = {})
  <2>1. new \subseteq said.names
    OBVIOUS
  <2> QED
    BY <2>1, FetchFinite DEF FetchInv
<1>6. said.status = "not_attempted" => said.names = {}
  BY DEF FetchInv, RunInv, Told
<1>7. /\ tally' \in Tallies /\ tally'.apps = tally.apps
      /\ said.names = {} => tally'.fetched = tally.fetched /\ tally'.skipped = tally.skipped
                            /\ tally'.empty = tally.empty
      /\ said.names = {} /\ Clean(fetch.exit) => tally'.failed = tally.failed + 1
      /\ said.names # {} =>
           /\ tally'.failed = tally.failed
           /\ tally'.fetched = tally.fetched + Cardinality(new)
           /\ tally'.skipped = tally.skipped + Cardinality(said.names \ new)
           /\ tally'.empty = tally.empty + Cardinality(said.names \cap Hollow)
  <2>1. CASE said.status = "not_attempted" /\ ~Clean(fetch.exit)
    BY <1>1, <1>2, <1>6, <2>1
  <2>2. CASE ~(said.status = "not_attempted" /\ ~Clean(fetch.exit)) /\ said.names = {}
    BY <1>1, <1>2, <2>2 DEF Tallies
  <2>3. CASE ~(said.status = "not_attempted" /\ ~Clean(fetch.exit)) /\ said.names # {}
    <3> DEFINE i == Cardinality(new)
               j == Cardinality(said.names \ new)
               k == Cardinality(said.names \cap Hollow)
    <3>1. tally' = [tally EXCEPT !.fetched = @ + i, !.skipped = @ + j, !.empty = @ + k]
      BY <1>2, <2>3
    <3>2. i \in Nat /\ j \in Nat /\ k \in Nat /\ tally \in Tallies
      BY <1>1, <1>5
    <3>3. said.names # {}
      BY <2>3
    <3> HIDE DEF i, j, k
    <3>4. /\ tally' \in Tallies /\ tally'.apps = tally.apps /\ tally'.failed = tally.failed
          /\ tally'.fetched = tally.fetched + i /\ tally'.skipped = tally.skipped + j
          /\ tally'.empty = tally.empty + k
      <4>1. tally' = [fetched |-> tally.fetched + i, skipped |-> tally.skipped + j,
                      failed |-> tally.failed, empty |-> tally.empty + k, apps |-> tally.apps]
        BY <3>1, <3>2 DEF Tallies
      <4>2. /\ tally.fetched + i \in Nat /\ tally.skipped + j \in Nat
            /\ tally.empty + k \in Nat /\ tally.failed \in Nat /\ tally.apps \in Nat
        BY <3>2 DEF Tallies
      <4>3. tally' \in Tallies
        BY <4>1, <4>2 DEF Tallies
      <4> QED
        BY <4>1, <4>3
    <3> QED
      BY <3>3, <3>4 DEF i, j, k
  <2> QED
    BY <2>1, <2>2, <2>3
<1>8. RunInv'
  <2>1. Told'
    BY <1>3 DEF FetchInv, RunInv, Told
  <2> QED
    BY <1>1, <1>3, <1>4, <1>7, <2>1 DEF FetchInv, RunInv
<1>9. Written(a)' /\ \A b \in Reached : Written(b)'
  <2>1. Written(a)'
    BY <1>1, <1>3 DEF Written
  <2>2. \A b \in Reached : Written(b)
    BY <1>1 DEF FetchInv, ShelfRun
  <2> QED
    BY <1>1, <1>3, <2>1, <2>2 DEF Written
<1>10. ASSUME Clean(fetch.exit)
       PROVE  tally'.failed = Cardinality(fetch.asked \cap OutOfRange) + Cardinality(Fruitless')
  <2>1. tally.failed = Cardinality(fetch.asked \cap OutOfRange) + Cardinality(Fruitless)
    BY <1>1, <1>10 DEF FetchInv, ShelfRun
  <2>2. /\ Cardinality(fetch.asked \cap OutOfRange) \in Nat
        /\ IsFiniteSet(Fruitless) /\ Cardinality(Fruitless) \in Nat
    <3>1. Fruitless \subseteq Titles /\ fetch.asked \cap OutOfRange \subseteq Titles
      BY <1>1 DEF Fruitless, Reached, Said, Runs
    <3> QED
      BY <3>1, FetchFinite DEF FetchInv
  <2>3. CASE said.names = {}
    <3>1. Fruitless' = Fruitless \cup {a} /\ a \notin Fruitless
      BY <1>3, <1>4, <2>3 DEF Fruitless
    <3>2. Cardinality(Fruitless') = Cardinality(Fruitless) + 1
      BY <2>2, <3>1, FS_AddElement
    <3>3. tally'.failed = tally.failed + 1
      BY <1>7, <1>10, <2>3
    <3> QED
      BY <2>1, <2>2, <3>2, <3>3
  <2>4. CASE said.names # {}
    <3>1. Fruitless' = Fruitless
      BY <1>3, <1>4, <2>4 DEF Fruitless
    <3> QED
      BY <1>7, <2>1, <2>4, <3>1
  <2> QED
    BY <2>3, <2>4
<1>11. (\E b \in Reached' : fetch.said[b].names # {}) => tally'.fetched + tally'.skipped > 0
  <2>1. tally \in Tallies /\ tally' \in Tallies
        /\ ((\E b \in Reached : fetch.said[b].names # {}) => tally.fetched + tally.skipped > 0)
    BY <1>1, <1>7 DEF FetchInv, ShelfRun
  <2>2. CASE said.names = {}
    <3>1. (\E b \in Reached' : fetch.said[b].names # {})
             => \E b \in Reached : fetch.said[b].names # {}
      BY <1>4, <2>2
    <3> QED
      BY <1>7, <2>1, <2>2, <3>1
  <2>3. CASE said.names # {}
    <3>1. Cardinality(new) + Cardinality(said.names \ new) > 0
      <4>1. new # {} \/ said.names \ new # {}
        BY <2>3
      <4> HIDE DEF new, said
      <4> QED
        BY <1>5, <4>1
    <3> HIDE DEF new, said
    <3> QED
      BY <1>5, <1>7, <2>1, <2>3, <3>1 DEF Tallies
  <2> QED
    BY <2>2, <2>3
<1>12. ASSUME \A b \in Reached' : fetch.said[b].names \subseteq Hollow
       PROVE  tally'.empty = tally'.fetched + tally'.skipped
  <2>1. tally.empty = tally.fetched + tally.skipped /\ tally \in Tallies
    BY <1>1, <1>4, <1>12 DEF FetchInv, ShelfRun
  <2>2. new = {} /\ said.names \ new = said.names /\ said.names \cap Hollow = said.names
    BY <1>4, <1>12
  <2>3. Cardinality(new) = 0
        /\ Cardinality(said.names \ new) = Cardinality(said.names \cap Hollow)
    BY <1>5, <2>2
  <2> HIDE DEF new, said
  <2> QED
    BY <1>5, <1>7, <2>1, <2>3 DEF Tallies
<1> HIDE DEF new, said
<1>13. ShelfRun'
  BY <1>3, <1>4, <1>9, <1>10, <1>11, <1>12 DEF ShelfRun
<1> QED
  BY <1>1, <1>3, <1>7, <1>8, <1>13 DEF FetchInv, FetchShape, FetchAccounted, RunInv

\* What a run that concludes has accounted for: every app it asked for is out of
\* range, was never mentioned, or is reached.
LEMMA FruitlessCount ==
    ASSUME FetchInv, fetch.left = {}
    PROVE  Cardinality({a \in fetch.asked : fetch.said[a].names = {}})
             = Cardinality(fetch.asked \cap OutOfRange) + Cardinality(Fruitless)
               + Cardinality(Unreported)
<1> DEFINE A == fetch.asked \cap OutOfRange
           B == Fruitless
           C == Unreported
<1>1. fetch \in Runs /\ Said \subseteq Sent /\ Reached = Said
  BY DEF FetchInv, FetchShape, RunInv, Reached
<1>2. A \subseteq Titles /\ B \subseteq Titles /\ C \subseteq Titles
  BY <1>1 DEF Runs, Fruitless, Unreported, Sent, Said
<1>3. A \cap B = {} /\ (A \cup B) \cap C = {}
  BY <1>1 DEF Fruitless, Unreported, Sent
<1>4. {a \in fetch.asked : fetch.said[a].names = {}} = (A \cup B) \cup C
  <2>1. \A a \in fetch.asked : a \notin Said => fetch.said[a].names = {}
    BY <1>1 DEF Said, Silent, Runs
  <2> QED
    BY <1>1, <2>1 DEF Fruitless, Unreported, Sent
<1>5. /\ IsFiniteSet(A) /\ IsFiniteSet(B) /\ IsFiniteSet(C) /\ IsFiniteSet(A \cup B)
      /\ Cardinality(A) \in Nat /\ Cardinality(B) \in Nat /\ Cardinality(C) \in Nat
      /\ Cardinality(A \cup B) \in Nat
  BY <1>2, FetchFinite DEF FetchInv
<1> HIDE DEF A, B, C
<1>6. Cardinality(A \cup B) = Cardinality(A) + Cardinality(B) - Cardinality(A \cap B)
  BY <1>5, FS_Union
<1>7. Cardinality((A \cup B) \cup C) = Cardinality(A \cup B) + Cardinality(C)
                                       - Cardinality((A \cup B) \cap C)
  BY <1>5, FS_Union
<1>8. Cardinality({}) = 0
  BY FS_EmptySet
<1>9. Cardinality(A \cup B) = Cardinality(A) + Cardinality(B)
  <2>1. Cardinality(A \cap B) = 0
    BY <1>3, <1>8
  <2> QED
    BY <1>5, <1>6, <2>1
<1>10. Cardinality((A \cup B) \cup C) = Cardinality(A) + Cardinality(B) + Cardinality(C)
  <2>1. Cardinality((A \cup B) \cap C) = 0
    BY <1>3, <1>8
  <2> QED
    BY <1>5, <1>7, <1>9, <2>1
<1> QED
  BY <1>4, <1>10 DEF A, B, C

\* A run that passes every guard read something that is not hollow.
LEMMA ConcludesStep ==
    ASSUME FetchInv, Concludes
    PROVE  FetchShape' /\ RunInv' /\ ShelfRun' /\ FetchAccounted'
<1>1. /\ fetch.pc = "archive" /\ fetch.left = {} /\ fetch \in Runs /\ tally \in Tallies
      /\ fetch' = [fetch EXCEPT !.pc = "idle"] /\ fetchJob' = Concluded(tally')
      /\ tally' = IF Clean(fetch.exit)
                  THEN [tally EXCEPT !.failed = @ + Cardinality(Unreported)] ELSE tally
      /\ shas' = shas
  BY DEF Concludes, FetchInv, FetchShape
<1>2. /\ fetch' \in Runs /\ fetch'.pc = "idle" /\ fetch'.asked = fetch.asked
      /\ fetch'.left = {} /\ fetch'.exit = fetch.exit /\ fetch'.said = fetch.said
  BY <1>1 DEF Runs
<1>3. Said' = Said /\ Sent' = Sent /\ Reached = Said /\ Said \subseteq Sent
  BY <1>1, <1>2 DEF Said, Sent, Reached, FetchInv, RunInv
<1>4. Cardinality(Unreported) \in Nat /\ Cardinality(fetch.asked \cap OutOfRange) \in Nat
      /\ Cardinality(Fruitless) \in Nat
  <2>1. Unreported \subseteq Titles /\ Fruitless \subseteq Titles
        /\ fetch.asked \cap OutOfRange \subseteq Titles
    BY <1>1 DEF Unreported, Sent, Fruitless, Reached, Said, Runs
  <2> QED
    BY <2>1, FetchFinite DEF FetchInv
<1>5. /\ tally' \in Tallies /\ tally'.apps = tally.apps /\ tally'.fetched = tally.fetched
      /\ tally'.skipped = tally.skipped /\ tally'.empty = tally.empty
      /\ Clean(fetch.exit) => tally'.failed = tally.failed + Cardinality(Unreported)
  BY <1>1, <1>4 DEF Tallies
<1>6. fetchJob' \in {"failed", "done"}
      /\ (fetchJob' = "done" =>
            /\ fetch.exit = "zero"
            /\ (tally'.fetched + tally'.skipped > 0 =>
                  tally'.empty # tally'.fetched + tally'.skipped)
            /\ (tally'.fetched + tally'.skipped = 0 => ~(tally'.failed > 0)))
  BY <1>1 DEF Concluded
<1>7. RunInv'
  <2>1. Told'
    BY <1>2 DEF FetchInv, RunInv, Told
  <2> QED
    BY <1>1, <1>2, <1>3, <1>6, <2>1 DEF FetchInv, RunInv
<1>8. ASSUME NEW a \in fetch.asked
      PROVE  {<<a, m>> : m \in fetch.said[a].names \ Hollow} \subseteq shas
  <2>1. CASE a \in Said
    BY <1>1, <1>3, <2>1 DEF FetchInv, ShelfRun, Written
  <2>2. CASE a \notin Said
    BY <1>1, <2>2 DEF Said, Silent, Runs
  <2> QED
    BY <2>1, <2>2
<1>9. ASSUME fetchJob' = "done"
      PROVE  /\ tally'.failed = Cardinality({a \in fetch.asked : fetch.said[a].names = {}})
             /\ tally'.apps = Cardinality(fetch.asked)
             /\ \E a \in fetch.asked : ~(fetch.said[a].names \subseteq Hollow)
  <2>1. fetch.exit = "zero" /\ Clean(fetch.exit)
    BY <1>6, <1>9 DEF Clean
  <2>2. tally'.failed = Cardinality(fetch.asked \cap OutOfRange) + Cardinality(Fruitless)
                        + Cardinality(Unreported)
    BY <1>1, <1>4, <1>5, <2>1 DEF FetchInv, ShelfRun
  <2>3. tally'.failed = Cardinality({a \in fetch.asked : fetch.said[a].names = {}})
    BY <1>1, <2>2, FruitlessCount
  <2>4. tally'.apps = Cardinality(fetch.asked) /\ fetch.asked # {}
    BY <1>1, <1>5 DEF FetchInv, RunInv
  <2>5. tally'.fetched + tally'.skipped \in Nat /\ tally'.failed \in Nat
    BY <1>5 DEF Tallies
  <2>6. CASE tally'.fetched + tally'.skipped = 0
    <3>1. tally'.failed = 0
      BY <1>6, <1>9, <2>5, <2>6
    <3>2. IsFiniteSet({a \in fetch.asked : fetch.said[a].names = {}})
      <4>1. {a \in fetch.asked : fetch.said[a].names = {}} \subseteq Titles
        BY <1>1 DEF Runs
      <4> QED
        BY <4>1, FetchFinite DEF FetchInv
    <3>3. {a \in fetch.asked : fetch.said[a].names = {}} = {}
      BY <2>3, <3>1, <3>2, FS_EmptySet
    <3>4. PICK a \in fetch.asked : fetch.said[a].names # {}
      BY <2>4, <3>3
    <3>5. a \in Reached
      BY <1>1, <1>3, <3>4 DEF Said, Silent, Runs
    <3>6. tally.fetched + tally.skipped > 0
      BY <1>1, <3>4, <3>5 DEF FetchInv, ShelfRun
    <3> QED
      BY <1>5, <2>6, <3>6
  <2>7. CASE tally'.fetched + tally'.skipped > 0
    <3>1. tally.empty # tally.fetched + tally.skipped
      BY <1>5, <1>6, <1>9, <2>7
    <3>2. PICK a \in Reached : ~(fetch.said[a].names \subseteq Hollow)
      BY <1>1, <3>1 DEF FetchInv, ShelfRun
    <3>3. a \in fetch.asked
      BY <1>3, <3>2 DEF Sent
    <3> QED
      BY <2>3, <2>4, <3>2, <3>3
  <2> QED
    BY <2>5, <2>6, <2>7
<1>10. FetchAccounted'
  BY <1>1, <1>2, <1>6, <1>8, <1>9 DEF FetchAccounted
<1> QED
  BY <1>2, <1>5, <1>7, <1>10 DEF FetchShape, ShelfRun

\* A write fails: the app it fails in still waits.
LEMMA ArchiveBreaksStep ==
    ASSUME FetchInv, NEW a \in Titles, NEW some, ArchiveBreaks(a, some)
    PROVE  FetchShape' /\ RunInv' /\ ShelfRun' /\ FetchAccounted'
BY FetchAborts DEF ArchiveBreaks

\* Without a session nothing was asked.
LEMMA NoSessionStep ==
    ASSUME FetchInv, NoSession
    PROVE  FetchShape' /\ RunInv' /\ ShelfRun' /\ FetchAccounted'
BY FetchAborts DEF NoSession, FetchInv, RunInv

\* The agent starts again with no job at all.
LEMMA FetchAgentRestartsStep ==
    ASSUME FetchInv, FetchAgentRestarts
    PROVE  FetchShape' /\ RunInv' /\ ShelfRun' /\ FetchAccounted'
<1>1. /\ fetch' = [pc |-> "idle", asked |-> {}, said |-> [a \in Titles |-> Silent],
                   left |-> {}, exit |-> "zero"]
      /\ tally' = tally /\ fetchJob' = "none"
  BY DEF FetchAgentRestarts, NoFetch
<1>2. Silent \in [status : Statuses \cup {"none"}, names : SUBSET Everything]
  BY DEF Silent
<1>3. fetch' \in Runs
  BY <1>1, <1>2 DEF Runs, Reports, Exits
<1>4. Said' = {}
  BY <1>1 DEF Said
<1>5. RunInv'
  BY <1>1, <1>4 DEF RunInv, Told, Silent
<1> QED
  BY <1>1, <1>3, <1>5 DEF FetchInv, FetchShape, ShelfRun, FetchAccounted

\* Types of the fields, from the shape of the whole.
LEMMA FetchTypes ==
    ASSUME FetchShape, RunInv,
           chosen \subseteq Titles, binned \subseteq Titles, borrowed \subseteq SUBSET Titles,
           shas \subseteq Sidecars, fetchJob \in {"none", "running", "done", "failed"},
           heartbeat \in {"none", "up", "down"},
           fetches \in 0..MaxFetches, trouble \in 0..MaxTrouble
    PROVE  FetchTypeOK
BY DEF FetchShape, RunInv, FetchTypeOK, Runs, Tallies

LEMMA FetchInitInv == FetchInit => FetchInv
<1> SUFFICES ASSUME FetchInit PROVE FetchInv
  OBVIOUS
<1>1. /\ fetch = [pc |-> "idle", asked |-> {}, said |-> [a \in Titles |-> Silent],
                  left |-> {}, exit |-> "zero"]
      /\ tally = NoTally /\ fetchJob = "none" /\ shas = {}
  BY DEF FetchInit, NoFetch
<1>2. Silent \in [status : Statuses \cup {"none"}, names : SUBSET Everything]
  BY DEF Silent
<1>3. FetchShape
  BY <1>1, <1>2 DEF FetchShape, Runs, Reports, Exits, Tallies, NoTally
<1>4. Said = {}
  BY <1>1 DEF Said
<1>5. RunInv
  BY <1>1, <1>4 DEF RunInv, Told, Silent
<1>6. FetchTypeOK
  <2>1. /\ 0 \in 0..MaxFetches /\ 0 \in 0..MaxTrouble
        /\ chosen \subseteq Titles /\ binned \subseteq Titles /\ borrowed = {}
        /\ heartbeat = "none" /\ fetches = 0 /\ trouble = 0
    BY FetchAssumption DEF FetchInit
  <2> QED
    BY <1>1, <1>3, <1>5, <2>1, FetchTypes
<1> QED
  BY <1>1, <1>3, <1>5, <1>6 DEF FetchInv, ShelfRun, FetchAccounted

\* A bounded count goes up by one.
LEMMA TroubleTyped ==
    ASSUME FetchTypeOK, Trouble \/ UNCHANGED trouble
    PROVE  trouble' \in 0..MaxTrouble
BY FetchAssumption DEF FetchTypeOK, Trouble

LEMMA FetchNextInv == FetchInv /\ [FetchNext]_fetchVars => FetchInv'
<1> SUFFICES ASSUME FetchInv, [FetchNext]_fetchVars PROVE FetchInv'
  OBVIOUS
<1> DEFINE Rest == FetchShape' /\ RunInv' /\ ShelfRun' /\ FetchAccounted'
           Files == /\ chosen' \subseteq Titles /\ binned' \subseteq Titles
                    /\ borrowed' \subseteq SUBSET Titles /\ shas' \subseteq Sidecars
                    /\ heartbeat' \in {"none", "up", "down"}
                    /\ fetches' \in 0..MaxFetches /\ trouble' \in 0..MaxTrouble
                    /\ fetchJob' \in {"none", "running", "done", "failed"}
<1>1. ASSUME Rest, Files PROVE FetchInv'
  <2>1. FetchTypeOK'
    BY <1>1 DEF FetchShape, RunInv, FetchTypeOK, Runs, Tallies
  <2> QED
    BY <1>1, <2>1 DEF FetchInv
<1>2. /\ chosen \subseteq Titles /\ binned \subseteq Titles /\ borrowed \subseteq SUBSET Titles
      /\ shas \subseteq Sidecars /\ heartbeat \in {"none", "up", "down"}
      /\ fetchJob \in {"none", "running", "done", "failed"}
      /\ fetches \in 0..MaxFetches /\ trouble \in 0..MaxTrouble
  BY DEF FetchInv, FetchTypeOK
<1> HIDE DEF Rest, Files
<1>3. CASE UNCHANGED fetchVars
  <2>1. Rest
    BY <1>3, FetchKeeps DEF fetchVars, Rest
  <2>2. Files
    BY <1>2, <1>3 DEF fetchVars, Files
  <2> QED
    BY <1>1, <2>1, <2>2
<1>4. CASE StartFetch
  <2>1. Rest
    BY <1>4, StartFetchStep DEF Rest
  <2>2. fetches' \in 0..MaxFetches
    BY <1>2, <1>4, FetchAssumption DEF StartFetch
  <2>3. Files
    BY <1>2, <1>4, <2>2 DEF StartFetch, Files
  <2> QED
    BY <1>1, <2>1, <2>3
<1>5. CASE NoSession
  <2>1. Rest
    BY <1>5, NoSessionStep DEF Rest
  <2>2. Files
    BY <1>2, <1>5, TroubleTyped DEF NoSession, Fails, Files, FetchInv
  <2> QED
    BY <1>1, <2>1, <2>2
<1>6. CASE Enumerates
  <2>1. Rest
    BY <1>6, EnumeratesStep DEF Rest
  <2>2. Files
    BY <1>2, <1>6 DEF Enumerates, Files
  <2> QED
    BY <1>1, <2>1, <2>2
<1>7. CASE Concludes
  <2>1. Rest
    BY <1>7, ConcludesStep DEF Rest
  <2>2. fetchJob' \in {"done", "failed"}
    BY <1>7 DEF Concludes, Concluded
  <2>3. Files
    BY <1>2, <1>7, <2>2 DEF Concludes, Files
  <2> QED
    BY <1>1, <2>1, <2>3
<1>8. CASE FetchAgentRestarts
  <2>1. Rest
    BY <1>8, FetchAgentRestartsStep DEF Rest
  <2>2. Files
    BY <1>2, <1>8, TroubleTyped DEF FetchAgentRestarts, Files, FetchInv
  <2> QED
    BY <1>1, <2>1, <2>2
<1>9. CASE HandlerTells
  <2>1. Rest
    BY <1>9, FetchKeeps DEF HandlerTells, Rest
  <2>2. Files
    BY <1>2, <1>9 DEF HandlerTells, Files
  <2> QED
    BY <1>1, <2>1, <2>2
<1>10. ASSUME NEW exit \in Exits, HelperEnds(exit) PROVE FetchInv'
  <2>1. Rest
    BY <1>10, HelperEndsStep DEF Rest
  <2>2. Files
    BY <1>2, <1>10 DEF HelperEnds, Files
  <2> QED
    BY <1>1, <2>1, <2>2
<1>11. ASSUME NEW a \in Titles, PrefillBorrows(a) PROVE FetchInv'
  <2>1. Rest
    BY <1>11, FetchKeeps DEF PrefillBorrows, Rest
  <2>2. Files
    BY <1>2, <1>11, TroubleTyped DEF PrefillBorrows, Files, FetchInv
  <2> QED
    BY <1>1, <2>1, <2>2
<1>12. ASSUME NEW a \in Titles, Archives(a) PROVE FetchInv'
  <2>1. Rest
    BY <1>12, ArchivesStep DEF Rest
  <2>2. {<<a, m>> : m \in fetch.said[a].names \ Hollow} \subseteq Sidecars
    BY DEF FetchInv, RunInv, Told, Sidecars
  <2>3. shas' \subseteq Sidecars
    BY <1>2, <1>12, <2>2 DEF Archives
  <2>4. Files
    BY <1>2, <1>12, <2>3 DEF Archives, Files
  <2> QED
    BY <1>1, <2>1, <2>4
<1>13. ASSUME NEW a \in Titles, NEW status \in Statuses, NEW names \in SUBSET Ships[a],
              HelperReports(a, status, names)
       PROVE  FetchInv'
  <2>1. Rest
    BY <1>13, HelperReportsStep DEF Rest
  <2>2. Files
    BY <1>2, <1>13 DEF HelperReports, Files
  <2> QED
    BY <1>1, <2>1, <2>2
<1>14. ASSUME NEW a \in Titles, NEW some \in SUBSET Ships[a], ArchiveBreaks(a, some)
       PROVE  FetchInv'
  <2>1. Rest
    BY <1>14, ArchiveBreaksStep DEF Rest
  <2>2. {<<a, m>> : m \in some} \subseteq Sidecars
    BY DEF Sidecars
  <2>3. Files
    BY <1>2, <1>14, <2>2, TroubleTyped DEF ArchiveBreaks, Fails, Files, FetchInv
  <2> QED
    BY <1>1, <2>1, <2>3
<1>15. ASSUME NEW selected \in borrowed, PrefillReturns(selected) PROVE FetchInv'
  <2>1. Rest
    BY <1>15, FetchKeeps DEF PrefillReturns, Rest
  <2>2. Files
    BY <1>2, <1>15 DEF PrefillReturns, Files
  <2> QED
    BY <1>1, <2>1, <2>2
<1> QED
  BY <1>3, <1>4, <1>5, <1>6, <1>7, <1>8, <1>9, <1>10, <1>11, <1>12, <1>13, <1>14, <1>15
     DEF FetchNext

\* What a run of fetch_manifests counts, reports and archives hangs together at
\* every step, whatever fails.
THEOREM FetchInductive == FetchSpec => []FetchInv
<1>1. FetchInit => FetchInv
  BY FetchInitInv
<1>2. FetchInv /\ [FetchNext]_fetchVars => FetchInv'
  BY FetchNextInv
<1> QED
  BY <1>1, <1>2, PTL DEF FetchSpec

\* A fetch that returns accounts for every app it asked for, and one that fails
\* has archived what it was told first (manifest_fetcher.py:306-366).
THEOREM FetchAccountedCorrect == FetchSpec => []FetchAccounted
<1>1. FetchInv => FetchAccounted
  BY DEF FetchInv
<1> QED
  BY <1>1, FetchInductive, PTL

-----------------------------------------------------------------------------
(* CacheGuard: types.                                                      *)

LEMMA LeastNat ==
    ASSUME NEW S \in SUBSET Nat, S # {}
    PROVE  \E x \in S : \A y \in S : x <= y
<1> DEFINE R == OpToRel(<, Nat)
<1>1. IsWellFoundedOn(R, Nat)
  BY NatLessThanWellFounded
<1>2. \A x, y \in Nat : x < y => <<x, y>> \in R
  BY DEF OpToRel
<1> HIDE DEF R
<1>3. PICK x \in S : \A y \in S : ~ (<<y, x>> \in R)
  BY <1>1, WFMin
<1>4. ASSUME NEW y \in S
      PROVE  x <= y
  <2>1. ~ (y < x)
    BY <1>2, <1>3
  <2> QED
    BY <2>1
<1> QED
  BY <1>4

\* What is appended just now is never dropped.
LEMMA RecentTyped ==
    ASSUME NEW ts \in Seq(0..Old)
    PROVE  Recent(ts) \in Seq(0..Old)
<1> DEFINE all == Append(ts, 0)
           kept == {i \in DOMAIN all : all[i] <= Window}
           first == CHOOSE i \in kept : \A j \in kept : i <= j
<1>1. Window \in Nat /\ Old \in Nat
  BY GuardAssumption DEF Old
<1>2. all \in Seq(0..Old) /\ Len(all) = Len(ts) + 1 /\ all[Len(ts) + 1] = 0
  BY <1>1
<1>3. DOMAIN all = 1..Len(all) /\ Len(all) \in Nat /\ Len(ts) \in Nat
  BY <1>2
<1>4. Len(ts) + 1 \in kept /\ kept \in SUBSET Nat
  BY <1>1, <1>2, <1>3
<1>5. first \in kept
  BY <1>4, LeastNat
<1>6. first \in 1..Len(all)
  BY <1>3, <1>5
<1>7. Recent(ts) = SubSeq(all, first, Len(all))
  BY DEF Recent
<1> HIDE DEF all, first
<1>8. \A i \in first..Len(all) : all[i] \in 0..Old
  <2>1. \A i \in 1..Len(all) : all[i] \in 0..Old
    BY <1>2, ElementOfSeq
  <2> QED
    BY <1>3, <1>6, <2>1
<1> QED
  BY <1>2, <1>3, <1>6, <1>7, <1>8, SubSeqProperties

LEMMA AlertTyped ==
    ASSUME GuardTypeOK, NEW kind \in AlertKinds,
           Alerted(kind) \/ UNCHANGED <<lastSent, guard>>
    PROVE  /\ lastSent' \in [AlertKinds -> 0..Never]
           /\ guard' \in [pc : {"idle", "email", "push"}, kind : SUBSET AlertKinds]
<1>1. 0 \in 0..Never
  BY GuardAssumption DEF Never
<1>2. lastSent' \in [AlertKinds -> 0..Never]
  <2>1. lastSent \in [AlertKinds -> 0..Never]
    BY DEF GuardTypeOK
  <2>2. lastSent' = [lastSent EXCEPT ![kind] = 0] \/ lastSent' = lastSent
    BY DEF Alerted
  <2> QED
    BY <1>1, <2>1, <2>2
<1>3. guard' \in [pc : {"idle", "email", "push"}, kind : SUBSET AlertKinds]
  BY DEF Alerted, GuardTypeOK
<1> QED
  BY <1>2, <1>3

LEMMA DropTyped ==
    ASSUME GuardTypeOK, NEW kind, Drop(kind)
    PROVE  events' \in Seq(EventKinds) /\ Len(events') <= used
<1>1. events \in Seq(EventKinds) /\ events # <<>> /\ Len(events) <= used /\ used \in Nat
  BY GuardAssumption DEF GuardTypeOK, Drop
<1>2. Tail(events) \in Seq(EventKinds) /\ Len(Tail(events)) = Len(events) - 1
  BY <1>1
<1>3. Len(events) \in Nat
  BY <1>1
<1> QED
  BY <1>1, <1>2, <1>3 DEF Drop

LEMMA PushTyped ==
    ASSUME GuardTypeOK, NEW status \in {"up", "down"}, Pushed(status)
    PROVE  /\ monitor' \in {"silent", "up", "down"} /\ loss' \in {"none", "untold", "past"}
           /\ lost' \in 0..MaxLost
<1>1. CASE monitor' = status /\ loss' = (IF status = "down" /\ loss = "untold" THEN "past" ELSE loss)
           /\ UNCHANGED lost
  BY <1>1 DEF GuardTypeOK
<1>2. CASE Dropped /\ UNCHANGED <<monitor, loss>>
  <2>1. lost' \in 0..MaxLost
    BY <1>2, GuardAssumption DEF GuardTypeOK, Dropped
  <2> QED
    BY <1>2, <2>1 DEF GuardTypeOK
<1> QED
  BY <1>1, <1>2 DEF Pushed

LEMMA OlderTyped ==
    ASSUME NEW age \in 0..Never
    PROVE  Older(age) \in 0..Never /\ (age <= Old => Older(age) \in 0..Old)
BY GuardAssumption DEF Older, Old, Never

LEMMA AgedTyped ==
    ASSUME NEW ts \in Seq(0..Old)
    PROVE  [i \in DOMAIN ts |-> Older(ts[i])] \in Seq(0..Old)
<1>1. Len(ts) \in Nat /\ DOMAIN ts = 1..Len(ts)
  OBVIOUS
<1>2. \A i \in 1..Len(ts) : ts[i] \in 0..Old
  BY ElementOfSeq
<1>3. Old \in Nat /\ 0..Old \subseteq 0..Never
  BY GuardAssumption DEF Old, Never
<1>4. ASSUME NEW i \in 1..Len(ts)
      PROVE  Older(ts[i]) \in 0..Old
  <2>1. ts[i] \in 0..Never /\ ts[i] <= Old
    BY <1>2, <1>3
  <2> QED
    BY <2>1, OlderTyped
<1> QED
  BY <1>1, <1>4, IsASeq

LEMMA GuardInitTyped == GuardInit => GuardTypeOK
<1>1. Never \in Nat /\ <<>> \in Seq(EventKinds) /\ <<>> \in Seq(0..Old) /\ Len(<<>>) = 0
  BY GuardAssumption DEF Never
<1> QED
  BY <1>1, GuardAssumption DEF GuardInit, GuardTypeOK, NoAlert

LEMMA GuardStepTyped == GuardTypeOK /\ [GuardNext]_guardVars => GuardTypeOK'
<1> SUFFICES ASSUME GuardTypeOK, [GuardNext]_guardVars
             PROVE  GuardTypeOK'
  OBVIOUS
<1>0. MaxEvents \in Nat /\ MaxLost \in Nat /\ Never \in Nat
  BY GuardAssumption DEF Never
<1>1. ASSUME NEW actor \in EventKinds, DeleteCounts(actor)
      PROVE  GuardTypeOK'
  <2>1. events' \in Seq(EventKinds) /\ Len(events') <= used
    BY <1>1, DropTyped DEF DeleteCounts
  <2>2. evictTs' \in Seq(0..Old)
    BY <1>1, RecentTyped DEF DeleteCounts, GuardTypeOK
  <2>3. Alerted("eviction") \/ UNCHANGED <<lastSent, guard>>
    BY <1>1 DEF DeleteCounts
  <2>4. /\ lastSent' \in [AlertKinds -> 0..Never]
        /\ guard' \in [pc : {"idle", "email", "push"}, kind : SUBSET AlertKinds]
    BY <2>3, AlertTyped DEF AlertKinds, EvictAlertKinds
  <2>5. loss' \in {"none", "untold", "past"}
    BY <1>1 DEF DeleteCounts, GuardTypeOK
  <2> QED
    BY <1>1, <2>1, <2>2, <2>4, <2>5 DEF DeleteCounts, GuardTypeOK
<1>2. ASSUME NEW actor \in EventKinds, DeleteIsPurge(actor)
      PROVE  GuardTypeOK'
  <2>1. events' \in Seq(EventKinds) /\ Len(events') <= used
    BY <1>2, DropTyped DEF DeleteIsPurge
  <2>2. purgeTs' \in Seq(0..Old)
    BY <1>2, RecentTyped DEF DeleteIsPurge, GuardTypeOK
  <2>3. Alerted("purge") \/ UNCHANGED <<lastSent, guard>>
    BY <1>2 DEF DeleteIsPurge
  <2>4. /\ lastSent' \in [AlertKinds -> 0..Never]
        /\ guard' \in [pc : {"idle", "email", "push"}, kind : SUBSET AlertKinds]
    BY <2>3, AlertTyped DEF AlertKinds
  <2>5. loss' \in {"none", "untold", "past"}
    BY <1>2 DEF DeleteIsPurge, GuardTypeOK
  <2> QED
    BY <1>2, <2>1, <2>2, <2>4, <2>5 DEF DeleteIsPurge, GuardTypeOK
<1>3. CASE Unreadable
  <2>1. events' \in Seq(EventKinds) /\ Len(events') <= used
    BY <1>3, DropTyped DEF Unreadable
  <2>2. /\ lastSent' \in [AlertKinds -> 0..Never]
        /\ guard' \in [pc : {"idle", "email", "push"}, kind : SUBSET AlertKinds]
    BY <1>3, AlertTyped DEF Unreadable, AlertKinds, EvictAlertKinds
  <2> QED
    BY <1>3, <2>1, <2>2 DEF Unreadable, GuardTypeOK
<1>4. CASE Ignored
  <2>1. events' \in Seq(EventKinds) /\ Len(events') <= used
    BY <1>4, DropTyped DEF Ignored
  <2> QED
    BY <1>4, <2>1 DEF Ignored, GuardTypeOK
<1>5. CASE Emailed
  BY <1>5 DEF Emailed, GuardTypeOK, NoAlert
<1>6. CASE AlertPushed
  <2>1. /\ monitor' \in {"silent", "up", "down"} /\ loss' \in {"none", "untold", "past"}
        /\ lost' \in 0..MaxLost
    BY <1>6, PushTyped DEF AlertPushed
  <2> QED
    BY <1>6, <2>1 DEF AlertPushed, GuardTypeOK, NoAlert
<1>7. CASE LivenessReads
  BY <1>7 DEF LivenessReads, GuardTypeOK
<1>8. CASE LivenessPushes
  <2>1. PICK status \in liveness.status : Pushed(status)
    BY <1>8 DEF LivenessPushes
  <2>2. status \in {"up", "down"}
    BY DEF GuardTypeOK
  <2>3. /\ monitor' \in {"silent", "up", "down"} /\ loss' \in {"none", "untold", "past"}
        /\ lost' \in 0..MaxLost
    BY <2>1, <2>2, PushTyped
  <2> QED
    BY <1>8, <2>3 DEF LivenessPushes, GuardTypeOK
<1>9. CASE GuardTick
  <2>1. evictTs' \in Seq(0..Old) /\ purgeTs' \in Seq(0..Old)
    BY <1>9, AgedTyped DEF GuardTick, GuardTypeOK
  <2>2. lastSent' \in [AlertKinds -> 0..Never]
    BY <1>9, OlderTyped DEF GuardTick, GuardTypeOK
  <2>3. liveness' \in [pc : {"due", "push", "sleep"}, status : SUBSET {"up", "down"}]
    BY <1>9 DEF GuardTick, GuardTypeOK
  <2> QED
    BY <1>9, <2>1, <2>2, <2>3 DEF GuardTick, GuardTypeOK
<1>10. CASE GuardRestarts
  <2>1. lost' \in 0..MaxLost /\ Len(<<>>) <= used
    BY <1>0, <1>10 DEF GuardRestarts, Dropped, GuardTypeOK
  <2>2. <<>> \in Seq(EventKinds) /\ <<>> \in Seq(0..Old)
    OBVIOUS
  <2>3. events' \in Seq(EventKinds) /\ Len(events') <= used'
    BY <1>10, <2>1, <2>2 DEF GuardRestarts
  <2> QED
    BY <1>0, <1>10, <2>1, <2>2, <2>3 DEF GuardRestarts, GuardTypeOK, NoAlert
<1>11. ASSUME NEW kind \in EventKinds, Happens(kind)
       PROVE  GuardTypeOK'
  <2>1. /\ events \in Seq(EventKinds) /\ Len(events) \in Nat
        /\ Len(events) <= used /\ used \in 0..MaxEvents
    BY DEF GuardTypeOK
  <2>2. events' \in Seq(EventKinds) /\ Len(events') = Len(events) + 1
    BY <1>11, <2>1 DEF Happens
  <2>3. used' = used + 1 /\ used' \in 0..MaxEvents
    BY <1>0, <1>11, <2>1 DEF Happens
  <2>4. Len(events') <= used'
    BY <2>1, <2>2, <2>3
  <2> QED
    BY <1>11, <2>2, <2>3, <2>4 DEF Happens, GuardTypeOK
<1>12. CASE UNCHANGED guardVars
  BY <1>12 DEF guardVars, GuardTypeOK
<1> QED
  BY <1>1, <1>2, <1>3, <1>4, <1>5, <1>6, <1>7, <1>8, <1>9, <1>10, <1>11, <1>12
     DEF GuardNext, GuardStep, LivenessStep

\* The shape of the guard's memory and threads, and that no event is queued
\* that was not raised.
THEOREM GuardTypeCorrect == GuardSpec => []GuardTypeOK
<1> QED
  BY GuardInitTyped, GuardStepTyped, PTL DEF GuardSpec

-----------------------------------------------------------------------------
(* CacheGuard: what the monitor is told.                                   *)

\* Before the first loss no alert of one stands, and nobody is about to push
\* one.
Quiet ==
    loss = "none" =>
        /\ \A k \in EvictAlertKinds : lastSent[k] = Never
        /\ guard.kind \cap EvictAlertKinds = {} /\ guard.pc # "push"
        /\ "down" \notin liveness.status /\ monitor # "down"

HasKind == guard.pc = "email" => guard.kind # {}

\* How old the alert of an untold loss can be, by where the liveness thread
\* stands.  It may hold an "up" that it read before the alert: then no
\* interval has passed since.
Fresh(k) ==
    /\ liveness.pc = "due" => lastSent[k] <= Cooldown + lost
    /\ liveness.pc = "push" => \/ lastSent[k] < Cooldown
                               \/ "up" \notin liveness.status /\ lastSent[k] <= Cooldown + lost
    /\ liveness.pc = "sleep" => lastSent[k] < Cooldown + lost

Stands == loss = "untold" /\ Cooldown + lost < Latch => \E k \in EvictAlertKinds : Fresh(k)

AlarmInv == GuardTypeOK /\ Quiet /\ HasKind /\ Stands

LEMMA AlarmInit == GuardInit => AlarmInv
<1> SUFFICES ASSUME GuardInit PROVE AlarmInv
  OBVIOUS
<1>1. GuardTypeOK
  BY GuardInitTyped
<1>2. \A k \in EvictAlertKinds : lastSent[k] = Never
  BY DEF GuardInit, AlertKinds
<1> QED
  BY <1>1, <1>2 DEF AlarmInv, Quiet, HasKind, Stands, GuardInit, NoAlert

LEMMA GuardNumbers ==
    /\ {Cooldown, Latch, Never, MaxLost} \subseteq Nat
    /\ 0 < Cooldown /\ Cooldown <= Latch /\ Never = Latch + 1
    /\ GuardTypeOK => lost \in Nat /\ \A k \in AlertKinds : lastSent[k] \in Nat
<1>1. /\ {Cooldown, Latch, Never, MaxLost} \subseteq Nat
      /\ 0 < Cooldown /\ Cooldown <= Latch /\ Never = Latch + 1
  BY GuardAssumption DEF Never
<1>2. ASSUME GuardTypeOK
      PROVE  lost \in Nat /\ \A k \in AlertKinds : lastSent[k] \in Nat
  <2>1. lost \in 0..MaxLost /\ lastSent \in [AlertKinds -> 0..Never]
    BY <1>2 DEF GuardTypeOK
  <2>2. 0..MaxLost \subseteq Nat /\ 0..Never \subseteq Nat
    BY <1>1
  <2> QED
    BY <2>1, <2>2
<1> QED
  BY <1>1, <1>2

\* An alert that is in its cooldown, or that is stamped now, is fresh wherever
\* the liveness thread stands.
LEMMA InCooldownIsFresh ==
    ASSUME GuardTypeOK, NEW k \in EvictAlertKinds, lastSent[k] < Cooldown
    PROVE  Fresh(k)
<1>1. lastSent[k] \in Nat /\ lost \in Nat /\ Cooldown \in Nat
  BY GuardNumbers DEF AlertKinds
<1>2. lastSent[k] <= Cooldown + lost /\ lastSent[k] < Cooldown + lost
  BY <1>1
<1> QED
  BY <1>2 DEF Fresh

\* An alert of a loss leaves an alert of its kind that is in its cooldown.
LEMMA AlertStamps ==
    ASSUME GuardTypeOK, NEW kind \in EvictAlertKinds, Alerted(kind)
    PROVE  lastSent'[kind] < Cooldown
<1>1. Cooldown \in Nat /\ 0 < Cooldown /\ kind \in AlertKinds
  BY GuardNumbers DEF AlertKinds
<1>2. lastSent \in [AlertKinds -> 0..Never] /\ lastSent[kind] \in Nat
  BY <1>1, GuardNumbers DEF GuardTypeOK
<1>3. CASE lastSent[kind] < Cooldown
  BY <1>3 DEF Alerted
<1>4. CASE ~(lastSent[kind] < Cooldown)
  BY <1>1, <1>2, <1>4 DEF Alerted
<1> QED
  BY <1>3, <1>4

\* A loss, and the alert of it.
LEMMA LossIsFresh ==
    ASSUME GuardTypeOK, GuardTypeOK', HasKind, NEW kind \in EvictAlertKinds,
           Alerted(kind), loss' = "untold"
    PROVE  (Quiet /\ HasKind /\ Stands)'
<1>1. lastSent'[kind] < Cooldown
  BY AlertStamps
<1>2. lastSent'[kind] \in Nat /\ lost' \in Nat /\ Cooldown \in Nat
  <2>1. lost' \in 0..MaxLost /\ lastSent' \in [AlertKinds -> 0..Never]
    BY DEF GuardTypeOK
  <2>2. kind \in AlertKinds /\ MaxLost \in Nat /\ Never \in Nat /\ Cooldown \in Nat
    BY GuardNumbers DEF AlertKinds
  <2> QED
    BY <2>1, <2>2
<1>3. lastSent'[kind] <= Cooldown + lost' /\ lastSent'[kind] < Cooldown + lost'
  BY <1>1, <1>2
<1>4. Stands'
  BY <1>1, <1>3 DEF Stands, Fresh
<1>5. HasKind'
  BY DEF HasKind, Alerted
<1>6. Quiet'
  BY DEF Quiet
<1> QED
  BY <1>4, <1>5, <1>6

\* A step of the event thread that alerts of no loss: it may alert of a
\* commanded purge.
LEMMA NoLossKeeps ==
    ASSUME AlarmInv, Alerted("purge") \/ UNCHANGED <<lastSent, guard>>,
           UNCHANGED <<liveness, monitor, loss, lost>>
    PROVE  (Quiet /\ HasKind /\ Stands)'
<1>1. lastSent \in [AlertKinds -> 0..Never]
  BY DEF AlarmInv, GuardTypeOK
<1>2. \A k \in EvictAlertKinds : lastSent'[k] = lastSent[k]
  BY <1>1 DEF Alerted, AlertKinds, EvictAlertKinds
<1>3. Quiet'
  <2>1. SUFFICES ASSUME loss = "none"
                 PROVE  guard'.kind \cap EvictAlertKinds = {} /\ guard'.pc # "push"
    BY <1>2 DEF AlarmInv, Quiet
  <2>2. guard' = guard \/ guard' = [pc |-> "email", kind |-> {"purge"}]
    BY DEF Alerted
  <2> QED
    BY <2>1, <2>2 DEF AlarmInv, Quiet, EvictAlertKinds
<1>4. HasKind'
  BY DEF AlarmInv, HasKind, Alerted
<1>5. Stands'
  BY <1>2 DEF AlarmInv, Stands, Fresh
<1> QED
  BY <1>3, <1>4, <1>5

\* A push that is lost.
LEMMA DroppedKeeps ==
    ASSUME AlarmInv, NEW k \in EvictAlertKinds, Dropped
    PROVE  /\ lost \in Nat /\ lost' = lost + 1 /\ lastSent[k] \in Nat /\ Cooldown \in Nat
           /\ lastSent[k] <= Cooldown + lost => lastSent[k] < Cooldown + lost'
           /\ Cooldown + lost' < Latch => Cooldown + lost < Latch
<1>1. lost \in Nat /\ lastSent[k] \in Nat /\ Cooldown \in Nat /\ Latch \in Nat /\ k \in AlertKinds
  BY GuardNumbers DEF AlarmInv, AlertKinds
<1>2. lost' = lost + 1
  BY DEF Dropped
<1> QED
  BY <1>1, <1>2

LEMMA AlertPushedKeeps ==
    ASSUME AlarmInv, AlertPushed
    PROVE  (Quiet /\ HasKind /\ Stands)'
<1>1. loss # "none"
  BY DEF AlertPushed, AlarmInv, Quiet
<1>2. loss' # "none" /\ (loss' = "untold" => loss = "untold" /\ Dropped)
  BY <1>1 DEF AlertPushed, Pushed
<1>3. Quiet' /\ HasKind'
  BY <1>2 DEF Quiet, HasKind, AlertPushed, NoAlert
<1>4. ASSUME loss' = "untold", Cooldown + lost' < Latch
      PROVE  \E k \in EvictAlertKinds : Fresh(k)'
  <2>1. loss = "untold" /\ Dropped
    BY <1>2, <1>4
  <2>2. Cooldown + lost < Latch
    BY <1>4, <2>1, DroppedKeeps DEF EvictAlertKinds
  <2>3. PICK k \in EvictAlertKinds : Fresh(k)
    BY <2>1, <2>2 DEF AlarmInv, Stands
  <2>4. /\ lost \in Nat /\ lost' = lost + 1 /\ lastSent[k] \in Nat /\ Cooldown \in Nat
    BY <2>1, DroppedKeeps
  <2>5. /\ lastSent[k] <= Cooldown + lost => lastSent[k] <= Cooldown + lost'
        /\ lastSent[k] < Cooldown + lost => lastSent[k] < Cooldown + lost'
    BY <2>4
  <2>6. lastSent' = lastSent /\ liveness' = liveness
    BY DEF AlertPushed
  <2> QED
    BY <2>3, <2>5, <2>6 DEF Fresh
<1>5. Stands'
  BY <1>4 DEF Stands, Fresh
<1> QED
  BY <1>3, <1>5

LEMMA LivenessReadsKeeps ==
    ASSUME AlarmInv, LivenessReads
    PROVE  (Quiet /\ HasKind /\ Stands)'
<1>1. /\ liveness.pc = "due" /\ liveness'.pc = "push"
      /\ liveness'.status = {IF Latched(lastSent) THEN "down" ELSE "up"}
      /\ UNCHANGED <<lastSent, guard, monitor, loss, lost>>
  BY DEF LivenessReads
<1>2. ASSUME loss = "none"
      PROVE  ~Latched(lastSent)
  <2>1. \A k \in EvictAlertKinds : lastSent[k] = Latch + 1
    BY <1>2, GuardNumbers DEF AlarmInv, Quiet
  <2>2. ~(Latch + 1 < Latch)
    BY GuardNumbers
  <2> QED
    BY <2>1, <2>2 DEF Latched
<1>3. Quiet'
  BY <1>1, <1>2 DEF AlarmInv, Quiet
<1>4. HasKind'
  BY <1>1 DEF AlarmInv, HasKind
<1>5. ASSUME loss = "untold", Cooldown + lost < Latch
      PROVE  \E k \in EvictAlertKinds :
                 Latched(lastSent) /\ lastSent[k] <= Cooldown + lost
  <2>1. PICK k \in EvictAlertKinds : Fresh(k)
    BY <1>5 DEF AlarmInv, Stands
  <2>2. lastSent[k] <= Cooldown + lost
    BY <1>1, <2>1 DEF Fresh
  <2>3. lastSent[k] \in Nat /\ lost \in Nat /\ Cooldown \in Nat /\ Latch \in Nat
    BY GuardNumbers DEF AlarmInv, AlertKinds
  <2>4. lastSent[k] < Latch
    BY <1>5, <2>2, <2>3
  <2> QED
    BY <2>2, <2>4 DEF Latched
<1>6. Stands'
  BY <1>1, <1>5 DEF Stands, Fresh
<1> QED
  BY <1>3, <1>4, <1>6

LEMMA LivenessPushesKeeps ==
    ASSUME AlarmInv, LivenessPushes
    PROVE  (Quiet /\ HasKind /\ Stands)'
<1>1. PICK status \in liveness.status : Pushed(status)
  BY DEF LivenessPushes
<1>2. /\ liveness.pc = "push" /\ liveness'.pc = "sleep" /\ liveness'.status = {}
      /\ UNCHANGED <<lastSent, guard>>
  BY DEF LivenessPushes
<1>3. Quiet'
  BY <1>1, <1>2 DEF AlarmInv, Quiet, Pushed
<1>4. HasKind'
  BY <1>2 DEF AlarmInv, HasKind
<1>5. ASSUME loss' = "untold", Cooldown + lost' < Latch
      PROVE  \E k \in EvictAlertKinds : lastSent[k] < Cooldown + lost'
  <2>1. CASE Dropped /\ UNCHANGED loss
    <3>1. Cooldown + lost < Latch
      BY <1>5, <2>1, DroppedKeeps DEF EvictAlertKinds
    <3>2. PICK k \in EvictAlertKinds : Fresh(k)
      BY <1>5, <2>1, <3>1 DEF AlarmInv, Stands
    <3>3. lastSent[k] \in Nat /\ lost \in Nat /\ Cooldown \in Nat
      BY <2>1, DroppedKeeps
    <3>4. lastSent[k] <= Cooldown + lost
      BY <1>2, <3>2, <3>3 DEF Fresh
    <3> QED
      BY <2>1, <3>4, DroppedKeeps
  <2>2. CASE UNCHANGED lost /\ status = "up" /\ UNCHANGED loss
    <3>1. PICK k \in EvictAlertKinds : Fresh(k)
      BY <1>5, <2>2 DEF AlarmInv, Stands
    <3>2. lastSent[k] < Cooldown
      BY <1>1, <1>2, <2>2, <3>1 DEF Fresh
    <3>3. lastSent[k] \in Nat /\ lost \in Nat /\ Cooldown \in Nat
      BY GuardNumbers DEF AlarmInv, AlertKinds
    <3>4. lastSent[k] < Cooldown + lost
      BY <3>2, <3>3
    <3> QED
      BY <2>2, <3>4
  <2>3. status \in {"up", "down"}
    BY DEF AlarmInv, GuardTypeOK
  <2>4. ~(status = "down" /\ loss' = "untold" /\ monitor' = status
            /\ loss' = (IF status = "down" /\ loss = "untold" THEN "past" ELSE loss))
    OBVIOUS
  <2> QED
    BY <1>1, <1>5, <2>1, <2>2, <2>3, <2>4 DEF Pushed
<1>6. Stands'
  BY <1>2, <1>5 DEF Stands, Fresh
<1> QED
  BY <1>3, <1>4, <1>6

LEMMA TickKeepsAlarm ==
    ASSUME AlarmInv, GuardTick
    PROVE  (Quiet /\ HasKind /\ Stands)'
<1>1. /\ liveness.pc = "sleep" /\ liveness'.pc = "due" /\ liveness'.status = liveness.status
      /\ UNCHANGED <<guard, monitor, loss, lost>>
      /\ \A k \in EvictAlertKinds : lastSent'[k] = Older(lastSent[k])
  BY DEF GuardTick, AlarmInv, GuardTypeOK, AlertKinds
<1>2. Older(Never) = Never
  BY GuardNumbers DEF Older, Old
<1>3. Quiet'
  BY <1>1, <1>2 DEF AlarmInv, Quiet
<1>4. HasKind'
  BY <1>1 DEF AlarmInv, HasKind
<1>5. ASSUME loss = "untold", Cooldown + lost < Latch
      PROVE  \E k \in EvictAlertKinds : lastSent'[k] <= Cooldown + lost
  <2>1. PICK k \in EvictAlertKinds : Fresh(k)
    BY <1>5 DEF AlarmInv, Stands
  <2>2. lastSent[k] < Cooldown + lost
    BY <1>1, <2>1 DEF Fresh
  <2>3. lastSent[k] \in Nat /\ lost \in Nat /\ Cooldown \in Nat
    BY GuardNumbers DEF AlarmInv, AlertKinds
  <2>4. Older(lastSent[k]) <= lastSent[k] + 1
    BY <2>3 DEF Older
  <2>5. Older(lastSent[k]) \in Nat
    BY <2>3 DEF Older
  <2>6. Older(lastSent[k]) <= Cooldown + lost
    BY <2>2, <2>3, <2>4, <2>5
  <2> QED
    BY <1>1, <2>6
<1>6. Stands'
  BY <1>1, <1>5 DEF Stands, Fresh
<1> QED
  BY <1>3, <1>4, <1>6

LEMMA AlarmStep == AlarmInv /\ [GuardNext]_guardVars => AlarmInv'
<1> SUFFICES ASSUME AlarmInv, [GuardNext]_guardVars
             PROVE  (Quiet /\ HasKind /\ Stands)'
  BY GuardStepTyped DEF AlarmInv
<1>0. GuardTypeOK /\ GuardTypeOK' /\ HasKind
  BY GuardStepTyped DEF AlarmInv
<1>1. ASSUME NEW actor \in EventKinds, DeleteCounts(actor)
      PROVE  (Quiet /\ HasKind /\ Stands)'
  <2>1. actor # "agent"
    BY <1>1 DEF DeleteCounts, CountsTowardEviction
  <2>2. CASE Len(Recent(evictTs)) >= Threshold
    BY <1>0, <1>1, <2>1, <2>2, LossIsFresh DEF DeleteCounts, EvictAlertKinds
  <2>3. CASE ~(Len(Recent(evictTs)) >= Threshold)
    BY <1>1, <2>3, NoLossKeeps DEF DeleteCounts
  <2> QED
    BY <2>2, <2>3
<1>2. ASSUME NEW actor \in EventKinds, DeleteIsPurge(actor)
      PROVE  (Quiet /\ HasKind /\ Stands)'
  <2>1. actor = "agent"
    BY <1>2 DEF DeleteIsPurge, CountsTowardEviction
  <2> QED
    BY <1>2, <2>1, NoLossKeeps DEF DeleteIsPurge
<1>3. CASE Unreadable
  BY <1>0, <1>3, LossIsFresh DEF Unreadable, EvictAlertKinds
<1>4. CASE Ignored
  BY <1>4, NoLossKeeps DEF Ignored
<1>5. CASE Emailed
  <2>1. UNCHANGED <<lastSent, liveness, monitor, loss, lost>>
    BY <1>5 DEF Emailed
  <2>2. Stands'
    BY <2>1 DEF Stands, Fresh, AlarmInv
  <2>3. guard'.kind \subseteq guard.kind /\ guard'.pc # "email"
    BY <1>5 DEF Emailed, NoAlert, AlarmInv, GuardTypeOK
  <2>4. loss = "none" => guard'.pc # "push"
    BY <1>5 DEF Emailed, NoAlert, AlarmInv, Quiet, HasKind
  <2> QED
    BY <2>1, <2>2, <2>3, <2>4 DEF Quiet, HasKind, AlarmInv
<1>6. CASE AlertPushed
  BY <1>6, AlertPushedKeeps
<1>7. CASE LivenessReads
  BY <1>7, LivenessReadsKeeps
<1>8. CASE LivenessPushes
  BY <1>8, LivenessPushesKeeps
<1>9. CASE GuardTick
  BY <1>9, TickKeepsAlarm
<1>10. CASE GuardRestarts
  <2>1. \A k \in EvictAlertKinds : lastSent'[k] = Never
    BY <1>10 DEF GuardRestarts, AlertKinds
  <2>2. loss' # "untold" /\ (loss' = "none" => loss = "none") /\ monitor' = monitor
    BY <1>10 DEF GuardRestarts
  <2>3. guard' = NoAlert /\ liveness'.status = {}
    BY <1>10 DEF GuardRestarts
  <2> QED
    BY <2>1, <2>2, <2>3 DEF Quiet, HasKind, Stands, AlarmInv, NoAlert
<1>11. ASSUME NEW kind \in EventKinds, Happens(kind)
       PROVE  (Quiet /\ HasKind /\ Stands)'
  BY <1>11, NoLossKeeps DEF Happens
<1>12. CASE UNCHANGED guardVars
  BY <1>12, NoLossKeeps DEF guardVars
<1> QED
  BY <1>1, <1>2, <1>3, <1>4, <1>5, <1>6, <1>7, <1>8, <1>9, <1>10, <1>11, <1>12
     DEF GuardNext, GuardStep, LivenessStep

\* The invariant that the two promises of the alarm rest on.
THEOREM AlarmInductive == GuardSpec => []AlarmInv
<1> QED
  BY AlarmInit, AlarmStep, PTL DEF GuardSpec

\* As long as the monitor has not heard of a loss, an alert stands for the
\* liveness thread to read, unless as many pushes were lost as the latch
\* outlasts the cooldown: what makes LossIsTold come true.
THEOREM StandsUntilToldCorrect == GuardSpec => []StandsUntilTold
<1>1. AlarmInv => StandsUntilTold
  <2> SUFFICES ASSUME AlarmInv, loss = "untold", Cooldown + lost < Latch
               PROVE  Latched(lastSent)
    BY DEF StandsUntilTold
  <2>1. PICK k \in EvictAlertKinds : Fresh(k)
    BY DEF AlarmInv, Stands
  <2>2. lastSent[k] \in Nat /\ lost \in Nat /\ Cooldown \in Nat /\ Latch \in Nat
    BY GuardNumbers DEF AlarmInv, AlertKinds
  <2>3. liveness.pc \in {"due", "push", "sleep"}
    BY DEF AlarmInv, GuardTypeOK
  <2>4. lastSent[k] <= Cooldown + lost
    BY <2>1, <2>2, <2>3 DEF Fresh
  <2>5. lastSent[k] < Latch
    BY <2>2, <2>4
  <2> QED
    BY <2>5 DEF Latched
<1> QED
  BY <1>1, AlarmInductive, PTL

\* No wolf is cried: the eviction monitor is never down before a loss, whatever
\* the agent deletes on command.
THEOREM NoFalseAlarmCorrect == GuardSpec => []NoFalseAlarm
<1>1. AlarmInv => NoFalseAlarm
  BY DEF AlarmInv, Quiet, NoFalseAlarm
<1> QED
  BY <1>1, AlarmInductive, PTL

-----------------------------------------------------------------------------
(* KeyBudget: the history, and when the monitor turns green.               *)

HistoryRows == [day : 0..MaxDays, objects : Counts]

\* A row a day at most, the latest last.
DaysRise ==
    \A i \in DOMAIN history :
        /\ history[i].day < day
        /\ \A j \in DOMAIN history : i < j => history[i].day < history[j].day

BudgetInv == BudgetTypeOK /\ DaysRise

LEMMA SampleTyped ==
    ASSUME NEW s \in Samples
    PROVE  /\ s.objects \subseteq Nat /\ s.objects \subseteq Counts
           /\ s.zone \subseteq Nat /\ s.ram \subseteq Nat
           /\ \A n, m \in s.objects : n = m
           /\ \A n, m \in s.zone : n = m
           /\ \A n, m \in s.ram : n = m
BY BudgetAssumption DEF Samples, Maybe, Unknown

LEMMA BudgetInitial == BudgetInit => BudgetInv
<1> SUFFICES ASSUME BudgetInit PROVE BudgetInv
  OBVIOUS
<1>1. Len(history) = 0 /\ history \in Seq(HistoryRows) /\ DOMAIN history = {}
  BY DEF BudgetInit
<1>2. sample \in Samples
  BY DEF BudgetInit, Samples, Maybe, Unknown
<1>3. day \in 0..MaxDays /\ Len(history) <= day
  BY <1>1, BudgetAssumption DEF BudgetInit
<1> QED
  BY <1>1, <1>2, <1>3 DEF BudgetInit, BudgetInv, BudgetTypeOK, DaysRise, HistoryRows

LEMMA BudgetStep == BudgetInv /\ [BudgetNext]_budgetVars => BudgetInv'
<1> SUFFICES ASSUME BudgetInv, [BudgetNext]_budgetVars
             PROVE  BudgetInv'
  OBVIOUS
<1>1. CASE UNCHANGED budgetVars
  BY <1>1 DEF budgetVars, BudgetInv, BudgetTypeOK, DaysRise
<1>2. CASE Probes
  <2>1. PICK s \in Samples :
          /\ sample' = s
          /\ budget' \in {Verdict(s, RowsRead(s)), "down", budget}
          /\ history' \in Appended(s)
    BY <1>2 DEF Probes
  <2>2. day \in 0..MaxDays /\ day' = day + 1 /\ day' \in 0..MaxDays /\ MaxDays \in Nat
    BY <1>2, BudgetAssumption DEF Probes, BudgetInv, BudgetTypeOK
  <2>3. budget' \in {"silent", "up", "down"}
    BY <2>1 DEF Verdict, BudgetInv, BudgetTypeOK
  <2>4. history \in Seq(HistoryRows) /\ Len(history) <= day /\ Len(history) \in Nat
    BY DEF BudgetInv, BudgetTypeOK, HistoryRows
  <2>5. \A i \in 1..Len(history) : history[i].day \in Int /\ history[i].day < day
    <3>1. \A i \in 1..Len(history) : history[i] \in HistoryRows
      BY <2>4, ElementOfSeq
    <3>2. DOMAIN history = 1..Len(history)
      BY <2>4
    <3> QED
      BY <2>2, <3>1, <3>2 DEF HistoryRows, BudgetInv, DaysRise
  <2>6. CASE history' = history
    <3>1. Len(history') <= day' /\ DOMAIN history = 1..Len(history)
      BY <2>2, <2>4, <2>6
    <3>2. \A i \in DOMAIN history : history[i].day < day'
      BY <2>2, <2>5, <3>1
    <3>3. DaysRise'
      BY <2>6, <3>2 DEF BudgetInv, DaysRise
    <3> QED
      BY <2>1, <2>2, <2>3, <2>4, <2>6, <3>1, <3>3 DEF BudgetInv, BudgetTypeOK, HistoryRows
  <2>7. ASSUME NEW n \in Counts, history' = Append(history, [day |-> day, objects |-> n])
        PROVE  BudgetInv'
    <3> DEFINE row == [day |-> day, objects |-> n]
    <3>1. row \in HistoryRows /\ row.day = day
      BY <2>2 DEF HistoryRows
    <3> HIDE DEF row
    <3>2. history' = Append(history, row)
      BY <2>7 DEF row
    <3>3. /\ history' \in Seq(HistoryRows) /\ Len(history') = Len(history) + 1
          /\ DOMAIN history' = 1..(Len(history) + 1)
          /\ history'[Len(history) + 1] = row
          /\ \A i \in 1..Len(history) : history'[i] = history[i]
      BY <2>4, <3>1, <3>2
    <3>4. Len(history') <= day'
      BY <2>2, <2>4, <3>3
    <3>5. ASSUME NEW i \in DOMAIN history'
          PROVE  /\ history'[i].day < day'
                 /\ \A j \in DOMAIN history' : i < j => history'[i].day < history'[j].day
      <4>1. CASE i = Len(history) + 1
        BY <2>2, <2>4, <3>1, <3>3, <4>1
      <4>2. CASE i \in 1..Len(history)
        <5>1. history'[i] = history[i] /\ history[i].day \in Int /\ history[i].day < day
          BY <2>5, <3>3, <4>2
        <5>2. history'[i].day < day'
          BY <2>2, <5>1
        <5>3. ASSUME NEW j \in DOMAIN history', i < j
              PROVE  history'[i].day < history'[j].day
          <6>1. CASE j = Len(history) + 1
            BY <3>1, <3>3, <5>1, <6>1
          <6>2. CASE j \in 1..Len(history)
            <7>1. history'[j] = history[j] /\ i \in DOMAIN history /\ j \in DOMAIN history
              BY <2>4, <3>3, <4>2, <6>2
            <7> QED
              BY <5>1, <5>3, <7>1 DEF BudgetInv, DaysRise
          <6> QED
            BY <2>4, <3>3, <6>1, <6>2
        <5> QED
          BY <5>2, <5>3
      <4> QED
        BY <2>4, <3>3, <4>1, <4>2
    <3> QED
      BY <2>1, <2>2, <2>3, <3>3, <3>4, <3>5 DEF BudgetInv, BudgetTypeOK, DaysRise, HistoryRows
  <2> QED
    BY <2>1, <2>6, <2>7 DEF Appended
<1> QED
  BY <1>1, <1>2 DEF BudgetNext

\* The rows of the history are those of past days, in order.
THEOREM BudgetInductive == BudgetSpec => []BudgetInv
<1> QED
  BY BudgetInitial, BudgetStep, PTL DEF BudgetSpec

-----------------------------------------------------------------------------
LEMMA ProductTyped ==
    ASSUME NEW a \in Int, NEW b \in Int
    PROVE  a * b \in Int
OBVIOUS

\* A line that starts at base and reaches the floor of a nearer ceiling only
\* after the horizon is under the floor of any ceiling until then.
LEMMA LineStaysUnder ==
    ASSUME NEW near \in Nat, NEW keys \in Nat, near <= keys, NEW base \in Nat,
           NEW elapsed \in Nat, NEW rise \in Nat, 0 < rise, NEW h \in Nat, NEW d \in Nat, d < h,
           (3 * near - 4 * base) * elapsed >= 4 * h * rise
    PROVE  4 * (base * elapsed + rise * d) < 3 * keys * elapsed
<1> DEFINE be == base * elapsed
           ne == near * elapsed
           ke == keys * elapsed
           rd == rise * d
           rh == rise * h
<1>1. be \in Nat /\ ne \in Nat /\ ke \in Nat /\ rd \in Nat /\ rh \in Nat
  OBVIOUS
<1>2. (3 * near - 4 * base) * elapsed = 3 * ne - 4 * be
  OBVIOUS
<1>3. 4 * h * rise = 4 * rh /\ 3 * keys * elapsed = 3 * ke
  OBVIOUS
<1>4. ne <= ke
  <2>1. keys - near \in Nat /\ (keys - near) * elapsed \in Nat
    OBVIOUS
  <2>2. (keys - near) * elapsed = ke - ne
    OBVIOUS
  <2> QED
    BY <1>1, <2>1, <2>2
<1>5. rd < rh
  <2>1. h - d \in Nat \ {0}
    OBVIOUS
  <2>2. rise * (h - d) \in Nat \ {0}
    BY <2>1
  <2>3. rise * (h - d) = rh - rd
    OBVIOUS
  <2> QED
    BY <1>1, <2>2, <2>3
<1>6. 3 * ne - 4 * be >= 4 * rh
  BY <1>2, <1>3
<1> HIDE DEF be, ne, ke, rd, rh
<1>7. 4 * (be + rd) < 3 * ke
  BY <1>1, <1>4, <1>5, <1>6
<1> QED
  BY <1>3, <1>7 DEF be, rd

\* Under the floor of a nearer ceiling is under the floor of any.
LEMMA FloorGrows ==
    ASSUME NEW n \in Nat, NEW near \in Nat, NEW keys \in Nat, near <= keys, ~Full(n, near)
    PROVE  ~Full(n, keys)
BY DEF Full

\* A verdict of "up" looks at the nearest ceiling and means any.
LEMMA VerdictUp ==
    ASSUME BudgetInv, NEW s \in Samples, NEW rows, Verdict(s, rows) = "up"
    PROVE  /\ s.objects # Unknown /\ s.zone \cup s.ram # Unknown
           /\ \E near \in Nat :
                 /\ \A keys \in s.zone \cup s.ram : keys \in Nat /\ near <= keys
                 /\ \A n \in s.objects : n \in Nat /\ ~Full(n, near)
                 /\ ~FillsFast(rows, near)
<1>1. PICK near \in Ceiling(s.zone, s.ram), n \in s.objects :
           near > 0 /\ ~Full(n, near) /\ ~FillsFast(rows, near)
  BY DEF Verdict
<1>2. s.objects # Unknown
  BY <1>1 DEF Unknown
<1>3. near \in s.zone \cup s.ram /\ \A keys \in s.zone \cup s.ram : near <= keys
  BY DEF Ceiling
<1>4. s.objects \subseteq Nat /\ s.zone \cup s.ram \subseteq Nat /\ \A m \in s.objects : m = n
  BY SampleTyped
<1> QED
  BY <1>1, <1>2, <1>3, <1>4 DEF Unknown

LEMMA HistoryFacts ==
    ASSUME BudgetInv, Len(history) > 1
    PROVE  LET first == history[1]  last == history[Len(history)]
           IN  /\ first.day \in Nat /\ last.day \in Nat /\ first.day < last.day
               /\ first.objects \in Nat /\ last.objects \in Nat
<1>1. history \in Seq(HistoryRows) /\ Len(history) \in Nat
  BY DEF BudgetInv, BudgetTypeOK, HistoryRows
<1>2. history[1] \in HistoryRows /\ history[Len(history)] \in HistoryRows
  BY <1>1, ElementOfSeq
<1>3. 1 \in DOMAIN history /\ Len(history) \in DOMAIN history
  BY <1>1
<1>4. history[1].day < history[Len(history)].day
  BY <1>3 DEF BudgetInv, DaysRise
<1> QED
  BY <1>2, <1>4, BudgetAssumption DEF HistoryRows

LEMMA GreenStep == BudgetInv /\ [BudgetNext]_budgetVars => [TurnsGreen]_budgetVars
<1> SUFFICES ASSUME BudgetInv, Probes, budget # "up", budget' = "up"
             PROVE  TurnsGreen
  BY DEF BudgetNext, TurnsGreen
<1>1. sample' \in Samples /\ Verdict(sample', RowsRead(sample')) = "up"
  BY DEF Probes
<1>2. sample'.objects # Unknown /\ sample'.zone \cup sample'.ram # Unknown
  BY <1>1, VerdictUp
<1>3. PICK near \in Nat :
          /\ \A keys \in sample'.zone \cup sample'.ram : keys \in Nat /\ near <= keys
          /\ \A n \in sample'.objects : n \in Nat /\ ~Full(n, near)
          /\ ~FillsFast(RowsRead(sample'), near)
  BY <1>1, VerdictUp
<1>4. \A keys \in sample'.zone \cup sample'.ram, n \in sample'.objects : ~Full(n, keys)
  BY <1>3, FloorGrows
<1>5. ASSUME sample'.legible, Len(history) > 1
      PROVE  LET first == history[1]  last == history[Len(history)]
                 elapsed == last.day - first.day  rise == last.objects - first.objects
             IN  \A keys \in sample'.zone \cup sample'.ram, d \in 0..(Horizon - 1) :
                    rise > 0 => 4 * (last.objects * elapsed + rise * d) < 3 * keys * elapsed
  <2> DEFINE first == history[1]
             last == history[Len(history)]
             elapsed == last.day - first.day
             rise == last.objects - first.objects
  <2>1. /\ first.day \in Nat /\ last.day \in Nat /\ first.day < last.day
        /\ first.objects \in Nat /\ last.objects \in Nat
    BY <1>5, HistoryFacts
  <2>2. history \in Seq(HistoryRows) /\ Len(history) \in Nat /\ Len(history) >= 2
    BY <1>5 DEF BudgetInv, BudgetTypeOK, HistoryRows
  <2>3. ~FillsFast(history, near)
    BY <1>3, <1>5 DEF RowsRead
  <2>4. ASSUME NEW keys \in sample'.zone \cup sample'.ram, NEW d \in 0..(Horizon - 1), rise > 0
        PROVE  4 * (last.objects * elapsed + rise * d) < 3 * keys * elapsed
    <3>1. elapsed \in Nat /\ elapsed > 0 /\ rise \in Nat /\ last.objects > first.objects
      BY <2>1, <2>4
    <3>2. (3 * near - 4 * last.objects) * elapsed >= 4 * Horizon * rise
      <4>1. ~((3 * near - 4 * last.objects) * elapsed < 4 * Horizon * rise)
        BY <2>2, <2>3, <3>1 DEF FillsFast
      <4>2. /\ (3 * near - 4 * last.objects) * elapsed \in Int
            /\ 4 * Horizon * rise \in Int
        <5>1. 3 * near - 4 * last.objects \in Int /\ 4 * Horizon \in Int
          BY <2>1, BudgetAssumption
        <5>2. elapsed \in Int /\ rise \in Int
          BY <3>1
        <5> HIDE DEF elapsed, rise, last
        <5> QED
          BY <5>1, <5>2, ProductTyped
      <4> QED
        BY <4>1, <4>2
    <3>3. keys \in Nat /\ near <= keys /\ d \in Nat /\ d < Horizon /\ Horizon \in Nat
      BY <1>3, BudgetAssumption
    <3>4. last.objects \in Nat
      BY <2>1
    <3> HIDE DEF elapsed, rise, first, last
    <3> QED
      BY <2>4, <3>1, <3>2, <3>3, <3>4, LineStaysUnder
  <2> QED
    BY <2>4
<1> QED
  BY <1>2, <1>4, <1>5 DEF TurnsGreen

\* The key budget monitor turns green only when there is room: below the floor
\* of every ceiling that is known, and, when the history can be read and has
\* two rows, on the line through it for the whole horizon, whatever the samples
\* were, whichever probes or pushes failed and whatever rows were cut short.
THEOREM GreenIsRoomCorrect == BudgetSpec => GreenIsRoom
<1> QED
  BY BudgetInductive, GreenStep, PTL DEF BudgetSpec, GreenIsRoom

-----------------------------------------------------------------------------
(* ContentMC: the parts side by side.                                      *)

\* Each part goes its own way, so that what is proved of one holds of all.
THEOREM ContentTypeCorrect == ContentSpec => []ContentTypeOK
<1>1. ContentInit => Init /\ ArchiveInit /\ GuardInit /\ BudgetInit /\ FetchInit
  BY DEF ContentInit
<1>2. [ContentNext]_contentVars =>
        /\ [Next]_vars /\ [ArchiveNext]_archiveVars /\ [GuardNext]_guardVars
        /\ [BudgetNext]_budgetVars /\ [FetchNext]_fetchVars
  BY DEF ContentNext, contentVars, CurationPart, ArchivePart, GuardPart, BudgetPart, FetchPart
<1>3. TypeOK /\ ArchiveTypeOK /\ GuardTypeOK /\ BudgetInv /\ FetchInv => ContentTypeOK
  BY DEF ContentTypeOK, BudgetInv, FetchInv
<1>4. ContentSpec => ArchiveSpec /\ GuardSpec /\ BudgetSpec /\ FetchSpec
  BY <1>1, <1>2, PTL DEF ContentSpec, ArchiveSpec, GuardSpec, BudgetSpec, FetchSpec
<1>5. ContentSpec => []TypeOK
  BY <1>1, <1>2, InitTyped, CurationStepTyped, PTL DEF ContentSpec
<1> QED
  BY <1>3, <1>4, <1>5, ArchiveTypeCorrect, GuardTypeCorrect, BudgetInductive, FetchInductive, PTL
=============================================================================
