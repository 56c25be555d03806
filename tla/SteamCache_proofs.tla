-------------------------- MODULE SteamCache_proofs --------------------------
(***************************************************************************)
(* Proofs about module SteamCache, for every depot, build and bound: what  *)
(* was purged is downloaded again by the next run, and a green answer      *)
(* rests on files.  At the end, its types, and those of Sweep beside it.   *)
(***************************************************************************)
EXTENDS SweepMC, Sweep_proofs

\* A copy of SteamPrefill's record knows no build the store has not had.
Known(f) ==
    \A d \in Depots : At(f, d) \subseteq {Gid(d, b) : b \in 1..build[d]}

Lacks(f, depots) ==
    \A d \in depots : d \in Depots => Gid(d, build[d]) \notin At(f, d)

\* The fields of the two processes that hold a copy of the record.
IsRun   == steamRun = [on |-> steamRun.on, force |-> steamRun.force, left |-> steamRun.left,
                       memo |-> steamRun.memo]
IsPurge == purge = [pc |-> purge.pc, left |-> purge.left, depots |-> purge.depots,
                    deleted |-> purge.deleted, memo |-> purge.memo]

\* Every copy that may become the record lacks what is owed.
RecordInv ==
    /\ build \in [Depots -> Nat \ {0}] /\ owed \subseteq Depots
    /\ IsRun /\ IsPurge
    /\ Known(record) /\ Known(steamRun.memo) /\ Known(purge.memo)
    /\ Lacks(record, owed)
    /\ steamRun.on => Lacks(steamRun.memo, owed)
    /\ purge.pc = "write" => /\ Lacks(purge.memo, owed)
                             /\ purge.depots \cap DOMAIN purge.memo = {}
    /\ purge.depots \subseteq Depots

-----------------------------------------------------------------------------
LEMMA EmptyCopy ==
    /\ \A d : At([e \in {} |-> {}], d) = {}
    /\ Known([e \in {} |-> {}])
BY DEF At, Known

LEMMA IdleCopies ==
    /\ NoSteamRun = [on |-> NoSteamRun.on, force |-> NoSteamRun.force,
                     left |-> NoSteamRun.left, memo |-> NoSteamRun.memo]
    /\ NoSteamRun.on = FALSE /\ NoSteamRun.memo = [d \in {} |-> {}]
    /\ NoPurge = [pc |-> NoPurge.pc, left |-> NoPurge.left, depots |-> NoPurge.depots,
                  deleted |-> NoPurge.deleted, memo |-> NoPurge.memo]
    /\ NoPurge.pc = "idle" /\ NoPurge.memo = [d \in {} |-> {}] /\ NoPurge.depots = {}
BY DEF NoSteamRun, NoPurge

LEMMA RecordInit == SteamInit => RecordInv
<1> SUFFICES ASSUME SteamInit
             PROVE  RecordInv
  OBVIOUS
<1>1. record = [d \in {} |-> {}] /\ steamRun = NoSteamRun /\ purge = NoPurge /\ owed = {}
      /\ build = [d \in Depots |-> 1]
  BY DEF SteamInit
<1>2. Known(record) /\ Known(steamRun.memo) /\ Known(purge.memo)
  BY <1>1, EmptyCopy, IdleCopies
<1> QED
  BY <1>1, <1>2, IdleCopies DEF RecordInv, Lacks, IsRun, IsPurge

\* A new build is on no copy of the record.
LEMMA UpdateLands ==
    ASSUME RecordInv, NEW d \in Depots, SteamUpdates(d)
    PROVE  RecordInv'
<1>1. build \in [Depots -> Nat \ {0}] /\ build' = [build EXCEPT ![d] = build[d] + 1]
      /\ UNCHANGED <<record, steamRun, purge, owed>>
  BY DEF SteamUpdates, RecordInv
<1>2. /\ build' \in [Depots -> Nat \ {0}]
      /\ \A e \in Depots : build[e] \in Nat /\ build'[e] \in {build[e], build[e] + 1}
  BY <1>1
<1>3. ASSUME NEW f, Known(f)
      PROVE  /\ \A e \in Depots : At(f, e) \subseteq {Gid(e, b) : b \in 1..build'[e]}
             /\ \A e \in Depots : Gid(e, build[e]) \notin At(f, e) => Gid(e, build'[e]) \notin At(f, e)
  <2>1. SUFFICES ASSUME NEW e \in Depots
                 PROVE  /\ At(f, e) \subseteq {Gid(e, b) : b \in 1..build'[e]}
                        /\ Gid(e, build[e]) \notin At(f, e) => Gid(e, build'[e]) \notin At(f, e)
    OBVIOUS
  <2>2. At(f, e) \subseteq {Gid(e, b) : b \in 1..build[e]}
    BY <1>3 DEF Known
  <2>3. 1..build[e] \subseteq 1..build'[e] /\ build[e] + 1 \notin 1..build[e]
    BY <1>2
  <2>4. \A b : Gid(e, build[e] + 1) = Gid(e, b) => b = build[e] + 1
    BY DEF Gid
  <2> QED
    BY <1>2, <2>2, <2>3, <2>4
<1>4. Known(record)' /\ Known(steamRun.memo)' /\ Known(purge.memo)'
  BY <1>1, <1>3 DEF RecordInv, Known, At
<1>5. /\ Lacks(record, owed)'
      /\ (steamRun.on => Lacks(steamRun.memo, owed))'
      /\ (purge.pc = "write" => Lacks(purge.memo, owed))'
  BY <1>1, <1>3 DEF RecordInv, Lacks, At
<1> QED
  BY <1>1, <1>2, <1>4, <1>5 DEF RecordInv, IsRun, IsPurge

-----------------------------------------------------------------------------
(* SteamPrefill.                                                           *)

\* A run holds one of: the record it began with, and that with more builds.
LEMMA RunHoldsLands ==
    ASSUME RecordInv, UNCHANGED <<build, record, purge>>, IsRun', owed' \subseteq owed,
           Known(steamRun'.memo), steamRun'.on => Lacks(steamRun'.memo, owed')
    PROVE  RecordInv'
BY DEF RecordInv, Known, Lacks, IsPurge, At

LEMMA PullLands ==
    ASSUME RecordInv, NEW d \in Depots, RunPulls(d)
    PROVE  RecordInv'
<1> DEFINE gid  == Gid(d, build[d])
           memo == [e \in DOMAIN steamRun.memo \cup {d} |->
                      At(steamRun.memo, e) \cup {g \in {gid} : e = d}]
<1>1. /\ build \in [Depots -> Nat \ {0}] /\ IsRun /\ steamRun.on
      /\ Known(steamRun.memo) /\ Lacks(steamRun.memo, owed) /\ owed \subseteq Depots
      /\ UNCHANGED <<build, record, purge>>
  BY DEF RunPulls, RecordInv
<1>2. CASE gid \in At(steamRun.memo, d) /\ owed' = owed
           /\ steamRun' = [steamRun EXCEPT !.left = @ \ {d}]
  <2>1. steamRun' = [on |-> steamRun.on, force |-> steamRun.force,
                     left |-> steamRun.left \ {d}, memo |-> steamRun.memo]
    BY <1>1, <1>2 DEF IsRun
  <2>2. IsRun' /\ steamRun'.memo = steamRun.memo
    BY <2>1 DEF IsRun
  <2> QED
    BY <1>1, <1>2, <2>2, RunHoldsLands
<1>3. CASE owed' = owed \ {d} /\ steamRun' = [steamRun EXCEPT !.left = @ \ {d}, !.memo = memo]
  <2> HIDE DEF memo
  <2>1. steamRun' = [on |-> steamRun.on, force |-> steamRun.force,
                     left |-> steamRun.left \ {d}, memo |-> memo]
    BY <1>1, <1>3 DEF IsRun
  <2>2. IsRun' /\ steamRun'.memo = memo
    BY <2>1 DEF IsRun
  <2> USE DEF memo
  <2>3. \A e \in Depots : At(memo, e) = IF e = d THEN At(steamRun.memo, d) \cup {gid}
                                                 ELSE At(steamRun.memo, e)
    BY DEF At
  <2> HIDE DEF memo
  <2>4. Known(memo)
    <3>1. build[d] \in 1..build[d]
      BY <1>1
    <3> QED
      BY <1>1, <2>3, <3>1 DEF Known
  <2>5. Lacks(memo, owed \ {d})
    BY <1>1, <2>3 DEF Lacks
  <2> QED
    BY <1>1, <1>3, <2>2, <2>4, <2>5, RunHoldsLands
<1> QED
  BY <1>2, <1>3 DEF RunPulls

LEMMA RunLands ==
    ASSUME RecordInv,
           (\E force \in BOOLEAN : RunBegins(force)) \/ RunSaves \/ RunDies
    PROVE  RecordInv'
<1>1. ASSUME NEW force \in BOOLEAN, RunBegins(force)
      PROVE  RecordInv'
  <2>1. IsRun' /\ steamRun'.memo = record /\ UNCHANGED <<build, record, purge, owed>>
    BY <1>1 DEF RunBegins, IsRun
  <2> QED
    BY <2>1, RunHoldsLands DEF RecordInv
<1>2. CASE RunSaves
  <2>1. record' = steamRun.memo /\ steamRun.on /\ steamRun' = NoSteamRun
        /\ UNCHANGED <<build, purge, owed>>
    BY <1>2 DEF RunSaves
  <2>2. Known(steamRun.memo)' /\ IsRun' /\ ~steamRun'.on
    BY <2>1, EmptyCopy, IdleCopies DEF IsRun, Known, At
  <2> QED
    BY <2>1, <2>2 DEF RecordInv, Known, Lacks, At, IsPurge
<1>3. CASE RunDies
  <2>1. steamRun' = NoSteamRun /\ UNCHANGED <<build, record, purge, owed>>
    BY <1>3 DEF RunDies
  <2>2. Known(steamRun'.memo) /\ IsRun' /\ ~steamRun'.on
    BY <2>1, EmptyCopy, IdleCopies DEF IsRun
  <2> QED
    BY <2>1, <2>2, RunHoldsLands
<1> QED
  BY <1>1, <1>2, <1>3

-----------------------------------------------------------------------------
(* The purge.                                                              *)

\* A purge on its way to the record, or without a copy of it.
LEMMA PurgeHoldsLands ==
    ASSUME RecordInv, UNCHANGED <<build, record, steamRun, owed>>, IsPurge',
           Known(purge'.memo), purge'.depots \subseteq Depots,
           purge'.pc = "write" => /\ Lacks(purge'.memo, owed)
                                  /\ purge'.depots \cap DOMAIN purge'.memo = {}
    PROVE  RecordInv'
BY DEF RecordInv, Known, Lacks, IsRun, At

LEMMA IdlePurgeLands ==
    ASSUME RecordInv, UNCHANGED <<build, record, steamRun, owed>>, purge' = NoPurge
    PROVE  RecordInv'
BY EmptyCopy, IdleCopies, PurgeHoldsLands DEF IsPurge

LEMMA PurgeBeginsLands ==
    ASSUME RecordInv, NEW unread, PurgeBegins(unread)
    PROVE  RecordInv'
<1>1. PICK left, own : /\ own \subseteq Depots
                       /\ purge' = [NoPurge EXCEPT !.pc = "unlink", !.left = left, !.depots = own]
  BY DEF PurgeBegins, Shelf
<1>2. purge' = [pc |-> "unlink", left |-> left, depots |-> own,
                deleted |-> NoPurge.deleted, memo |-> NoPurge.memo]
  BY <1>1, IdleCopies
<1>3. IsPurge' /\ purge'.memo = [d \in {} |-> {}] /\ purge'.depots = own /\ purge'.pc = "unlink"
  BY <1>2, IdleCopies DEF IsPurge
<1> QED
  BY <1>1, <1>3, EmptyCopy, PurgeHoldsLands DEF PurgeBegins

LEMMA PurgeUnlinksLands ==
    ASSUME RecordInv, NEW d \in Depots, NEW stay, PurgeUnlinks(d, stay)
    PROVE  RecordInv'
<1>1. PICK left, deleted : purge' = [purge EXCEPT !.left = left, !.deleted = deleted]
  BY DEF PurgeUnlinks
<1>2. IsPurge /\ purge.pc = "unlink" /\ Known(purge.memo) /\ purge.depots \subseteq Depots
  BY DEF RecordInv, PurgeUnlinks
<1>3. purge' = [pc |-> purge.pc, left |-> left, depots |-> purge.depots,
                deleted |-> deleted, memo |-> purge.memo]
  BY <1>1, <1>2 DEF IsPurge
<1>4. IsPurge' /\ purge'.pc = "unlink" /\ purge'.memo = purge.memo /\ purge'.depots = purge.depots
  BY <1>2, <1>3 DEF IsPurge
<1> QED
  BY <1>2, <1>4, PurgeHoldsLands DEF PurgeUnlinks

LEMMA PurgeDeletesLands ==
    ASSUME RecordInv, PurgeDeletes
    PROVE  RecordInv'
<1>1. CASE purge' = [purge EXCEPT !.pc = "read"]
  <2>1. IsPurge /\ Known(purge.memo) /\ purge.depots \subseteq Depots
    BY DEF RecordInv
  <2>2. purge' = [pc |-> "read", left |-> purge.left, depots |-> purge.depots,
                  deleted |-> purge.deleted, memo |-> purge.memo]
    BY <1>1, <2>1 DEF IsPurge
  <2>3. IsPurge' /\ purge'.pc = "read" /\ purge'.memo = purge.memo /\ purge'.depots = purge.depots
    BY <2>2 DEF IsPurge
  <2> QED
    BY <2>1, <2>3, PurgeHoldsLands DEF PurgeDeletes
<1>2. CASE purge' = NoPurge
  BY <1>2, IdlePurgeLands DEF PurgeDeletes
<1> QED
  BY <1>1, <1>2 DEF PurgeDeletes

\* What is read and pruned lacks what was owed, and what was deleted.
LEMMA PurgeReadsLands ==
    ASSUME RecordInv, PurgeReads
    PROVE  RecordInv'
<1> DEFINE memo == Cleared(record, purge.depots)
<1>1. IsPurge /\ Known(record) /\ Lacks(record, owed) /\ purge.depots \subseteq Depots
  BY DEF RecordInv
<1>2. /\ purge' = [purge EXCEPT !.pc = "write", !.memo = memo]
      /\ UNCHANGED <<build, record, steamRun, owed>>
  BY DEF PurgeReads
<1>3. DOMAIN memo \cap purge.depots = {}
      /\ \A e : At(memo, e) \subseteq At(record, e)
  BY DEF Cleared, At
<1> HIDE DEF memo
<1>4. purge' = [pc |-> "write", left |-> purge.left, depots |-> purge.depots,
                deleted |-> purge.deleted, memo |-> memo]
  BY <1>1, <1>2 DEF IsPurge
<1>5. IsPurge' /\ purge'.memo = memo /\ purge'.depots = purge.depots
  BY <1>4 DEF IsPurge
<1>6. Known(memo) /\ Lacks(memo, owed)
  BY <1>1, <1>3 DEF Known, Lacks
<1> QED
  BY <1>1, <1>2, <1>3, <1>5, <1>6, PurgeHoldsLands

LEMMA PurgeWritesLands ==
    ASSUME RecordInv, PurgeWrites
    PROVE  RecordInv'
<1>1. /\ record' = purge.memo /\ purge' = NoPurge /\ UNCHANGED <<build, steamRun>>
      /\ Known(purge.memo) /\ Lacks(purge.memo, owed)
      /\ purge.depots \cap DOMAIN purge.memo = {} /\ purge.depots \subseteq Depots
  BY DEF RecordInv, PurgeWrites
<1>2. owed' \subseteq Depots /\ (steamRun.on => owed' = owed)
      /\ owed' \subseteq owed \cup purge.depots
  BY <1>1 DEF RecordInv, PurgeWrites
<1>3. Lacks(purge.memo, owed \cup purge.depots)
  BY <1>1 DEF Lacks, At
<1>4. Known(record)' /\ Lacks(record, owed)'
  BY <1>1, <1>2, <1>3 DEF Known, Lacks, At
<1>5. IsPurge' /\ Known(purge.memo)' /\ purge'.pc # "write" /\ purge'.depots = {}
  BY <1>1, EmptyCopy, IdleCopies DEF IsPurge, Known, At
<1> QED
  BY <1>1, <1>2, <1>4, <1>5 DEF RecordInv, IsRun, Known, Lacks, At

-----------------------------------------------------------------------------
\* The steps that touch neither the record nor a copy of it.
LEMMA ElsewhereLands ==
    ASSUME RecordInv, UNCHANGED <<build, record, steamRun, purge, owed>>
    PROVE  RecordInv'
BY DEF RecordInv, Known, Lacks, At, IsRun, IsPurge

LEMMA RecordMoves ==
    ASSUME RecordInv, [SteamNext]_steamVars
    PROVE  RecordInv'
<1>1. CASE UNCHANGED steamVars
  BY <1>1, ElsewhereLands DEF steamVars
<1>2. CASE RunStep \/ RunBegins(TRUE) \/ RunDies
  BY <1>2, RunLands, PullLands DEF RunStep
<1>3. CASE \E d \in Depots : SteamUpdates(d) \/ ValStats(d)
  BY <1>3, UpdateLands, ElsewhereLands DEF ValStats
<1>4. CASE \E d \in Depots : \E some \in SUBSET Content[d][build[d]] : FetchDies(d, some)
  BY <1>4, ElsewhereLands DEF FetchDies
<1>5. CASE \E some \in SUBSET Depots :
             FetchesManifests(some) \/ ValBegins(some) \/ PurgeBegins(some)
  BY <1>5, ElsewhereLands, PurgeBeginsLands DEF FetchesManifests, ValBegins
<1>6. CASE \E p \in Paths : Evicts(p) \/ Empties(p)
  BY <1>6, ElsewhereLands DEF Evicts, Empties
<1>7. CASE \E d \in Depots, stay \in SUBSET purge.left : PurgeUnlinks(d, stay)
  BY <1>7, PurgeUnlinksLands
<1>8. CASE ValAnswers
  BY <1>8, ElsewhereLands DEF ValAnswers
<1>9. CASE PurgeDeletes \/ PurgeReads \/ PurgeWrites
  BY <1>9, PurgeDeletesLands, PurgeReadsLands, PurgeWritesLands
<1>10. CASE PurgeFails
  BY <1>10, IdlePurgeLands DEF PurgeFails
<1> QED
  BY <1>1, <1>2, <1>3, <1>4, <1>5, <1>6, <1>7, <1>8, <1>9, <1>10 DEF SteamNext

\* What was purged is not on SteamPrefill's record, whatever runs, fetches, other
\* purges, new builds, failures and deaths come between.
THEOREM PurgedComesBackCorrect == SteamSpec => []PurgedComesBack
<1>1. SteamInit => RecordInv
  BY RecordInit
<1>2. RecordInv /\ [SteamNext]_steamVars => RecordInv'
  BY RecordMoves
<1>3. RecordInv => PurgedComesBack
  BY DEF RecordInv, Lacks, PurgedComesBack
<1> QED
  BY <1>1, <1>2, <1>3, PTL DEF SteamSpec

-----------------------------------------------------------------------------
(* The archive: every depot's manifests, the chunk sets finite.            *)

Chunks(d) == UNION {Content[d][b] : b \in Builds(d)}

Pieces(d) == {C \in SUBSET Chunks(d) : IsFiniteSet(C)}

Manifest(d) == [gid : {Gid(d, b) : b \in Builds(d)}, ext : {"bin", "shas"}, chunks : Pieces(d)]

ShelfInv ==
    /\ build \in [Depots -> Nat] /\ \A d \in Depots : build[d] \in Builds(d)
    /\ DOMAIN shelf = Depots /\ \A d \in Depots : shelf[d] \in Seq(Manifest(d))

LEMMA ShelfInit == SteamInit => ShelfInv
<1> SUFFICES ASSUME SteamInit
             PROVE  ShelfInv
  OBVIOUS
<1>1. build = [d \in Depots |-> 1] /\ shelf = [d \in Depots |-> <<>>]
  BY DEF SteamInit
<1> QED
  BY <1>1, SteamAssumption DEF ShelfInv, Builds

LEMMA PiecesFinite ==
    ASSUME ShelfInv, NEW d \in Depots, NEW some \in SUBSET Content[d][build[d]]
    PROVE  some \in Pieces(d)
<1>1. build[d] \in Builds(d) /\ IsFiniteSet(Content[d][build[d]])
  BY SteamAssumption DEF ShelfInv, Builds
<1>2. IsFiniteSet(some)
  BY <1>1, FS_Subset
<1> QED
  BY <1>1, <1>2 DEF Pieces, Chunks

LEMMA ShelvedTyped ==
    ASSUME ShelfInv, NEW d \in Depots, NEW ext \in {"bin", "shas"},
           NEW some \in SUBSET Content[d][build[d]]
    PROVE  LET after == Shelved(d, Gid(d, build[d]), ext, some)
           IN  DOMAIN after = Depots /\ \A e \in Depots : after[e] \in Seq(Manifest(e))
<1> DEFINE m == [gid |-> Gid(d, build[d]), ext |-> ext, chunks |-> some]
<1>1. m \in Manifest(d)
  <2>1. Gid(d, build[d]) \in {Gid(d, b) : b \in Builds(d)}
    BY DEF ShelfInv
  <2> QED
    BY <2>1, PiecesFinite DEF Manifest
<1> HIDE DEF m
<1>2. DOMAIN shelf = Depots /\ \A e \in Depots : shelf[e] \in Seq(Manifest(e))
  BY DEF ShelfInv
<1>3. Append(shelf[d], m) \in Seq(Manifest(d))
  BY <1>1, <1>2
<1> DEFINE more == [shelf EXCEPT ![d] = Append(@, m)]
<1>4. DOMAIN more = Depots /\ \A e \in Depots : more[e] = IF e = d THEN Append(shelf[d], m) ELSE shelf[e]
  BY <1>2
<1>5. Shelved(d, Gid(d, build[d]), ext, some) \in {shelf, more}
  BY DEF Shelved, m
<1> HIDE DEF more
<1> QED
  BY <1>2, <1>3, <1>4, <1>5

LEMMA ShelfMoves ==
    ASSUME ShelfInv, [SteamNext]_steamVars
    PROVE  ShelfInv'
<1>1. CASE UNCHANGED <<build, shelf>>
  BY <1>1 DEF ShelfInv
<1>2. ASSUME NEW d \in Depots, RunPulls(d)
      PROVE  ShelfInv'
  <2>1. build' = build
    BY <1>2 DEF RunPulls
  <2>2. DOMAIN shelf' = Depots /\ \A e \in Depots : shelf'[e] \in Seq(Manifest(e))
    <3>1. CASE shelf' = Shelved(d, Gid(d, build[d]), "bin", Content[d][build[d]])
      BY <3>1, ShelvedTyped
    <3>2. CASE \E some \in SUBSET Content[d][build[d]] :
                 shelf' = Shelved(d, Gid(d, build[d]), "bin", some)
      BY <3>2, ShelvedTyped
    <3>3. CASE shelf' = shelf
      BY <3>3 DEF ShelfInv
    <3> QED
      BY <1>2, <3>1, <3>2, <3>3 DEF RunPulls
  <2> QED
    BY <2>1, <2>2 DEF ShelfInv
<1>3. ASSUME NEW d \in Depots, SteamUpdates(d)
      PROVE  ShelfInv'
  <2>1. build[d] \in 1..Len(Content[d]) /\ Len(Content[d]) \in Nat
        /\ build \in [Depots -> Nat] /\ build' = [build EXCEPT ![d] = @ + 1]
        /\ build[d] < Len(Content[d]) /\ shelf' = shelf
    BY <1>3, SteamAssumption DEF SteamUpdates, ShelfInv, Builds
  <2>2. build' \in [Depots -> Nat] /\ \A e \in Depots : build'[e] \in Builds(e)
    BY <2>1 DEF ShelfInv, Builds
  <2> QED
    BY <2>1, <2>2 DEF ShelfInv
<1>4. ASSUME NEW d \in Depots, NEW some \in SUBSET Content[d][build[d]], FetchDies(d, some)
      PROVE  ShelfInv'
  <2>1. /\ build' = build /\ DOMAIN shelf' = Depots
        /\ \A e \in Depots : shelf'[e] \in Seq(Manifest(e))
    BY <1>4, ShelvedTyped DEF FetchDies
  <2> QED
    BY <2>1 DEF ShelfInv
<1>5. ASSUME NEW some \in SUBSET Depots, FetchesManifests(some)
      PROVE  ShelfInv'
  <2>1. \A d \in Depots :
          Shelved(d, Gid(d, build[d]), "shas", Content[d][build[d]])[d] \in Seq(Manifest(d))
    BY ShelvedTyped
  <2>2. \A d \in Depots : shelf[d] \in Seq(Manifest(d))
    BY DEF ShelfInv
  <2>3. /\ build' = build /\ DOMAIN shelf' = Depots
        /\ \A e \in Depots : shelf'[e] \in Seq(Manifest(e))
    BY <1>5, <2>1, <2>2 DEF FetchesManifests
  <2> QED
    BY <2>3 DEF ShelfInv
<1>6. CASE RunBegins(TRUE) \/ RunBegins(FALSE) \/ RunSaves \/ RunDies
  BY <1>1, <1>6 DEF RunBegins, RunSaves, RunDies
<1>7. CASE \E some \in SUBSET Depots : ValBegins(some) \/ PurgeBegins(some)
  BY <1>1, <1>7 DEF ValBegins, PurgeBegins
<1>8. CASE (\E d \in Depots : ValStats(d)) \/ ValAnswers
  BY <1>1, <1>8 DEF ValStats, ValAnswers
<1>9. CASE \E p \in Paths : Evicts(p) \/ Empties(p)
  BY <1>1, <1>9 DEF Evicts, Empties
<1>10. CASE \E d \in Depots, stay \in SUBSET purge.left : PurgeUnlinks(d, stay)
  BY <1>1, <1>10 DEF PurgeUnlinks
<1>11. CASE PurgeDeletes \/ PurgeReads \/ PurgeWrites \/ PurgeFails
  BY <1>1, <1>11 DEF PurgeDeletes, PurgeReads, PurgeWrites, PurgeFails
<1>12. CASE UNCHANGED steamVars
  BY <1>1, <1>12 DEF steamVars
<1> QED
  BY <1>2, <1>3, <1>4, <1>5, <1>6, <1>7, <1>8, <1>9, <1>10, <1>11, <1>12 DEF SteamNext, RunStep

-----------------------------------------------------------------------------
(* The manifest that is validated.                                         *)

LEMMA MaxIn ==
    ASSUME NEW n \in Nat, NEW S \in SUBSET (1..n), S # {}
    PROVE  Max(S) \in S
<1> DEFINE R == OpToRel(<, Nat)
           T == {n - x : x \in S}
<1>1. IsWellFoundedOn(R, Nat)
  BY NatLessThanWellFounded
<1>2. \A x, y \in Nat : x < y => <<x, y>> \in R
  BY DEF OpToRel
<1> HIDE DEF R
<1>3. T \in SUBSET Nat /\ T # {}
  <2>1. \A x \in S : n - x \in Nat
    OBVIOUS
  <2>2. PICK x \in S : TRUE
    OBVIOUS
  <2>3. n - x \in T
    OBVIOUS
  <2> QED
    BY <2>1, <2>3
<1>4. PICK t \in T : \A y \in T : ~ (<<y, t>> \in R)
  BY <1>1, <1>3, WFMin
<1>5. PICK x \in S : t = n - x
  BY <1>4
<1>6. \A y \in S : x >= y
  <2>1. SUFFICES ASSUME NEW y \in S
                 PROVE  x >= y
    OBVIOUS
  <2>2. n - y \in T /\ n - y \in Nat /\ n - x \in Nat
    BY <2>1
  <2>3. ~ (n - y < n - x)
    BY <1>2, <1>4, <1>5, <2>2
  <2> QED
    BY <2>2, <2>3
<1> QED
  BY <1>6 DEF Max

LEMMA LocatedTyped ==
    ASSUME ShelfInv, NEW d \in Shelf
    PROVE  Located(d) \in Manifest(d)
<1>1. d \in Depots /\ shelf[d] \in Seq(Manifest(d)) /\ shelf[d] # <<>>
  BY DEF Shelf, ShelfInv
<1>2. Len(shelf[d]) \in Nat /\ DOMAIN shelf[d] = 1..Len(shelf[d]) /\ DOMAIN shelf[d] # {}
  <2>1. Len(shelf[d]) \in Nat /\ DOMAIN shelf[d] = 1..Len(shelf[d])
    BY <1>1
  <2>2. Len(shelf[d]) # 0
    BY <1>1
  <2>3. 1 \in 1..Len(shelf[d])
    BY <2>1, <2>2
  <2> QED
    BY <2>1, <2>3
<1> DEFINE pinned == {i \in DOMAIN shelf[d] : shelf[d][i].gid \in PrefilledGids}
           choice == IF pinned = {} THEN DOMAIN shelf[d] ELSE pinned
<1>3. choice \in SUBSET (1..Len(shelf[d])) /\ choice # {}
  BY <1>2
<1>4. Located(d) = shelf[d][Max(choice)]
  BY DEF Located
<1> HIDE DEF choice
<1>5. Max(choice) \in 1..Len(shelf[d])
  BY <1>2, <1>3, MaxIn
<1> QED
  BY <1>1, <1>2, <1>4, <1>5

LEMMA NamedFinite ==
    ASSUME ShelfInv, NEW d \in Shelf
    PROVE  IsFiniteSet(Named(d)) /\ \A p \in Named(d) : p[1] = d
<1>1. IsFiniteSet(Located(d).chunks)
  <2>1. Located(d) \in Manifest(d)
    BY LocatedTyped
  <2>2. Located(d).chunks \in Pieces(d)
    BY <2>1 DEF Manifest
  <2> QED
    BY <2>2 DEF Pieces
<1>2. CASE d \in Redist
  BY <1>2, FS_EmptySet DEF Named
<1>3. CASE d \notin Redist
  <2> DEFINE f == [c \in Located(d).chunks |-> Path(d, c)]
  <2>1. f \in Surjection(Located(d).chunks, Named(d))
    BY <1>3 DEF Surjection, Named
  <2> HIDE DEF f
  <2>2. IsFiniteSet(Named(d))
    BY <1>1, <2>1, FS_Surjection
  <2> QED
    BY <1>3, <2>2 DEF Named, Path
<1> QED
  BY <1>2, <1>3

-----------------------------------------------------------------------------
(* The validate under way.                                                 *)

IsVal == DOMAIN val = DOMAIN NoVal /\ val = [k \in DOMAIN NoVal |-> val[k]]

\* Depots already looked at are complete as long as the counts are equal; the
\* others have shown no file yet.
Accounted ==
    /\ val.total \in Nat /\ val.cached \in Nat /\ val.cached <= val.total
    /\ val.cached = val.total =>
         \A d \in Depots \ val.left : Of(d) \subseteq val.whole \/ Of(d) \cap val.files = {}
    /\ \A d \in val.left : Of(d) \cap val.files = {}
    /\ val.cached > 0 => val.whole # {}

ValInv ==
    /\ IsVal
    /\ \A d \in Depots : IsFiniteSet(Of(d))
    /\ val.left \subseteq Depots
    /\ val.pc = "stat" => Accounted /\ val.answer = "none"
    /\ GreenIsOnDisk

LEMMA NoValFacts ==
    /\ NoVal.pc = "idle" /\ NoVal.left = {} /\ NoVal.paths = {} /\ NoVal.versions = {}
    /\ NoVal.total = 0 /\ NoVal.cached = 0 /\ NoVal.whole = {} /\ NoVal.files = {}
    /\ NoVal.answer = "none"
    /\ NoVal = [k \in DOMAIN NoVal |-> NoVal[k]]
    /\ DOMAIN NoVal = {"pc", "left", "paths", "versions", "parsed", "total", "cached",
                       "included", "answer", "whole", "files"}
BY DEF NoVal

LEMMA ValInit == SteamInit => ValInv
<1> SUFFICES ASSUME SteamInit
             PROVE  ValInv
  OBVIOUS
<1>1. val = NoVal
  BY DEF SteamInit
<1>2. \A d : Of(d) = {}
  BY <1>1, NoValFacts DEF Of
<1> QED
  BY <1>1, <1>2, NoValFacts, FS_EmptySet DEF ValInv, IsVal, GreenIsOnDisk

\* What a validate begins with: the paths that its depots' manifests name.
LEMMA BeginsAccounted ==
    ASSUME ShelfInv, ValInv, NEW unread, ValBegins(unread)
    PROVE  ValInv'
<1> DEFINE read == Shelf \ unread
           own  == read \ Redist
           paths == UNION {Named(d) : d \in own}
           left  == {d \in own : Named(d) # {}}
           versions == {Located(d).gid : d \in own}
<1>1. CASE val' = [NoVal EXCEPT !.answer = "error"]
  <2>1. /\ val'.pc = "idle" /\ val'.left = {} /\ val'.paths = {} /\ val'.answer = "error"
        /\ DOMAIN val' = DOMAIN NoVal /\ val' = [k \in DOMAIN NoVal |-> val'[k]]
    BY <1>1, NoValFacts
  <2>2. \A d : Of(d)' = {}
    BY <2>1 DEF Of
  <2> QED
    BY <2>1, <2>2, FS_EmptySet DEF ValInv, IsVal, GreenIsOnDisk
<1>2. CASE val' = [NoVal EXCEPT !.pc = "stat", !.parsed = TRUE, !.versions = versions,
                                !.paths = paths, !.left = left]
  <2>1. own \subseteq Shelf /\ own \subseteq Depots
    BY DEF Shelf
  <2>2. \A d \in own : IsFiniteSet(Named(d)) /\ \A p \in Named(d) : p[1] = d
    BY <2>1, NamedFinite
  <2> HIDE DEF paths, left, versions
  <2>3. /\ val'.pc = "stat" /\ val'.left = left /\ val'.paths = paths /\ val'.answer = "none"
        /\ val'.total = 0 /\ val'.cached = 0 /\ val'.whole = {} /\ val'.files = {}
        /\ DOMAIN val' = DOMAIN NoVal /\ val' = [k \in DOMAIN NoVal |-> val'[k]]
    BY <1>2, NoValFacts
  <2> HIDE DEF own
  <2>4. \A d \in Depots : Of(d)' = IF d \in own THEN Named(d) ELSE {}
    BY <2>2, <2>3 DEF Of, paths
  <2>5. \A d \in Depots : IsFiniteSet(Of(d)')
    BY <2>2, <2>4, FS_EmptySet
  <2>6. \A d \in Depots \ left : Of(d)' = {}
    BY <2>4 DEF left
  <2>7. Accounted'
    BY <2>3, <2>6 DEF Accounted
  <2>8. val'.left \subseteq Depots
    BY <2>1, <2>3 DEF left
  <2> QED
    BY <2>3, <2>5, <2>7, <2>8 DEF ValInv, IsVal, GreenIsOnDisk
<1> QED
  BY <1>1, <1>2 DEF ValBegins

LEMMA StatsAccounted ==
    ASSUME ValInv, NEW d \in Depots, ValStats(d)
    PROVE  ValInv'
<1> DEFINE whole == {p \in Of(d) : disk[p] = "whole"}
           files == {p \in Of(d) : disk[p] # "none"}
           in    == Counted(Cardinality(files), Cardinality(whole))
           total  == IF in THEN val.total + Cardinality(Of(d)) ELSE val.total
           cached == IF in THEN val.cached + Cardinality(whole) ELSE val.cached
           included == IF in THEN val.included + 1 ELSE val.included
<1>1. /\ IsVal /\ val.pc = "stat" /\ d \in val.left /\ val.answer = "none" /\ Accounted
      /\ IsFiniteSet(Of(d)) /\ val.left \subseteq Depots
  BY DEF ValInv, ValStats
<1>2. /\ whole \subseteq files /\ files \subseteq Of(d)
      /\ IsFiniteSet(files) /\ IsFiniteSet(whole)
      /\ Cardinality(whole) \in Nat /\ Cardinality(files) \in Nat /\ Cardinality(Of(d)) \in Nat
      /\ Cardinality(whole) <= Cardinality(Of(d))
      /\ Cardinality(whole) = Cardinality(Of(d)) => whole = Of(d)
  <2>1. whole \subseteq files /\ files \subseteq Of(d) /\ whole \subseteq Of(d)
    OBVIOUS
  <2> HIDE DEF whole, files
  <2> QED
    BY <1>1, <2>1, FS_Subset, FS_CardinalityType
<1>3. val' = [val EXCEPT !.left = @ \ {d}, !.total = total, !.cached = cached,
                         !.included = included,
                         !.whole = @ \cup whole, !.files = @ \cup files]
  BY DEF ValStats
<1> HIDE DEF total, cached, included
<1>4. /\ val'.pc = "stat" /\ val'.left = val.left \ {d} /\ val'.paths = val.paths
      /\ val'.answer = "none" /\ val'.total = total /\ val'.cached = cached
      /\ val'.whole = val.whole \cup whole /\ val'.files = val.files \cup files
      /\ DOMAIN val' = DOMAIN NoVal /\ val' = [k \in DOMAIN NoVal |-> val'[k]]
  <2> HIDE DEF whole, files
  <2> QED
    BY <1>1, <1>3, NoValFacts DEF IsVal
<1>5. \A e : Of(e)' = Of(e) /\ (e # d => Of(e) \cap files = {})
  BY <1>4 DEF Of
<1>6. /\ total \in Nat /\ cached \in Nat /\ cached <= total
      /\ cached = total => val.cached = val.total /\ (in => whole = Of(d))
  BY <1>1, <1>2 DEF Accounted, total, cached
<1>7. in \/ files = {}
  <2>1. Cardinality(files) = 0 => files = {}
    BY <1>2, FS_EmptySet
  <2> QED
    BY <1>2, <2>1 DEF Counted
<1> HIDE DEF in
<1>8. cached = total => \A e \in Depots \ val'.left :
                           Of(e) \subseteq val'.whole \/ Of(e) \cap val'.files = {}
  <2>1. SUFFICES ASSUME cached = total, NEW e \in Depots \ val'.left
                 PROVE  Of(e) \subseteq val'.whole \/ Of(e) \cap val'.files = {}
    OBVIOUS
  <2>2. CASE e = d
    <3>1. Of(d) \cap val.files = {}
      BY <1>1 DEF Accounted
    <3>2. whole = Of(d) \/ files = {}
      BY <1>6, <1>7, <2>1
    <3> HIDE DEF whole, files
    <3> QED
      BY <1>4, <2>2, <3>1, <3>2
  <2>3. CASE e # d
    <3>1. Of(e) \subseteq val.whole \/ Of(e) \cap val.files = {}
      BY <1>1, <1>4, <1>6, <2>1, <2>3 DEF Accounted
    <3> HIDE DEF whole, files
    <3> QED
      BY <1>4, <1>5, <2>3, <3>1
  <2> QED
    BY <2>2, <2>3
<1>9. \A e \in val'.left : Of(e) \cap val'.files = {}
  <2> HIDE DEF whole, files
  <2> QED
    BY <1>1, <1>4, <1>5 DEF Accounted
<1>10. cached > 0 => val'.whole # {}
  <2>1. cached > 0 => val.cached > 0 \/ Cardinality(whole) # 0
    BY <1>1, <1>2 DEF cached, Accounted
  <2>2. Cardinality(whole) # 0 => whole # {}
    BY FS_EmptySet
  <2> HIDE DEF whole, files
  <2> QED
    BY <1>1, <1>4, <2>1, <2>2 DEF Accounted
<1>11. Accounted'
  <2> HIDE DEF whole, files
  <2> QED
    BY <1>4, <1>5, <1>6, <1>8, <1>9, <1>10 DEF Accounted
<1>12. \A e \in Depots : IsFiniteSet(Of(e)')
  BY <1>5 DEF ValInv
<1> QED
  <2> HIDE DEF whole, files
  <2> QED
    BY <1>1, <1>4, <1>11, <1>12 DEF ValInv, IsVal, GreenIsOnDisk

LEMMA AnswersGreen ==
    ASSUME ValInv, ValAnswers
    PROVE  ValInv'
<1> DEFINE answer == IF val.included > 0 THEN Classify(val.total, val.cached)
                     ELSE IF val.paths # {} THEN "missing"
                     ELSE IF NothingOfItsOwn(val) THEN "cached" ELSE "error"
<1>1. /\ IsVal /\ val.pc = "stat" /\ val.left = {} /\ Accounted
      /\ val' = [val EXCEPT !.pc = "idle", !.answer = answer]
  BY DEF ValInv, ValAnswers
<1> HIDE DEF answer
<1>2. /\ val'.pc = "idle" /\ val'.left = {} /\ val'.paths = val.paths /\ val'.answer = answer
      /\ val'.whole = val.whole /\ val'.files = val.files /\ val'.versions = val.versions
      /\ DOMAIN val' = DOMAIN NoVal /\ val' = [k \in DOMAIN NoVal |-> val'[k]]
  BY <1>1, NoValFacts DEF IsVal
<1>3. \A d : Of(d)' = Of(d)
  BY <1>2 DEF Of
<1>4. CASE val.included > 0
  <2>1. answer = "cached" => val.cached = val.total /\ val.total # 0
    BY <1>4 DEF answer, Classify
  <2>2. answer = "cached" => /\ val.whole # {}
                             /\ \A d \in Depots : Of(d) \subseteq val.whole \/ Of(d) \cap val.files = {}
    BY <1>1, <2>1 DEF Accounted
  <2> QED
    BY <1>2, <1>3, <2>2 DEF ValInv, IsVal, GreenIsOnDisk
<1>5. CASE ~ (val.included > 0)
  <2>1. answer = "cached" => val.paths = {} /\ val.versions = {}
    BY <1>5 DEF answer, NothingOfItsOwn
  <2>2. answer = "cached" => \A d : Of(d) = {}
    BY <2>1 DEF Of
  <2> QED
    BY <1>2, <1>3, <2>1, <2>2 DEF ValInv, IsVal, GreenIsOnDisk
<1> QED
  BY <1>4, <1>5

LEMMA ValMoves ==
    ASSUME ShelfInv, ValInv, [SteamNext]_steamVars
    PROVE  ValInv'
<1>1. CASE UNCHANGED val
  BY <1>1 DEF ValInv, IsVal, Accounted, Of, GreenIsOnDisk
<1>2. CASE \E d \in Depots : ValStats(d)
  BY <1>2, StatsAccounted
<1>3. CASE \E some \in SUBSET Depots : ValBegins(some)
  BY <1>3, BeginsAccounted
<1>4. CASE ValAnswers
  BY <1>4, AnswersGreen
<1>5. CASE RunStep \/ RunBegins(TRUE) \/ RunDies
  BY <1>1, <1>5 DEF RunStep, RunBegins, RunSaves, RunDies, RunPulls
<1>6. CASE \E d \in Depots : SteamUpdates(d)
  BY <1>1, <1>6 DEF SteamUpdates
<1>7. CASE \E d \in Depots : \E some \in SUBSET Content[d][build[d]] : FetchDies(d, some)
  BY <1>1, <1>7 DEF FetchDies
<1>8. CASE \E some \in SUBSET Depots : FetchesManifests(some) \/ PurgeBegins(some)
  BY <1>1, <1>8 DEF FetchesManifests, PurgeBegins
<1>9. CASE \E p \in Paths : Evicts(p) \/ Empties(p)
  BY <1>1, <1>9 DEF Evicts, Empties
<1>10. CASE \E d \in Depots, stay \in SUBSET purge.left : PurgeUnlinks(d, stay)
  BY <1>1, <1>10 DEF PurgeUnlinks
<1>11. CASE PurgeDeletes \/ PurgeReads \/ PurgeWrites \/ PurgeFails
  BY <1>1, <1>11 DEF PurgeDeletes, PurgeReads, PurgeWrites, PurgeFails
<1>12. CASE UNCHANGED steamVars
  BY <1>1, <1>12 DEF steamVars
<1> QED
  BY <1>2, <1>3, <1>4, <1>5, <1>6, <1>7, <1>8, <1>9, <1>10, <1>11, <1>12 DEF SteamNext

\* A green answer rests on files, whatever was pulled, evicted or purged while
\* the agent looked.
THEOREM GreenIsOnDiskCorrect == SteamSpec => []GreenIsOnDisk
<1>1. SteamInit => ShelfInv
  BY ShelfInit
<1>2. ShelfInv /\ [SteamNext]_steamVars => ShelfInv'
  BY ShelfMoves
<1>3. SteamInit => ValInv
  BY ValInit
<1>4. ShelfInv /\ ValInv /\ [SteamNext]_steamVars => ValInv'
  BY ValMoves
<1>5. ValInv => GreenIsOnDisk
  BY DEF ValInv
<1> QED
  BY <1>1, <1>2, <1>3, <1>4, <1>5, PTL DEF SteamSpec

-----------------------------------------------------------------------------
(* SteamCache: types.                                                      *)

\* The processes' fields, and the files by their paths.
Fields ==
    /\ disk \in [Paths -> {"none", "whole", "empty"}]
    /\ DOMAIN record \subseteq Depots /\ DOMAIN steamRun.memo \subseteq Depots
    /\ DOMAIN purge.memo \subseteq Depots
    /\ steamRun.left \subseteq Depots
    /\ val.pc \in {"idle", "stat"} /\ val.paths \subseteq Paths
    /\ val.total \in Nat /\ val.cached \in Nat /\ val.cached <= val.total
    /\ val.answer \in {"none", "cached", "missing", "partial", "error"}
    /\ purge.pc \in {"idle", "unlink", "read", "write"} /\ purge.left \subseteq Paths
    /\ spent \in [Bounds -> Nat] /\ \A k \in Bounds : spent[k] <= Bound[k]

SteamInv == RecordInv /\ ShelfInv /\ ValInv /\ Fields

LEMMA SteamInvTypes == SteamInv => SteamTypeOK
<1> SUFFICES ASSUME SteamInv PROVE SteamTypeOK
  OBVIOUS
<1>1. ASSUME NEW d \in Depots, NEW i \in DOMAIN shelf[d]
      PROVE  /\ shelf[d][i].gid \in {Gid(d, b) : b \in Builds(d)}
             /\ shelf[d][i].ext \in {"bin", "shas"}
  <2>1. shelf[d] \in Seq(Manifest(d))
    BY DEF SteamInv, ShelfInv
  <2>2. shelf[d][i] \in Manifest(d)
    BY <2>1
  <2> QED
    BY <2>2 DEF Manifest
<1>2. \A k \in Bounds : spent[k] \in 0..Bound[k]
  <2>1. \A k \in Bounds : Bound[k] \in Nat
    BY SteamAssumption DEF Bounds, Bound
  <2> QED
    BY <2>1 DEF SteamInv, Fields
<1> QED
  BY <1>1, <1>2 DEF SteamInv, SteamTypeOK, ShelfInv, RecordInv, Fields

LEMMA FieldsInit == SteamInit => Fields
<1> SUFFICES ASSUME SteamInit PROVE Fields
  OBVIOUS
<1>1. \A k \in Bounds : Bound[k] \in Nat /\ 0 <= Bound[k]
  BY SteamAssumption DEF Bounds, Bound
<1>2. disk \in [Paths -> {"none", "whole", "empty"}]
  BY DEF SteamInit
<1>3. spent \in [Bounds -> Nat] /\ \A k \in Bounds : spent[k] <= Bound[k]
  BY <1>1 DEF SteamInit
<1>4. record = [d \in {} |-> {}] /\ steamRun = NoSteamRun /\ purge = NoPurge /\ val = NoVal
  BY DEF SteamInit
<1> QED
  BY <1>2, <1>3, <1>4 DEF Fields, NoSteamRun, NoPurge, NoVal

LEMMA SpendTyped ==
    ASSUME Fields, NEW kinds, Spend(kinds) \/ UNCHANGED spent
    PROVE  spent' \in [Bounds -> Nat] /\ \A k \in Bounds : spent'[k] <= Bound[k]
<1>1. spent \in [Bounds -> Nat] /\ \A k \in Bounds : spent[k] <= Bound[k] /\ Bound[k] \in Nat
  BY SteamAssumption DEF Fields, Bounds, Bound
<1>2. ASSUME NEW k \in Bounds, Spend(kinds)
      PROVE  spent'[k] \in Nat /\ spent'[k] <= Bound[k]
  <2>1. CASE k \in kinds
    BY <1>1, <1>2, <2>1 DEF Spend
  <2>2. CASE k \notin kinds
    BY <1>1, <1>2, <2>2 DEF Spend
  <2> QED
    BY <2>1, <2>2
<1>3. CASE Spend(kinds)
  <2>1. DOMAIN spent' = Bounds /\ spent' = [k \in Bounds |-> spent'[k]]
    BY <1>3 DEF Spend
  <2> QED
    BY <1>2, <1>3, <2>1
<1> QED
  BY <1>1, <1>3

\* The paths that a depot's manifest names are paths of the disk.
LEMMA NamedOnDisk ==
    ASSUME ShelfInv, NEW d \in Shelf
    PROVE  Named(d) \subseteq Paths
<1>1. Located(d) \in Manifest(d) /\ d \in Depots
  BY LocatedTyped DEF Shelf
<1>2. Located(d).chunks \subseteq Chunks(d)
  <2>1. Located(d).chunks \in Pieces(d)
    BY <1>1 DEF Manifest
  <2> QED
    BY <2>1 DEF Pieces
<1> QED
  BY <1>1, <1>2 DEF Named, Paths, Chunks, Builds

LEMMA FieldsKept ==
    ASSUME Fields, UNCHANGED <<disk, record, steamRun, val, purge>>,
           \E kinds : Spend(kinds) \/ UNCHANGED spent
    PROVE  Fields'
<1>1. spent' \in [Bounds -> Nat] /\ \A k \in Bounds : spent'[k] <= Bound[k]
  BY SpendTyped
<1> QED
  BY <1>1 DEF Fields

LEMMA RunFields ==
    ASSUME SteamInv, RunStep \/ RunBegins(TRUE) \/ RunDies
    PROVE  Fields'
<1>0. Fields /\ IsRun /\ ShelfInv
  BY DEF SteamInv, RecordInv
<1>1. CASE RunBegins(FALSE) \/ RunBegins(TRUE)
  BY <1>0, <1>1 DEF RunBegins, Fields
<1>2. CASE RunSaves
  BY <1>0, <1>2 DEF RunSaves, Fields, NoSteamRun
<1>3. CASE RunDies
  <2>1. spent' \in [Bounds -> Nat] /\ \A k \in Bounds : spent'[k] <= Bound[k]
    BY <1>0, <1>3, SpendTyped DEF RunDies, Harm
  <2> QED
    BY <1>0, <1>3, <2>1 DEF RunDies, Fields, NoSteamRun
<1>4. ASSUME NEW d \in Depots, RunPulls(d)
      PROVE  Fields'
  <2>1. spent' \in [Bounds -> Nat] /\ \A k \in Bounds : spent'[k] <= Bound[k]
    BY <1>0, <1>4, SpendTyped DEF RunPulls, Harm
  <2>2. disk' \in [Paths -> {"none", "whole", "empty"}]
    <3>1. disk \in [Paths -> {"none", "whole", "empty"}]
      BY <1>0 DEF Fields
    <3>2. \/ disk' = disk
          \/ disk' = [p \in Paths |-> IF p \in {Path(d, c) : c \in Content[d][build[d]]}
                                      THEN "whole" ELSE disk[p]]
      BY <1>4 DEF RunPulls
    <3> QED
      BY <3>1, <3>2
  <2>3. steamRun'.left \subseteq Depots /\ DOMAIN steamRun'.memo \subseteq Depots
    <3> DEFINE more == [e \in DOMAIN steamRun.memo \cup {d} |->
                          At(steamRun.memo, e) \cup {g \in {Gid(d, build[d])} : e = d}]
    <3>1. \/ steamRun' = [steamRun EXCEPT !.left = @ \ {d}, !.memo = more]
          \/ steamRun' = [steamRun EXCEPT !.left = @ \ {d}]
      BY <1>4 DEF RunPulls
    <3>2. DOMAIN more \subseteq Depots
      BY <1>0 DEF Fields
    <3>3. steamRun.left \subseteq Depots /\ DOMAIN steamRun.memo \subseteq Depots
      BY <1>0 DEF Fields
    <3> HIDE DEF more
    <3> QED
      BY <1>0, <3>1, <3>2, <3>3 DEF IsRun
  <2> QED
    BY <1>0, <1>4, <2>1, <2>2, <2>3 DEF RunPulls, Fields
<1> QED
  BY <1>1, <1>2, <1>3, <1>4 DEF RunStep

LEMMA ValFields ==
    ASSUME SteamInv, ValInv',
           \/ ValAnswers \/ \E d \in Depots : ValStats(d)
           \/ \E some \in SUBSET Depots : ValBegins(some)
    PROVE  Fields'
<1>0. Fields /\ IsVal /\ ShelfInv /\ ValInv
  BY DEF SteamInv, ValInv
<1>1. CASE ValAnswers
  <2> DEFINE answer == IF val.included > 0 THEN Classify(val.total, val.cached)
                       ELSE IF val.paths # {} THEN "missing"
                       ELSE IF NothingOfItsOwn(val) THEN "cached" ELSE "error"
  <2>1. answer \in {"none", "cached", "missing", "partial", "error"}
    BY DEF Classify
  <2>2. val' = [val EXCEPT !.pc = "idle", !.answer = answer]
    BY <1>1 DEF ValAnswers
  <2> HIDE DEF answer
  <2>3. /\ val'.pc = "idle" /\ val'.answer = answer /\ val'.paths = val.paths
        /\ val'.total = val.total /\ val'.cached = val.cached
    BY <1>0, <2>2, NoValFacts DEF IsVal
  <2> QED
    BY <1>0, <1>1, <2>1, <2>3 DEF ValAnswers, Fields
<1>2. ASSUME NEW d \in Depots, ValStats(d)
      PROVE  Fields'
  <2>1. val'.pc = "stat" /\ val'.answer = val.answer /\ val'.paths = val.paths
    BY <1>0, <1>2, NoValFacts DEF ValStats, IsVal
  <2>2. Accounted'
    BY <2>1 DEF ValInv
  <2> QED
    BY <1>0, <1>2, <2>1, <2>2 DEF ValStats, Accounted, Fields
<1>3. ASSUME NEW unread \in SUBSET Depots, ValBegins(unread)
      PROVE  Fields'
  <2> DEFINE read == Shelf \ unread
             own  == read \ Redist
             paths == UNION {Named(d) : d \in own}
             left  == {d \in own : Named(d) # {}}
             versions == {Located(d).gid : d \in own}
  <2>1. paths \subseteq Paths
    BY <1>0, NamedOnDisk
  <2>2. spent' \in [Bounds -> Nat] /\ \A k \in Bounds : spent'[k] <= Bound[k]
    BY <1>0, <1>3, SpendTyped DEF ValBegins
  <2>3. \/ val' = [NoVal EXCEPT !.answer = "error"]
        \/ val' = [NoVal EXCEPT !.pc = "stat", !.parsed = TRUE, !.versions = versions,
                                !.paths = paths, !.left = left]
    BY <1>3 DEF ValBegins
  <2> HIDE DEF paths, left, versions
  <2>4. /\ val'.pc \in {"idle", "stat"} /\ val'.paths \subseteq Paths
        /\ val'.total = 0 /\ val'.cached = 0 /\ val'.answer \in {"none", "error"}
    BY <2>1, <2>3, NoValFacts
  <2>5. UNCHANGED <<disk, record, steamRun, purge>>
    BY <1>3 DEF ValBegins
  <2> QED
    BY <1>0, <2>2, <2>4, <2>5 DEF Fields
<1> QED
  BY <1>1, <1>2, <1>3

LEMMA PurgeFields ==
    ASSUME SteamInv,
           \/ \E some \in SUBSET Depots : PurgeBegins(some)
           \/ \E d \in Depots, stay \in SUBSET purge.left : PurgeUnlinks(d, stay)
           \/ PurgeDeletes \/ PurgeReads \/ PurgeWrites \/ PurgeFails
    PROVE  Fields'
<1>0. Fields /\ IsPurge /\ ShelfInv
  BY DEF SteamInv, RecordInv
<1>1. NoPurge.pc = "idle" /\ NoPurge.left = {} /\ DOMAIN NoPurge.memo = {}
  BY DEF NoPurge
<1>2. ASSUME NEW unread \in SUBSET Depots, PurgeBegins(unread)
      PROVE  Fields'
  <2> DEFINE own == (Shelf \ unread) \ Redist
             left == UNION {Named(d) : d \in own}
  <2>1. left \subseteq Paths
    BY <1>0, NamedOnDisk
  <2>2. spent' \in [Bounds -> Nat] /\ \A k \in Bounds : spent'[k] <= Bound[k]
    BY <1>0, <1>2, SpendTyped DEF PurgeBegins
  <2>3. purge' = [NoPurge EXCEPT !.pc = "unlink", !.left = left, !.depots = own]
    BY <1>2 DEF PurgeBegins
  <2> HIDE DEF left, own
  <2>4. purge'.pc = "unlink" /\ purge'.left = left /\ purge'.memo = NoPurge.memo
    BY <2>3 DEF NoPurge
  <2> QED
    BY <1>0, <1>1, <1>2, <2>1, <2>2, <2>4 DEF PurgeBegins, Fields
<1>3. ASSUME NEW d \in Depots, NEW stay \in SUBSET purge.left, PurgeUnlinks(d, stay)
      PROVE  Fields'
  <2> DEFINE there == {p \in purge.left : p[1] = d /\ disk[p] # "none"}
             left == {p \in purge.left : p[1] # d}
             deleted == purge.deleted \/ there # stay
  <2>1. spent' \in [Bounds -> Nat] /\ \A k \in Bounds : spent'[k] <= Bound[k]
    BY <1>0, <1>3, SpendTyped DEF PurgeUnlinks, Harm
  <2>2. disk' \in [Paths -> {"none", "whole", "empty"}]
    BY <1>0, <1>3 DEF PurgeUnlinks, Fields
  <2>3. purge' = [purge EXCEPT !.left = left, !.deleted = deleted]
    BY <1>3 DEF PurgeUnlinks
  <2>4. left \subseteq purge.left
    OBVIOUS
  <2> HIDE DEF left, deleted
  <2>5. purge'.pc = purge.pc /\ purge'.left = left /\ purge'.memo = purge.memo
    BY <1>0, <2>3 DEF IsPurge
  <2> QED
    BY <1>0, <1>3, <2>1, <2>2, <2>4, <2>5 DEF PurgeUnlinks, Fields
<1>4. CASE PurgeDeletes
  <2>1. purge' = NoPurge \/ purge' = [purge EXCEPT !.pc = "read"]
    BY <1>4 DEF PurgeDeletes
  <2>2. /\ purge'.pc \in {"idle", "read"} /\ purge'.left \subseteq Paths
        /\ DOMAIN purge'.memo \subseteq Depots
    BY <1>0, <1>1, <2>1 DEF IsPurge, Fields
  <2> QED
    BY <1>0, <1>4, <2>2 DEF PurgeDeletes, Fields
<1>5. CASE PurgeReads
  <2> DEFINE memo == Cleared(record, purge.depots)
  <2>1. DOMAIN memo \subseteq Depots
    BY <1>0 DEF Cleared, Fields
  <2>2. purge' = [purge EXCEPT !.pc = "write", !.memo = memo]
    BY <1>5 DEF PurgeReads
  <2> HIDE DEF memo
  <2>3. purge'.pc = "write" /\ purge'.left = purge.left /\ purge'.memo = memo
    BY <1>0, <2>2 DEF IsPurge
  <2> QED
    BY <1>0, <1>5, <2>1, <2>3 DEF PurgeReads, Fields
<1>6. CASE PurgeWrites
  BY <1>0, <1>1, <1>6 DEF PurgeWrites, Fields
<1>7. CASE PurgeFails
  <2>1. spent' \in [Bounds -> Nat] /\ \A k \in Bounds : spent'[k] <= Bound[k]
    BY <1>0, <1>7, SpendTyped DEF PurgeFails, Harm
  <2> QED
    BY <1>0, <1>1, <1>7, <2>1 DEF PurgeFails, Fields
<1> QED
  BY <1>2, <1>3, <1>4, <1>5, <1>6, <1>7

LEMMA FieldsMove ==
    ASSUME SteamInv, ValInv', [SteamNext]_steamVars
    PROVE  Fields'
<1>0. Fields
  BY DEF SteamInv
<1>1. CASE UNCHANGED steamVars
  BY <1>0, <1>1 DEF steamVars, Fields
<1>2. CASE RunStep \/ RunBegins(TRUE) \/ RunDies
  BY <1>2, RunFields
<1>3. CASE \/ ValAnswers \/ \E d \in Depots : ValStats(d)
           \/ \E some \in SUBSET Depots : ValBegins(some)
  BY <1>3, ValFields
<1>4. CASE \/ \E some \in SUBSET Depots : PurgeBegins(some)
           \/ \E d \in Depots, stay \in SUBSET purge.left : PurgeUnlinks(d, stay)
           \/ PurgeDeletes \/ PurgeReads \/ PurgeWrites \/ PurgeFails
  BY <1>4, PurgeFields
<1>5. CASE \/ \E d \in Depots : SteamUpdates(d)
           \/ \E d \in Depots : \E some \in SUBSET Content[d][build[d]] : FetchDies(d, some)
           \/ \E some \in SUBSET Depots : FetchesManifests(some)
  BY <1>0, <1>5, FieldsKept DEF SteamUpdates, FetchDies, FetchesManifests, Harm
<1>6. ASSUME NEW p \in Paths, Evicts(p) \/ Empties(p)
      PROVE  Fields'
  <2>1. spent' \in [Bounds -> Nat] /\ \A k \in Bounds : spent'[k] <= Bound[k]
    BY <1>0, <1>6, SpendTyped DEF Evicts, Empties, Harm
  <2>2. disk' \in [Paths -> {"none", "whole", "empty"}]
    BY <1>0, <1>6 DEF Evicts, Empties, Fields
  <2> QED
    BY <1>0, <1>6, <2>1, <2>2 DEF Evicts, Empties, Fields
<1> QED
  BY <1>1, <1>2, <1>3, <1>4, <1>5, <1>6 DEF SteamNext

\* SteamPrefill's record, the manifests at hand, the files and the two calls of
\* the agent are of their types, and a count of files never exceeds what was
\* looked for.
THEOREM SteamTypeCorrect == SteamSpec => []SteamTypeOK
<1>1. SteamInit => SteamInv
  BY RecordInit, ShelfInit, ValInit, FieldsInit DEF SteamInv
<1>2. SteamInv /\ [SteamNext]_steamVars => SteamInv'
  BY RecordMoves, ShelfMoves, ValMoves, FieldsMove DEF SteamInv
<1> QED
  BY <1>1, <1>2, SteamInvTypes, PTL DEF SteamSpec

-----------------------------------------------------------------------------
(* SweepMC: the control plane's part and the agent's.                      *)

\* Whichever of the two a behaviour is about, its state is well typed.
THEOREM BothTypeCorrect == BothSpec => []BothTypeOK
<1>1. BothInit => Init /\ SteamInit
  BY DEF BothInit
<1>2. [SweepPart \/ SteamPart \/ SteamRests]_bothVars => [Next]_vars /\ [SteamNext]_steamVars
  BY DEF SweepPart, SteamPart, SteamRests, bothVars
<1>3. BothSpec => Spec /\ SteamSpec
  BY <1>1, <1>2, PTL DEF BothSpec, Spec, SteamSpec
<1>4. TypeOK /\ SteamTypeOK => BothTypeOK
  BY DEF BothTypeOK
<1> QED
  BY <1>3, <1>4, TypeCorrect, SteamTypeCorrect, PTL
=============================================================================
