------------------------------ MODULE SteamCache ------------------------------
(***************************************************************************)
(* What one Steam app has in the cache and what the agent says of it.      *)
(* SteamPrefill (external) downloads depots and keeps a record of those it *)
(* has; the manifest fetcher (platform/steam/manifest_fetcher.py) archives *)
(* .shas files without downloading; validate and purge (agent/routers/     *)
(* steam.py) locate one manifest per depot (agent/manifest_locator.py),    *)
(* parse it (agent/manifest_parser.py), derive the cache files it names    *)
(* (validator/cache_key.py) and stat or unlink them (validator/            *)
(* disk_stat.py); a purge then clears SteamPrefill's record                *)
(* (platform/steam/downloaded_depots.py).                                  *)
(***************************************************************************)
EXTENDS Naturals, FiniteSets, Sequences, SequencesExt

CONSTANTS
    App,       \* the app id
    Content,   \* per depot id, the chunk set of each of its builds
    Skipped,   \* depots SteamPrefill does not select (other languages)
    Redist,    \* settings.steam_shared_redist_depots
    MaxBuilds, \* bound: manifest fetches
    MaxChecks, \* bound: validates and purges
    MaxHarm    \* bound: evictions, damaged files, failing calls

Depots == DOMAIN Content

ASSUME SteamAssumption ==
    /\ App \notin Depots /\ Skipped \subseteq Depots /\ Redist \subseteq Depots
    /\ \A d \in Depots : /\ Len(Content[d]) \in Nat \ {0}
                         /\ \A b \in 1..Len(Content[d]) : IsFiniteSet(Content[d][b])
    /\ {MaxBuilds, MaxChecks, MaxHarm} \subseteq Nat

VARIABLES
    build,   \* per depot, the build the store offers
    shelf,   \* per depot, the manifests at hand, oldest modification time first
    disk,    \* the chunk files, by cache path: "whole" or, when empty, "empty"
    record,  \* successfullyDownloadedDepots.json: builds by depot id
    steamRun,     \* the SteamPrefill run under way
    val,     \* the /v1/steam/validate under way or last answered
    purge,   \* the /v1/steam/purge under way
    owed,    \* history: depots purged, to come back with the next run
    spent    \* how often each bound was used

steamVars == <<build, shelf, disk, record, steamRun, val, purge, owed, spent>>

Gid(d, b) == <<d, b>>

\* steam_chunk_uri and cache_path: a chunk is cached by depot and id.
Path(d, c) == <<d, c>>

Paths == UNION {{Path(d, c) : c \in UNION {Content[d][b] : b \in 1..Len(Content[d])}} : d \in Depots}

NoSteamRun == [on |-> FALSE, force |-> FALSE, left |-> {}, memo |-> [d \in {} |-> {}]]

NoVal == [pc |-> "idle", left |-> {}, paths |-> {}, versions |-> {}, parsed |-> FALSE,
          total |-> 0, cached |-> 0, included |-> 0, answer |-> "none",
          whole |-> {}, files |-> {}]

NoPurge == [pc |-> "idle", left |-> {}, depots |-> {}, deleted |-> FALSE,
            memo |-> [d \in {} |-> {}]]

Bounds == {"builds", "checks", "harm"}

Bound == [builds |-> MaxBuilds, checks |-> MaxChecks, harm |-> MaxHarm]

SteamInit ==
    /\ build = [d \in Depots |-> 1] /\ shelf = [d \in Depots |-> <<>>]
    /\ disk = [p \in Paths |-> "none"]
    /\ record = [d \in {} |-> {}]
    /\ steamRun = NoSteamRun /\ val = NoVal /\ purge = NoPurge
    /\ owed = {} /\ spent = [k \in Bounds |-> 0]

Spend(kinds) ==
    /\ \A k \in kinds : spent[k] < Bound[k]
    /\ spent' = [k \in Bounds |-> IF k \in kinds THEN spent[k] + 1 ELSE spent[k]]

Harm == Spend({"harm"})

At(f, d) == IF d \in DOMAIN f THEN f[d] ELSE {}

-----------------------------------------------------------------------------
(* SteamPrefill: run by the host's cron and by the prefill jobs.           *)

SteamUpdates(d) ==
    /\ build[d] < Len(Content[d])
    /\ build' = [build EXCEPT ![d] = @ + 1]
    /\ UNCHANGED <<shelf, disk, record, steamRun, val, purge, owed, spent>>

\* It reads its record once.  --force looks at no record.
RunBegins(force) ==
    /\ ~steamRun.on
    /\ steamRun' = [on |-> TRUE, force |-> force, left |-> Depots \ Skipped, memo |-> record]
    /\ UNCHANGED <<build, shelf, disk, record, val, purge, owed, spent>>

\* A manifest file: two of the same name are one file.
Shelved(d, gid, ext, chunks) ==
    IF \E i \in DOMAIN shelf[d] : shelf[d][i].gid = gid /\ shelf[d][i].ext = ext THEN shelf
    ELSE [shelf EXCEPT ![d] = Append(@, [gid |-> gid, ext |-> ext, chunks |-> chunks])]

\* A depot that is not recorded is pulled; its manifest, which reaches the
\* archive, may have been cut short: the parser then returns the chunks that it
\* came by, or none.
RunPulls(d) ==
    LET gid == Gid(d, build[d])
    IN /\ steamRun.on /\ d \in steamRun.left
       /\ IF steamRun.force \/ gid \notin At(steamRun.memo, d)
          THEN /\ disk' = [p \in Paths |-> IF p \in {Path(d, c) : c \in Content[d][build[d]]}
                                           THEN "whole" ELSE disk[p]]
               /\ owed' = owed \ {d}
               /\ steamRun' = [steamRun EXCEPT !.left = @ \ {d},
                             !.memo = [e \in DOMAIN @ \cup {d} |->
                                         At(@, e) \cup {g \in {gid} : e = d}]]
               /\ \/ shelf' = Shelved(d, gid, "bin", Content[d][build[d]]) /\ UNCHANGED spent
                  \/ /\ Harm
                     /\ \E some \in SUBSET Content[d][build[d]] :
                          shelf' = Shelved(d, gid, "bin", some)
          ELSE steamRun' = [steamRun EXCEPT !.left = @ \ {d}] /\ UNCHANGED <<shelf, disk, owed, spent>>
       /\ UNCHANGED <<build, record, val, purge>>

\* At the end the record is written back from memory: what the agent cleared
\* meanwhile is there again, the one order downloaded_depots.py gives up.
RunSaves ==
    /\ steamRun.on /\ steamRun.left = {}
    /\ record' = steamRun.memo
    /\ steamRun' = NoSteamRun
    /\ UNCHANGED <<build, shelf, disk, val, purge, owed, spent>>

RunDies ==
    /\ steamRun.on /\ Harm /\ steamRun' = NoSteamRun
    /\ UNCHANGED <<build, shelf, disk, record, val, purge, owed>>

-----------------------------------------------------------------------------
(* The manifest fetcher.                                                   *)

\* login_from_session, the helper run and fetch_all: the depots of the app
\* whose manifest the helper delivered before it stopped, all of the session,
\* part of it, or none of it; an empty manifest is never written.
FetchesManifests(depots) ==
    /\ depots # {} /\ Spend({"builds"})
    /\ shelf' = [d \in Depots |->
         IF d \in depots /\ Content[d][build[d]] # {}
         THEN Shelved(d, Gid(d, build[d]), "shas", Content[d][build[d]])[d] ELSE shelf[d]]
    /\ UNCHANGED <<build, disk, record, steamRun, val, purge, owed>>

\* _write_shas writes in place: a death leaves what was written by then under the
\* final name.
FetchDies(d, some) ==
    /\ Harm
    /\ shelf' = Shelved(d, Gid(d, build[d]), "shas", some)
    /\ shelf' # shelf
    /\ UNCHANGED <<build, disk, record, steamRun, val, purge, owed>>

-----------------------------------------------------------------------------
(* nginx and the disk.                                                     *)

Evicts(p) ==
    /\ disk[p] # "none" /\ Harm /\ disk' = [disk EXCEPT ![p] = "none"]
    /\ UNCHANGED <<build, shelf, record, steamRun, val, purge, owed>>

\* A file of size zero: a write that was cut short.
Empties(p) ==
    /\ disk[p] = "whole" /\ Harm /\ disk' = [disk EXCEPT ![p] = "empty"]
    /\ UNCHANGED <<build, shelf, record, steamRun, val, purge, owed>>

-----------------------------------------------------------------------------
(* Locating and parsing.                                                   *)

\* _prefilled_gids: SteamPrefill's record, looked up by the app id.
PrefilledGids == At(record, App)

\* locate_manifest_bins, one depot: among the manifests whose build is pinned,
\* when there are any, the newest by modification time.
Located(d) ==
    LET pinned == {i \in DOMAIN shelf[d] : shelf[d][i].gid \in PrefilledGids}
    IN  shelf[d][Max(IF pinned = {} THEN DOMAIN shelf[d] ELSE pinned)]

Shelf == {d \in Depots : shelf[d] # <<>>}

\* _steam_chunk_paths: no shared redistributable names a path.
Named(d) == IF d \in Redist THEN {} ELSE {Path(d, c) : c \in Located(d).chunks}

-----------------------------------------------------------------------------
(* /v1/steam/validate.                                                     *)

\* The manifests are read in one go; one that cannot be read is passed over.
ValBegins(unread) ==
    /\ val.pc = "idle" /\ unread \subseteq Shelf
    /\ Spend({"checks"} \cup {k \in {"harm"} : unread # {}})
    /\ LET read == Shelf \ unread
           own  == read \ Redist
       IN val' = IF read = {} THEN [NoVal EXCEPT !.answer = "error"]
                 ELSE [NoVal EXCEPT !.pc = "stat", !.parsed = TRUE,
                         !.versions = {Located(d).gid : d \in own},
                         !.paths = UNION {Named(d) : d \in own},
                         !.left = {d \in own : Named(d) # {}}]
    /\ UNCHANGED <<build, shelf, disk, record, steamRun, purge, owed>>

Of(d) == {p \in val.paths : p[1] = d}

\* A depot without a single file was never prefilled: it does not count.
Counted(present, cached) == present > 0

\* validate_chunks_scoped of one depot.
ValStats(d) ==
    LET whole == {p \in Of(d) : disk[p] = "whole"}
        files == {p \in Of(d) : disk[p] # "none"}
        in    == Counted(Cardinality(files), Cardinality(whole))
    IN /\ val.pc = "stat" /\ d \in val.left
       /\ val' = [val EXCEPT !.left = @ \ {d},
                    !.total = IF in THEN @ + Cardinality(Of(d)) ELSE @,
                    !.cached = IF in THEN @ + Cardinality(whole) ELSE @,
                    !.included = IF in THEN @ + 1 ELSE @,
                    !.whole = @ \cup whole, !.files = @ \cup files]
       /\ UNCHANGED <<build, shelf, disk, record, steamRun, purge, owed, spent>>

Classify(total, cached) ==
    IF total = 0 THEN "error"
    ELSE IF cached = total THEN "cached"
    ELSE IF cached = 0 THEN "missing" ELSE "partial"

\* Mutant of NothingOfItsOwn: whatever could be read counts.
NothingOfItsOwnIfParsed(v) == v.parsed

\* Manifests that parsed, all of them shared redistributables.
NothingOfItsOwn(v) == v.parsed /\ v.versions = {}

ValAnswers ==
    /\ val.pc = "stat" /\ val.left = {}
    /\ val' = [val EXCEPT !.pc = "idle",
                 !.answer = IF val.included > 0 THEN Classify(val.total, val.cached)
                            ELSE IF val.paths # {} THEN "missing"
                            ELSE IF NothingOfItsOwn(val) THEN "cached" ELSE "error"]
    /\ UNCHANGED <<build, shelf, disk, record, steamRun, purge, owed, spent>>

-----------------------------------------------------------------------------
(* /v1/steam/purge.                                                        *)

\* The same enumeration: the depots whose manifest was read.
PurgeBegins(unread) ==
    /\ purge.pc = "idle" /\ unread \subseteq Shelf
    /\ Spend({"checks"} \cup {k \in {"harm"} : unread # {}})
    /\ LET own == (Shelf \ unread) \ Redist
       IN purge' = [NoPurge EXCEPT !.pc = "unlink",
                      !.left = UNION {Named(d) : d \in own}, !.depots = own]
    /\ UNCHANGED <<build, shelf, disk, record, steamRun, val, owed>>

\* purge_chunks, the files of one depot: what is not there is passed over, what
\* cannot go is counted and stays.
PurgeUnlinks(d, stay) ==
    LET there == {p \in purge.left : p[1] = d /\ disk[p] # "none"}
    IN /\ purge.pc = "unlink" /\ \E p \in purge.left : p[1] = d
       /\ stay \subseteq there
       /\ IF stay = {} THEN UNCHANGED spent ELSE Harm
       /\ disk' = [p \in Paths |-> IF p \in there \ stay THEN "none" ELSE disk[p]]
       /\ purge' = [purge EXCEPT !.left = {p \in @ : p[1] # d},
                                 !.deleted = @ \/ there # stay]
       /\ UNCHANGED <<build, shelf, record, steamRun, val, owed>>

\* The record is left alone when nothing was deleted.
PurgeDeletes ==
    /\ purge.pc = "unlink" /\ purge.left = {}
    /\ purge' = IF purge.deleted THEN [purge EXCEPT !.pc = "read"] ELSE NoPurge
    /\ UNCHANGED <<build, shelf, disk, record, steamRun, val, owed, spent>>

\* Mutant of Cleared: the record is taken to be keyed by app id.
ClearedByApp(memo, depots) == [d \in DOMAIN memo \ {App} |-> memo[d]]

\* without_depots.
Cleared(memo, depots) == [d \in DOMAIN memo \ depots |-> memo[d]]

\* clear_downloaded_depots: read and pruned ...
PurgeReads ==
    /\ purge.pc = "read"
    /\ purge' = [purge EXCEPT !.pc = "write", !.memo = Cleared(record, purge.depots)]
    /\ UNCHANGED <<build, shelf, disk, record, steamRun, val, owed, spent>>

\* ... and replaced.  A run under way when it is replaced is the race that the
\* code accepts: nothing is owed then.
PurgeWrites ==
    /\ purge.pc = "write"
    /\ record' = purge.memo
    /\ owed' = IF steamRun.on THEN owed ELSE owed \cup (purge.depots \ Skipped)
    /\ purge' = NoPurge
    /\ UNCHANGED <<build, shelf, disk, steamRun, val, spent>>

\* The record cannot be read or replaced; or the agent dies under the request.
PurgeFails ==
    /\ purge.pc # "idle" /\ Harm /\ purge' = NoPurge
    /\ UNCHANGED <<build, shelf, disk, record, steamRun, val, owed>>

-----------------------------------------------------------------------------
RunStep == RunBegins(FALSE) \/ RunSaves \/ (\E d \in Depots : RunPulls(d))

SteamNext ==
    \/ RunStep \/ RunBegins(TRUE) \/ RunDies
    \/ \E d \in Depots : SteamUpdates(d) \/ ValStats(d)
    \/ \E d \in Depots : \E some \in SUBSET Content[d][build[d]] : FetchDies(d, some)
    \/ \E some \in SUBSET Depots :
         FetchesManifests(some) \/ ValBegins(some) \/ PurgeBegins(some)
    \/ \E p \in Paths : Evicts(p) \/ Empties(p)
    \/ \E d \in Depots, stay \in SUBSET purge.left : PurgeUnlinks(d, stay)
    \/ ValAnswers
    \/ PurgeDeletes \/ PurgeReads \/ PurgeWrites \/ PurgeFails

SteamSpec == SteamInit /\ [][SteamNext]_steamVars

-----------------------------------------------------------------------------
Builds(d) == 1..Len(Content[d])

SteamTypeOK ==
    /\ build \in [Depots -> Nat] /\ \A d \in Depots : build[d] \in Builds(d)
    /\ \A d \in Depots : \A i \in DOMAIN shelf[d] :
         /\ shelf[d][i].gid \in {Gid(d, b) : b \in Builds(d)}
         /\ shelf[d][i].ext \in {"bin", "shas"}
    /\ disk \in [Paths -> {"none", "whole", "empty"}]
    /\ DOMAIN record \subseteq Depots /\ DOMAIN steamRun.memo \subseteq Depots
    /\ steamRun.left \subseteq Depots /\ owed \subseteq Depots
    /\ val.pc \in {"idle", "stat"} /\ val.paths \subseteq Paths
    /\ val.cached <= val.total
    /\ val.answer \in {"none", "cached", "missing", "partial", "error"}
    /\ purge.pc \in {"idle", "unlink", "read", "write"} /\ purge.left \subseteq Paths
    /\ \A k \in Bounds : spent[k] \in 0..Bound[k]

\* A green answer rests on files: every chunk that the manifests of the app
\* name was there and not empty when it was looked at, but for depots of which
\* not one file was there; and at least one was there, unless the app has
\* nothing but shared redistributables.  A manifest that names nothing is
\* never enough (agent/routers/steam.py:327-342, 519-546).
GreenIsOnDisk ==
    val.answer = "cached" =>
        /\ \A d \in Depots : Of(d) \subseteq val.whole \/ Of(d) \cap val.files = {}
        /\ val.whole # {} \/ val.versions = {}

\* A purged game comes back: SteamPrefill skips what it has on record, and what
\* a purge deleted is not on it, so that the next run downloads it again.  Only
\* a run that was under way is excepted, which writes its memory back
\* (agent/routers/steam.py:580-592, downloaded_depots.py:1-23).
PurgedComesBack == \A d \in owed : Gid(d, build[d]) \notin At(record, d)

\* Where SteamPrefill's record names a manifest at hand, that manifest is the
\* one validated, not a newer one of a build that is not downloaded
\* (agent/manifest_locator.py:57-66).
PinnedToPrefilled ==
    \A d \in Shelf :
        (\E i \in DOMAIN shelf[d] : shelf[d][i].gid \in At(record, d))
            => Located(d).gid \in At(record, d)
=============================================================================
