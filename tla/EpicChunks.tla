------------------------------ MODULE EpicChunks ------------------------------
(***************************************************************************)
(* What one Epic game has in the cache.  A prefill fetches a fresh         *)
(* manifest and stores it (jobs/handlers/prefill.py, platform/epic/        *)
(* manifest.py), the agent pulls its chunks through lancache (agent/       *)
(* routers/pull.py, agent/puller.py), and validate and purge take the      *)
(* stored row, whose bytes say where each chunk would be cached            *)
(* (validator/disk_stat.py, agent/routers/epic.py).                        *)
(***************************************************************************)
EXTENDS Naturals, FiniteSets

CONSTANTS
    Offers,     \* manifests Epic may serve: [format, base, chunks]
    Hosts,      \* CDN hosts
    Identifier, \* per host, the name lancache caches it under
    Known,      \* settings.epic_cache_identifiers
    Attempts,   \* settings.prefill_chunk_max_attempts
    Slots,      \* settings.chunk_concurrency
    MaxPulls,   \* bound: prefills
    MaxMishaps  \* bound: failed requests, evictions, lost answers

NoBase == "none"

EpicChunkIds == UNION {o.chunks : o \in Offers}

Formats == {o.format : o \in Offers}

Bases == {o.base : o \in Offers}

ASSUME EpicAssumption ==
    /\ Offers \subseteq [format : Nat, base : STRING \ {NoBase}, chunks : SUBSET EpicChunkIds]
    /\ Identifier \in [Hosts -> Known]
    /\ Attempts > 0 /\ Slots > 0
    /\ {Attempts, Slots, MaxPulls, MaxMishaps} \subseteq Nat

VARIABLES
    rows,    \* the manifests rows of the game, by format version
    files,   \* lancache: <<identifier, base, chunk>>
    pull,    \* the prefill under way
    lookup,  \* the validate or purge under way, with the row it read
    told,    \* the last answer of a validate
    sound,   \* history: a prefill ended well and nothing was lost since it began
    pulls, mishaps

epicVars == <<rows, files, pull, lookup, told, sound, pulls, mishaps>>

NoManifest == [base |-> NoBase, chunks |-> {}, at |-> 0]

NoPull == [pc |-> "idle", host |-> {}, base |-> NoBase, wait |-> {}, tries |-> [c \in {} |-> 0],
           ok |-> {}, failed |-> {}, lost |-> FALSE]

NoLookup == [pc |-> "idle", base |-> NoBase, left |-> {}, hit |-> {}, miss |-> {},
             sure |-> FALSE]

\* At first no row, or one from before migration 0010, without a base.
EpicInit ==
    /\ rows \in [Formats -> {NoManifest, [NoManifest EXCEPT !.at = 1]}]
    /\ files = {} /\ pull = NoPull /\ lookup = NoLookup
    /\ told = "none" /\ sound = FALSE /\ pulls = 0 /\ mishaps = 0

Mishap == mishaps < MaxMishaps /\ mishaps' = mishaps + 1

-----------------------------------------------------------------------------
(* The prefill.                                                            *)

\* fetch_manifest and the upsert, whose key is the game and the FORMAT version:
\* a new build of the same format takes the place of the old one.  fetched_at
\* is later than that of every row there is.
EpicFetches(offer, h) ==
    /\ pull.pc = "idle" /\ pulls < MaxPulls
    /\ pulls' = pulls + 1
    /\ rows' = [rows EXCEPT ![offer.format] =
                  [base |-> offer.base, chunks |-> offer.chunks, at |-> pulls + 2]]
    /\ pull' = [NoPull EXCEPT !.pc = "pull", !.host = {h}, !.base = offer.base,
                              !.wait = offer.chunks]
    /\ sound' = FALSE
    /\ UNCHANGED <<files, lookup, told, mishaps>>

Busy == DOMAIN pull.tries

\* A slot of the semaphore.
ChunkStarts(c) ==
    /\ pull.pc = "pull" /\ c \in pull.wait /\ Cardinality(Busy) < Slots
    /\ pull' = [pull EXCEPT !.wait = @ \ {c},
                  !.tries = [d \in Busy \cup {c} |-> IF d = c THEN 0 ELSE @[d]]]
    /\ UNCHANGED <<rows, files, lookup, told, sound, pulls, mishaps>>

Recorded(c, ok) ==
    [pull EXCEPT !.tries = [d \in Busy \ {c} |-> @[d]],
                 !.ok = @ \cup {d \in {c} : ok}, !.failed = @ \cup {d \in {c} : ~ok}]

CachedAs(h, base, c) == <<Identifier[h], base, c>>

\* 2xx, and the body was read to its end: lancache has the chunk.
ChunkArrives(c) ==
    /\ c \in Busy
    /\ files' = files \cup {CachedAs(h, pull.base, c) : h \in pull.host}
    /\ pull' = Recorded(c, TRUE)
    /\ UNCHANGED <<rows, lookup, told, sound, pulls, mishaps>>

\* 4xx: not tried again.
ChunkRefused(c) ==
    /\ c \in Busy /\ Mishap
    /\ pull' = Recorded(c, FALSE)
    /\ UNCHANGED <<rows, files, lookup, told, sound, pulls>>

\* 5xx, or the request breaks off: tried again, up to the last attempt.
ChunkBreaks(c) ==
    /\ c \in Busy /\ Mishap
    /\ pull' = IF pull.tries[c] + 1 < Attempts THEN [pull EXCEPT !.tries[c] = @ + 1]
               ELSE Recorded(c, FALSE)
    /\ UNCHANGED <<rows, files, lookup, told, sound, pulls>>

\* The tally decides: chunks_failed is what is not ok.  A chunk evicted by then
\* is not noticed.
PullEnds ==
    /\ pull.pc = "pull" /\ pull.wait = {} /\ Busy = {}
    /\ sound' = (pull.failed = {} /\ pull.ok # {} /\ ~pull.lost)
    /\ pull' = NoPull
    /\ UNCHANGED <<rows, files, lookup, told, pulls, mishaps>>

\* The control plane stops polling, or the agent dies: the job failed, and the
\* agent may or may not go on with what is left.
PullLost ==
    /\ pull.pc = "pull" /\ Mishap
    /\ \E some \in SUBSET (pull.wait \cup Busy) :
         files' = files \cup {CachedAs(h, pull.base, c) : h \in pull.host, c \in some}
    /\ pull' = NoPull
    /\ UNCHANGED <<rows, lookup, told, sound, pulls>>

-----------------------------------------------------------------------------
(* Validate and purge.                                                     *)

Stored == {f \in Formats : rows[f].at > 0}

\* ORDER BY fetched_at DESC LIMIT 1.
LatestRow == rows[CHOOSE f \in Stored : \A g \in Stored : rows[f].at >= rows[g].at]

\* Mutant of Candidates: one identifier stands for all.
OneCandidate(base, c) == {<<CHOOSE i \in Known : TRUE, base, c>>}

\* One path per configured identifier: which CDN host served is not stored.
Candidates(base, c) == {<<i, base, c>> : i \in Known}

Usable == Stored # {} /\ LatestRow.base # NoBase

EpicClassify(total, cached) ==
    IF total = 0 THEN "error"
    ELSE IF cached = total THEN "cached"
    ELSE IF cached = 0 THEN "missing" ELSE "partial"

\* The row is read, then the agent is asked.
LookupBegins(purpose) ==
    /\ lookup.pc = "idle"
    /\ IF Usable
       THEN /\ lookup' = [NoLookup EXCEPT !.pc = purpose, !.base = LatestRow.base,
                            !.left = LatestRow.chunks, !.sure = sound]
            /\ UNCHANGED told
       ELSE told' = "error" /\ UNCHANGED lookup
    /\ UNCHANGED <<rows, files, pull, sound, pulls, mishaps>>

\* validate_chunks_any: any candidate will do.
EpicStats(c) ==
    /\ lookup.pc = "validate" /\ c \in lookup.left
    /\ lookup' = IF Candidates(lookup.base, c) \cap files # {}
                 THEN [lookup EXCEPT !.left = @ \ {c}, !.hit = @ \cup {c}]
                 ELSE [lookup EXCEPT !.left = @ \ {c}, !.miss = @ \cup {c}]
    /\ UNCHANGED <<rows, files, pull, told, sound, pulls, mishaps>>

EpicAnswers ==
    /\ lookup.pc = "validate" /\ lookup.left = {}
    /\ told' = EpicClassify(Cardinality(lookup.hit \cup lookup.miss), Cardinality(lookup.hit))
    /\ lookup' = NoLookup
    /\ UNCHANGED <<rows, files, pull, sound, pulls, mishaps>>

\* purge_chunks, the candidates of one chunk; what cannot go stays.
EpicUnlinks(c) ==
    /\ lookup.pc = "purge" /\ c \in lookup.left
    /\ \/ files' = files \ Candidates(lookup.base, c) /\ UNCHANGED mishaps
       \/ Mishap /\ UNCHANGED files
    /\ sound' = FALSE /\ pull' = [pull EXCEPT !.lost = pull.pc = "pull"]
    /\ lookup' = [lookup EXCEPT !.left = @ \ {c}]
    /\ UNCHANGED <<rows, told, pulls>>

\* The files are gone; purge_handler measures what is left (Sweep).
EpicPurged ==
    /\ lookup.pc = "purge" /\ lookup.left = {}
    /\ lookup' = NoLookup
    /\ UNCHANGED <<rows, files, pull, told, sound, pulls, mishaps>>

\* lancache makes room.
EpicEvicts(f) ==
    /\ f \in files /\ Mishap
    /\ files' = files \ {f}
    /\ sound' = FALSE /\ lookup' = [lookup EXCEPT !.sure = FALSE]
    /\ pull' = [pull EXCEPT !.lost = pull.pc = "pull"]
    /\ UNCHANGED <<rows, told, pulls>>

-----------------------------------------------------------------------------
EpicNext ==
    \/ \E offer \in Offers, h \in Hosts : EpicFetches(offer, h)
    \/ \E c \in EpicChunkIds :
         \/ ChunkStarts(c) \/ ChunkArrives(c) \/ ChunkRefused(c) \/ ChunkBreaks(c)
         \/ EpicStats(c) \/ EpicUnlinks(c)
    \/ PullEnds \/ PullLost \/ EpicAnswers \/ EpicPurged
    \/ \E purpose \in {"validate", "purge"} : LookupBegins(purpose)
    \/ \E f \in files : EpicEvicts(f)

EpicSpec == EpicInit /\ [][EpicNext]_epicVars

-----------------------------------------------------------------------------
EpicTypeOK ==
    /\ rows \in [Formats -> [base : Bases \cup {NoBase}, chunks : SUBSET EpicChunkIds,
                             at : 0..(MaxPulls + 1)]]
    /\ files \subseteq {<<i, b, c>> : i \in Known, b \in Bases, c \in EpicChunkIds}
    /\ pull.pc \in {"idle", "pull"} /\ Cardinality(Busy) <= Slots
    /\ \A c \in Busy : pull.tries[c] < Attempts
    /\ lookup \in [pc : {"idle", "validate", "purge"}, base : Bases \cup {NoBase},
                   left : SUBSET EpicChunkIds, hit : SUBSET EpicChunkIds,
                   miss : SUBSET EpicChunkIds, sure : BOOLEAN]
    /\ told \in {"none", "cached", "missing", "partial", "error"}
    /\ sound \in BOOLEAN /\ pulls \in 0..MaxPulls /\ mishaps \in 0..MaxMishaps

\* A validate that begins after a prefill whose tally was clean finds every
\* chunk, whatever host served it and however often a request was repeated,
\* as long as nothing was evicted or purged: what is pulled and what is looked
\* for are derived from the same stored manifest (jobs/handlers/prefill.py:
\* 134-186, agent/routers/epic.py:56-91, puller.py:97-115).
PulledIsFound == lookup.sure => lookup.miss = {}
=============================================================================
