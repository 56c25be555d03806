----------------------------- MODULE JobQueueMC -----------------------------
(* Small instances of JobQueue for TLC. *)
EXTENDS JobQueue, TLC

CONSTANTS g1, steam, r1, r2

MCGames     == {g1}
MCPlatforms == {steam}
MCReqs      == {r1, r2}
MCOneReq    == {r1}

\* A game's prefill and validate, and a sweep: every trigger shape.
MCOffered == {<<"prefill", g1>>, <<"validate", g1>>, <<"sweep", NoScope>>}

\* The keys of the whole-kind jobs and of one per-game job.
MCOfferedGlobal == {<<"library_sync", steam>>, <<"sweep", NoScope>>, <<"prefill", g1>>}

MCNone == {}

MCLegacy == {<<"manifest_fetch", g1>>}

MCSymmetry == Permutations(MCReqs)
=============================================================================
