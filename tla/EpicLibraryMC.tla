--------------------------- MODULE EpicLibraryMC ---------------------------
(* TLC instance of EpicLibrary with one game, and of EpicChunks.  They      *)
(* share no variable: a behaviour takes the steps of one of them.  The     *)
(* library is taken twice: whole with one login, and with every login but  *)
(* no job other than the library syncs, which is what uses the session.    *)
EXTENDS EpicLibrary, EpicChunks, TLC

CONSTANTS g1, Parts

VARIABLE part

MCGames == {g1}

\* Two builds that share a chunk, of different formats.
MCOffers == {[format |-> 21, base |-> "/a", chunks |-> {"m", "n"}],
             [format |-> 18, base |-> "/b", chunks |-> {"n"}]}

MCIdentifier == "cdn1" :> "epic1" @@ "cdn2" :> "epic2"

-----------------------------------------------------------------------------
bothVars == <<part, vars, epicVars>>

BothInit ==
    /\ part \in Parts
    /\ Init /\ EpicInit
    /\ part # "library" => known = {}
    /\ part # "chunks" => \A f \in Formats : rows[f] = NoManifest

In(p) == part = p /\ UNCHANGED part

LibraryPart == In("library") /\ Next /\ logins' <= 1 /\ UNCHANGED epicVars

SessionPart ==
    /\ In("session") /\ UNCHANGED epicVars
    /\ \/ Session \/ Work \/ SubmitEnqueues \/ Restart
       \/ Enqueue(Job("library_sync", NoGame))

ChunksPart == In("chunks") /\ EpicNext /\ UNCHANGED vars

\* As in EpicLibrary, the worker works.
BothSpec ==
    /\ BothInit /\ [][LibraryPart \/ SessionPart \/ ChunksPart]_bothVars
    /\ WF_bothVars((In("library") \/ In("session")) /\ Work /\ UNCHANGED epicVars)
=============================================================================
