------------------------------ MODULE SweepMC ------------------------------
(* A small instance of Sweep for TLC, and one of SteamCache: how the        *)
(* control plane records a measurement, and how the agent measures.  They  *)
(* share no variable: a behaviour takes the steps of one of them.          *)
EXTENDS Sweep, SteamCache

CONSTANTS g1, g2, Parts

VARIABLE part

MCGames == {g1, g2}

\* Every game claims its cache at first.
MCFirstStatus == {"up_to_date"}

MCSymmetry == Permutations(MCGames)

\* A depot with two builds, and one build each of another language's depot and
\* of the shared redistributables.
MCContent == "main" :> <<{"x"}, {"x", "z"}>> @@ "lang" :> <<{"y"}>> @@ "redist" :> <<{"w"}>>

-----------------------------------------------------------------------------
bothVars == <<part, vars, steamVars>>

BothInit == part \in Parts /\ Init /\ SteamInit

In(p) == part = p /\ UNCHANGED part

SweepPart == In("sweep") /\ Next /\ UNCHANGED steamVars

SteamPart == In("steam") /\ SteamNext /\ UNCHANGED vars

\* SteamCache stops when its bounds are spent.
SteamRests == In("steam") /\ UNCHANGED bothVars

BothSpec == BothInit /\ [][SweepPart \/ SteamPart \/ SteamRests]_bothVars

BothTypeOK == IF part = "sweep" THEN TypeOK ELSE SteamTypeOK
=============================================================================
