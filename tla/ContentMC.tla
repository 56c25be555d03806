------------------------------ MODULE ContentMC ------------------------------
(* TLC instance of the modules about what is on the cache's disk and who   *)
(* watches it: Curation, Archive, ManifestFetch, and CacheGuard with       *)
(* KeyBudget.  They share no variable, so a behaviour takes the steps of   *)
(* one of them and leaves the others as they began: their states add up    *)
(* instead of multiplying.                                                 *)
EXTENDS Curation, Archive, CacheGuard, ManifestFetch, TLC

CONSTANTS brawl, sdk, Parts

VARIABLE part

\* Curation: a game whose flags were not known at first and that is
\* multiplayer-only, and a tool the store once called a game.
MCApps == {brawl, sdk}

Info(type, single, multi) ==
    [type |-> type, flagged |-> FALSE, single |-> single, multi |-> multi]

MCAnswers == brawl :> {NoInfo, Info("game", "no", "yes")} @@ sdk :> {Info("tool", "no", "no")}

MCLegacy == brawl :> NoInfo @@ sdk :> Info("game", "unknown", "unknown")

\* ManifestFetch: an app of two depots, one of which is hollow, one of a single
\* depot, and an id the helper cannot take.
MCShips == "duo" :> {"main", "hollow"} @@ "solo" :> {"only"} @@ "huge" :> {}

-----------------------------------------------------------------------------
contentVars == <<part, vars, archiveVars, guardVars, budgetVars, fetchVars>>

ContentInit ==
    /\ part \in Parts
    /\ Init /\ ArchiveInit /\ GuardInit /\ BudgetInit /\ FetchInit
    /\ part = "curation" =>
          brawl \in bins /\ info = Legacy /\ (form = "list" => selection = bins)
    /\ part # "curation" =>
          bins = {} /\ selection = {} /\ form = "list" /\ info = [a \in Apps |-> NoInfo]
    /\ part # "archive" => \A f \in Manifests : arch[f] = "absent"
    /\ chosen \in {{}, Titles} /\ binned \in {{}, Titles \ OutOfRange}
    /\ part # "fetch" => chosen = {} /\ binned = {}

In(p) == part = p /\ UNCHANGED part

CurationPart == In("curation") /\ Next
            /\ UNCHANGED <<archiveVars, guardVars, budgetVars, fetchVars>>

ArchivePart == In("archive") /\ ArchiveNext
            /\ UNCHANGED <<vars, guardVars, budgetVars, fetchVars>>

GuardPart == In("guard") /\ GuardNext
            /\ UNCHANGED <<vars, archiveVars, budgetVars, fetchVars>>

BudgetPart == In("budget") /\ BudgetNext
            /\ UNCHANGED <<vars, archiveVars, guardVars, fetchVars>>

FetchPart == In("fetch") /\ FetchNext
            /\ UNCHANGED <<vars, archiveVars, guardVars, budgetVars>>

ContentNext == CurationPart \/ ArchivePart \/ GuardPart \/ BudgetPart \/ FetchPart

\* The tick is an interval job of the scheduler and the archive is synchronised
\* by a loop that never ends: both run again and again.  The guard's threads
\* run, and its clock moves on.
ContentSpec ==
    /\ ContentInit /\ [][ContentNext]_contentVars
    /\ WF_vars(part = "curation" /\ TickStep)
    /\ WF_archiveVars(part = "archive" /\ SyncStep("loop"))
    /\ WF_guardVars(part = "guard" /\ GuardStep)
    /\ WF_guardVars(part = "guard" /\ LivenessStep)
    /\ WF_guardVars(part = "guard" /\ GuardTick)

\* A part that is not taken stays as it began.
ContentTypeOK ==
    /\ part = "curation" => TypeOK
    /\ part = "archive" => ArchiveTypeOK
    /\ part = "guard" => GuardTypeOK
    /\ part = "budget" => BudgetTypeOK
    /\ part = "fetch" => FetchTypeOK
=============================================================================
