------------------------------- MODULE BootMC -------------------------------
(***************************************************************************)
(* TLC instance of Boot: an upgrade of two migrations, which rebuild a     *)
(* table as 0002, 0009 and 0014 do and rename one as 0012 does, and images *)
(* that must be refused: an edited file, pinned or not, a hole in the ids, *)
(* and a script that does not leave the tables it creates.                 *)
(***************************************************************************)
EXTENDS Boot

MCScript ==
    "initial" :> <<<<"create", "games">>, <<"create", "jobs">>>> @@
    "rebuild" :> <<<<"create", "backup">>, <<"drop", "jobs">>,
                   <<"create", "jobs">>, <<"drop", "backup">>>> @@
    "rename"  :> <<<<"rename", "games", "old">>, <<"create", "games">>, <<"drop", "old">>>> @@
    "edited"  :> <<<<"create", "extra">>>> @@
    "loses"   :> <<<<"rename", "jobs", "old">>, <<"drop", "old">>>>

Image(files) == [files |-> files, pinned |-> files, sound |-> TRUE]

MCBuilds == {
    Image(<<"initial">>),
    Image(<<"initial", "rebuild", "rename">>),
    Image(<<"initial", "edited", "rename">>),
    Image(1 :> "initial" @@ 3 :> "rename"),
    Image(<<"initial", "loses">>),
    [files |-> <<"initial">>, pinned |-> <<"initial">>, sound |-> FALSE],
    [files |-> <<"initial", "edited">>, pinned |-> <<"initial", "rebuild">>, sound |-> TRUE]}

\* Statement by statement, as the loop of _expected_tables_for goes.
TablesInOrder(files, ids) ==
    LET inOrder    == SetToSortSeq(ids, <)
        stmts      == FlattenSeq([k \in 1..Len(inOrder) |-> Script[files[inOrder[k]]]])
        read(t, s) == CASE s[1] = "create" -> t \cup {s[2]}
                        [] s[1] = "drop"   -> t \ {s[2]}
                        [] OTHER           -> t
    IN FoldLeft(read, {}, stmts)

ASSUME TablesAgree ==
    \A b \in Builds : \A ids \in SUBSET DOMAIN b.files :
        ExpectedTables(b.files, ids) = TablesInOrder(b.files, ids)

Root == [at |-> <<>>, type |-> "ext4"]

\* A plain host; a strict one on which nothing is detected; a database on a
\* network mount below a local one; a device; a LAN bind without an allowlist.
Host == [target |-> <<"var", "db">>, mounts |-> <<Root>>, device |-> FALSE,
         strict |-> FALSE, bind |-> "loopback", allow |-> FALSE]

MCEnvironments == {
    Host,
    [Host EXCEPT !.mounts = <<>>, !.strict = TRUE],
    [Host EXCEPT !.mounts = <<[at |-> <<"var">>, type |-> "network"], Root>>],
    [Host EXCEPT !.device = TRUE],
    [Host EXCEPT !.bind = "lan"]}
=============================================================================
