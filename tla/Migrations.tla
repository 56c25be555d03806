----------------------------- MODULE Migrations -----------------------------
(***************************************************************************)
(* Schema migrations (db/migrate.py): every pending migration is applied   *)
(* in one transaction, after the files, the manifest and the database have *)
(* been checked against each other.  The app runs them as it boots; the    *)
(* operator's command line (cli/commands/db.py) may run them beside it.    *)
(*                                                                         *)
(* A migration is named by its id and its content: another content under   *)
(* the same id is an edited file.  Its script is a sequence of statements  *)
(* that create, drop and rename tables.                                    *)
(***************************************************************************)
EXTENDS Naturals, FiniteSetsExt, SequencesExt

CONSTANTS
    Builds,      \* images: [files, pinned, sound]: what the files hold and what
                 \*   CHECKSUMS says they hold, as functions from ids to contents;
                 \*   and whether each id has one file and each line parses
    Script,      \* content -> its statements: <<"create" or "drop", table>>,
                 \*   <<"rename", table, new name>>
    Environments, \* [target, mounts, device, strict, bind, allow]: where the
                 \*   database lives, and who may call
    MaxFaults    \* bound: crashes and statements that fail

ASSUME MigrationsAssumption ==
    /\ \A b \in Builds : /\ DOMAIN b.files \subseteq Nat \ {0} /\ IsFiniteSet(DOMAIN b.files)
                         /\ b.files \in [DOMAIN b.files -> DOMAIN Script]
    /\ \A content \in DOMAIN Script :
         /\ Len(Script[content]) \in Nat
         /\ \A k \in 1..Len(Script[content]) :
              Script[content][k][1] \in {"create", "drop", "rename"}
    /\ MaxFaults \in Nat

\* A table is renamed to be out of the way, and dropped under its new name by
\* the same script, as in the only one that renames (0012).
ASSUME RenamesAssumption ==
    \A content \in DOMAIN Script : \A k \in 1..Len(Script[content]) :
        Script[content][k][1] = "rename" =>
            \E l \in (k + 1)..Len(Script[content]) :
                Script[content][l][1] = "drop" /\ Script[content][l][2] = Script[content][k][3]

VARIABLES
    db,       \* committed: schema_migrations, as a function from ids to contents,
              \*   and the tables that exist
    txn,      \* the write transaction of a runner: NoTxn, or what it would
              \*   commit, the migrations still to do and the statement it is at
    runner,   \* per runner, where it is and the build it runs
    env,      \* the environment
    faults    \* faults so far

dvars == <<db, txn, runner, env, faults>>

Runners == {"app", "cli"}

None  == [files |-> <<>>, pinned |-> <<>>, sound |-> FALSE]
NoTxn == [rows |-> <<>>, tables |-> {}, todo |-> {}, stmt |-> 0]

MigrationsInit ==
    /\ db = [rows |-> <<>>, tables |-> {}]
    /\ txn = NoTxn
    /\ runner = [p \in Runners |-> [pc |-> "idle", build |-> None]]
    /\ env \in Environments
    /\ faults = 0

Blame == faults < MaxFaults /\ faults' = faults + 1

-----------------------------------------------------------------------------
(* What a build and a database must satisfy (pure).                        *)

\* _detect_filesystem_type: the mounts are read in order, and the first of the
\* longest mount points above the (resolved) target gives the type.
Detected(target, mounts) ==
    LET above == {k \in DOMAIN mounts : IsPrefix(mounts[k].at, target)}
        depth(k) == Len(mounts[k].at)
    IN IF above = {} THEN "unknown"
       ELSE mounts[CHOOSE k \in above :
                \A j \in above : \/ depth(j) < depth(k)
                                \/ (depth(j) = depth(k) /\ k <= j)].type

\* _assert_local_filesystem: devices and network mounts never, an undetected
\* file system only if not strict.
FsRefused ==
    LET fs == Detected(env.target, env.mounts)
    IN env.device \/ fs = "network" \/ (fs = "unknown" /\ env.strict)

\* _verify_checksum_manifest: no extra entry, none missing, every content pinned.
ManifestRefused(b) == b.files # b.pinned

\* _assert_no_gaps: ids run from 1 without a hole, and none is ahead of the code.
GapRefused(applied, available) ==
    \/ applied \cup available # 1..Cardinality(applied \cup available)
    \/ ~(applied \subseteq available)

\* Mutant of Drifted: nobody compares the recorded checksums.
NeverDrifted(rows, files) == FALSE

\* An applied file was edited since.
Drifted(rows, files) ==
    \E i \in DOMAIN rows \cap DOMAIN files : rows[i] # files[i]

\* The tables after a statement ran.
Ran(tables, s) ==
    CASE s[1] = "create" -> tables \cup {s[2]}
      [] s[1] = "drop"   -> tables \ {s[2]}
      [] s[1] = "rename" -> (tables \ {s[2]}) \cup {s[3]}

\* Where a statement stands in the scripts of these ids, and which come later.
Places(files, ids) == UNION {{<<i, k>> : k \in 1..Len(Script[files[i]])} : i \in ids}

Later(q, p) == q[1] > p[1] \/ (q[1] = p[1] /\ q[2] > p[2])

\* _expected_tables_for: what is created and not dropped later.  It reads CREATE
\* and DROP; what an ALTER TABLE ... RENAME does it does not see.
ExpectedTables(files, ids) ==
    LET at      == Places(files, ids)
        stmt(p) == Script[files[p[1]]][p[2]]
        kept(p) == ~\E q \in at : Later(q, p) /\ stmt(q)[1] = "drop" /\ stmt(q)[2] = stmt(p)[2]
    IN {stmt(p)[2] : p \in {q \in at : stmt(q)[1] = "create" /\ kept(q)}}

TablesRefused(tables, files, ids) == ~(ExpectedTables(files, ids) \subseteq tables)

-----------------------------------------------------------------------------
(* One run of run_migrations, by the app or by the command line.           *)

Goto(p, pc) == runner' = [runner EXCEPT ![p].pc = pc]

\* run_migrations is called.
Call(p, b) == runner' = [runner EXCEPT ![p] = [pc |-> "prepare", build |-> b]]

\* The checks before the database is opened.  A MigrationError is "refused".
Prepare(p) ==
    /\ runner[p].pc = "prepare"
    /\ LET b == runner[p].build IN
         Goto(p, IF FsRefused \/ ~b.sound \/ ManifestRefused(b) THEN "refused" ELSE "begin")
    /\ UNCHANGED <<db, txn, env, faults>>

\* BEGIN IMMEDIATE, and what is read under it.
BeginTxn(p) ==
    /\ runner[p].pc = "begin" /\ txn = NoTxn
    /\ LET files   == runner[p].build.files
           applied == DOMAIN db.rows
       IN IF \/ GapRefused(applied, DOMAIN files) \/ Drifted(db.rows, files)
             \/ TablesRefused(db.tables, files, applied)
          THEN Goto(p, "refused") /\ UNCHANGED txn
          ELSE /\ txn' = [rows |-> db.rows, tables |-> db.tables, stmt |-> 1,
                          todo |-> DOMAIN files \ applied]
               /\ Goto(p, "apply")
    /\ UNCHANGED <<db, env, faults>>

\* The other runner holds the write lock for longer than busy_timeout: the
\* error of sqlite3 is no MigrationError, and ends the caller all the same.
BusyFails(p) ==
    /\ runner[p].pc = "begin" /\ txn # NoTxn
    /\ Goto(p, "refused")
    /\ UNCHANGED <<db, txn, env, faults>>

\* The migrations are applied in the order of their ids.
Todo(p)       == txn.todo # {} /\ runner[p].pc = "apply"
Statements(p) == Script[runner[p].build.files[Min(txn.todo)]]

\* A table is created once, and dropped while it exists.
Runs(s) == IF s[1] = "create" THEN s[2] \notin txn.tables ELSE s[2] \in txn.tables

\* Mutant of ApplyStatement: the statement commits on its own.
Autocommits(p) ==
    /\ Todo(p) /\ txn.stmt <= Len(Statements(p))
    /\ LET s == Statements(p)[txn.stmt] IN
         Runs(s) /\ txn' = [txn EXCEPT !.tables = Ran(@, s), !.stmt = @ + 1]
    /\ db' = [db EXCEPT !.tables = txn'.tables]
    /\ UNCHANGED <<runner, env, faults>>

\* One statement of one pending migration.
ApplyStatement(p) ==
    /\ Todo(p) /\ txn.stmt <= Len(Statements(p))
    /\ LET s == Statements(p)[txn.stmt] IN
         Runs(s) /\ txn' = [txn EXCEPT !.tables = Ran(@, s), !.stmt = @ + 1]
    /\ UNCHANGED <<db, runner, env, faults>>

\* Mutant of RecordRow: each migration is committed with its row.
CommitsEach(p) ==
    /\ Todo(p) /\ txn.stmt > Len(Statements(p))
    /\ LET i == Min(txn.todo) IN
         txn' = [txn EXCEPT !.rows = [j \in DOMAIN @ \cup {i} |->
                                       IF j = i THEN runner[p].build.files[i] ELSE @[j]],
                            !.todo = @ \ {i}, !.stmt = 1]
    /\ db' = [rows |-> txn'.rows, tables |-> txn'.tables]
    /\ UNCHANGED <<runner, env, faults>>

\* The migration's row.
RecordRow(p) ==
    /\ Todo(p) /\ txn.stmt > Len(Statements(p))
    /\ LET i == Min(txn.todo) IN
         txn' = [txn EXCEPT !.rows = [j \in DOMAIN @ \cup {i} |->
                                       IF j = i THEN runner[p].build.files[i] ELSE @[j]],
                            !.todo = @ \ {i}, !.stmt = 1]
    /\ UNCHANGED <<db, runner, env, faults>>

\* A statement fails, by a fault or because its table is in the way: ROLLBACK.
StatementFails(p) ==
    /\ Todo(p)
    /\ \/ Blame
       \/ /\ txn.stmt <= Len(Statements(p)) /\ ~Runs(Statements(p)[txn.stmt])
          /\ UNCHANGED faults
    /\ txn' = NoTxn
    /\ Goto(p, "refused")
    /\ UNCHANGED <<db, env>>

\* The expected tables are looked for inside the transaction, then COMMIT.
Commit(p) ==
    /\ runner[p].pc = "apply" /\ txn.todo = {}
    /\ txn' = NoTxn
    /\ LET files == runner[p].build.files IN
         IF TablesRefused(txn.tables, files, DOMAIN files)
         THEN Goto(p, "refused") /\ UNCHANGED db
         ELSE Goto(p, "done") /\ db' = [rows |-> txn.rows, tables |-> txn.tables]
    /\ UNCHANGED <<env, faults>>

\* The runner's process dies: SQLite forgets its transaction.
Dies(p) ==
    /\ runner' = [runner EXCEPT ![p] = [pc |-> "idle", build |-> None]]
    /\ txn' = IF runner[p].pc = "apply" THEN NoTxn ELSE txn

Migrate(p) == \/ Prepare(p) \/ BeginTxn(p) \/ BusyFails(p) \/ ApplyStatement(p)
              \/ RecordRow(p) \/ StatementFails(p) \/ Commit(p)

-----------------------------------------------------------------------------
MigrationsTypeOK ==
    LET rows == UNION {[S -> UNION {Range(b.files) : b \in Builds}] :
                         S \in SUBSET UNION {DOMAIN b.files : b \in Builds}}
    IN /\ db.rows \in rows /\ txn.rows \in rows
       /\ runner \in [Runners -> [pc : {"idle", "prepare", "begin", "apply", "done", "refused"},
                                  build : Builds \cup {None}]]
       /\ env \in Environments /\ faults \in 0..MaxFaults
       \* The transaction belongs to the runner that applies.
       /\ (txn # NoTxn) = (\E p \in Runners : runner[p].pc = "apply")
       /\ Cardinality({p \in Runners : runner[p].pc = "apply"}) <= 1

\* The schemas that an image may bring about: of those that pass their checks,
\* the rows and the tables.
Schemas == {[rows |-> b.files, tables |-> ExpectedTables(b.files, DOMAIN b.files)] :
              b \in {c \in Builds : c.sound /\ ~ManifestRefused(c)}}

\* All or nothing, and never back (migrate.py:615-676): whatever crashes, fails or
\* runs beside it, the committed schema goes from nothing to exactly that of an
\* image, and from there only to that of an image that continues it.  No state
\* in which some of an upgrade's migrations or statements are durable is ever
\* seen, by a second runner or after a restart.
History == INSTANCE SchemaHistory WITH schema <- db

ImplementsHistory == History!Spec
=============================================================================
