----------------------------- MODULE WriterConn -----------------------------
(***************************************************************************)
(* The single SQLite writer of the connection pool (db/pool.py): the lock  *)
(* every write waits for, execute_write and write_transaction with their   *)
(* commits, rollbacks and cancellations, and the replacement of a          *)
(* connection lost to a disk fault, in the background or on checkout.      *)
(*                                                                         *)
(* A write is named by its operation.  A connection runs its statements on *)
(* a thread of its own, so a statement whose await is cancelled may still  *)
(* run (aiosqlite); the readers are in module ReaderPool.                  *)
(***************************************************************************)
EXTENDS Integers, Sequences, FiniteSets

CONSTANTS
    Ops,             \* write operations, one call each
    WriterStorm,     \* replacements per minute beyond which one gives up (3 in the code)
    MaxWriterFaults, \* bound: statements, opens and closes that fail
    MaxCancels       \* bound: operations cancelled

ASSUME WriterAssumption == {WriterStorm, MaxWriterFaults, MaxCancels} \subseteq Nat

VARIABLES
    poolState,       \* Pool._state
    writer,          \* Pool._writer: a connection, or None
    writerHealthy,   \* Pool._writer_healthy
    txn,             \* the transaction of the installed connection
    line,            \* Pool._writer_lock: its holder, then who waits (FIFO)
    op,              \* per operation, where it is
    swapper,         \* per operation, the replacement task it spawned
    writers,         \* connections opened and not closed
    closing,         \* connections a background _safe_close is about to close
    writersRecent,   \* replacements of the last 60 seconds
    writersOpened,   \* connections opened so far
    durable,         \* the writes committed to the database
    writerFaults, cancels,
    abandoned        \* history: connections a failed or cancelled call left open

conns == <<poolState, writer, writerHealthy, writers, closing, writersRecent,
           writersOpened, abandoned>>
writerVars == <<conns, txn, line, op, swapper, durable, writerFaults, cancels>>

NoWriter == 0

Clean == [active |-> FALSE, rows |-> {}]

\* execute_write awaits the statement, then its commit; write_transaction
\* awaits BEGIN IMMEDIATE, the caller's statements, then COMMIT.
Statements == {"exec", "begin", "body", "commit"}

Outcomes == {"ok", "error", "lost", "cancelled"}

NoRepl == [pc |-> "none", old |-> NoWriter, new |-> NoWriter]

\* One entry of the lock's line: an operation, or a replacement about to swap.
Who == {"op", "swap"} \X Ops

Holds(who, w) == line # <<>> /\ Head(line) = <<who, w>>

PassOn == line' = Tail(line)

Go(w, pc) == op' = [op EXCEPT ![w].pc = pc]

WriterInit ==
    /\ poolState = "ready" /\ writer = 1 /\ writerHealthy = TRUE
    /\ txn = Clean /\ line = <<>>
    /\ op = [w \in Ops |-> [pc |-> "idle", kind |-> "single"]]
    /\ swapper = [w \in Ops |-> NoRepl]
    /\ writers = {1} /\ closing = {} /\ writersRecent = 0 /\ writersOpened = 1
    /\ durable = {} /\ writerFaults = 0 /\ cancels = 0 /\ abandoned = {}

WriterFault == writerFaults < MaxWriterFaults /\ writerFaults' = writerFaults + 1

\* The connection an _open_connection returns.
FreshWriter == writersOpened + 1

\* An open that does not complete may leave its connection open, with no owner.
LeaveOpen ==
    \/ UNCHANGED <<writers, writersOpened, abandoned>>
    \/ /\ writersOpened' = FreshWriter
       /\ writers' = writers \cup {FreshWriter} /\ abandoned' = abandoned \cup {FreshWriter}

-----------------------------------------------------------------------------
(* Checking out the writer.                                                *)

Arrive(w, kind) ==
    /\ op[w].pc = "idle" /\ poolState = "ready"
    /\ op' = [op EXCEPT ![w] = [pc |-> "line", kind |-> kind]]
    /\ line' = Append(line, <<"op", w>>)
    /\ UNCHANGED <<conns, txn, swapper, durable, writerFaults, cancels>>

First(w) == IF op[w].kind = "single" THEN "exec" ELSE "begin"

\* The lock is granted: heal an unhealthy writer first, refuse a closed one.
Enter(w) ==
    /\ Holds("op", w) /\ op[w].pc = "line"
    /\ IF writer = NoWriter THEN Go(w, "error") /\ PassOn
       ELSE Go(w, IF writerHealthy THEN First(w) ELSE "heal") /\ UNCHANGED line
    /\ UNCHANGED <<conns, txn, swapper, durable, writerFaults, cancels>>

\* A fresh writer is installed; the one it replaces is closed in the background.
HealWriter(w) ==
    /\ op[w].pc = "heal"
    /\ writer' = FreshWriter
    /\ writersOpened' = FreshWriter /\ writers' = writers \cup {FreshWriter}
    /\ writerHealthy' = TRUE /\ txn' = Clean
    /\ closing' = closing \cup ({writer} \ {NoWriter})
    /\ Go(w, First(w))
    /\ UNCHANGED <<poolState, writersRecent, abandoned>>
    /\ UNCHANGED <<line, swapper, durable, writerFaults, cancels>>

\* Mutant of HealWriterFails: the lock is taken by hand, and kept.
HealWriterFailsHolding(w) ==
    /\ op[w].pc = "heal" /\ WriterFault
    /\ LeaveOpen
    /\ Go(w, "error") /\ UNCHANGED line
    /\ UNCHANGED <<poolState, writer, writerHealthy, closing, writersRecent>>
    /\ UNCHANGED <<txn, swapper, durable, cancels>>

\* The open fails, at the connect or at a PRAGMA.
HealWriterFails(w) ==
    /\ op[w].pc = "heal" /\ WriterFault
    /\ LeaveOpen
    /\ Go(w, "error") /\ PassOn
    /\ UNCHANGED <<poolState, writer, writerHealthy, closing, writersRecent>>
    /\ UNCHANGED <<txn, swapper, durable, cancels>>

-----------------------------------------------------------------------------
(* The statements of an operation.                                         *)

Alive == writer \in writers

\* The operation ends and the lock passes on.
Finish(w, outcome) ==
    /\ Go(w, outcome) /\ PassOn
    /\ UNCHANGED <<conns, swapper, cancels>>

Begin(w) ==
    /\ op[w].pc = "begin" /\ Alive
    /\ IF txn.active
         THEN \* "cannot start a transaction within a transaction", outside the try
              Finish(w, "error") /\ UNCHANGED txn
         ELSE /\ txn' = [txn EXCEPT !.active = TRUE]
              /\ Go(w, "body") /\ UNCHANGED <<conns, line, swapper, cancels>>
    /\ UNCHANGED <<durable, writerFaults>>

\* The statement of an execute_write opens a transaction implicitly; the
\* statements of a write_transaction run in its own.
Write(w) ==
    /\ op[w].pc \in {"exec", "body"} /\ Alive
    /\ txn' = [active |-> TRUE, rows |-> txn.rows \cup {w}]
    /\ Go(w, "commit")
    /\ UNCHANGED <<conns, line, swapper, durable, writerFaults, cancels>>

\* The caller's block raises: the transaction is rolled back.
BodyRaises(w) ==
    /\ op[w].pc = "body" /\ Alive
    /\ txn' = Clean
    /\ Finish(w, "error")
    /\ UNCHANGED <<durable, writerFaults>>

Commit(w) ==
    /\ op[w].pc = "commit" /\ Alive
    /\ durable' = durable \cup txn.rows /\ txn' = Clean
    /\ Finish(w, "ok")
    /\ UNCHANGED writerFaults

\* Mutant of StatementFails: a COMMIT that fails is not rolled back.
FailsUnrolled(w) ==
    /\ op[w].pc \in Statements /\ Alive /\ WriterFault
    /\ txn' = IF op[w].pc \in {"begin", "commit"} THEN txn ELSE Clean
    /\ Finish(w, "error")
    /\ UNCHANGED durable

\* A constraint, a busy database: rolled back.  A BEGIN that fails has nothing
\* to roll back and the code does not try.
StatementFails(w) ==
    /\ op[w].pc \in Statements /\ Alive /\ WriterFault
    /\ txn' = IF op[w].pc = "begin" THEN txn ELSE Clean
    /\ Finish(w, "error")
    /\ UNCHANGED durable

\* The connection was closed under the operation: an error that is not a loss.
StatementOnClosed(w) ==
    /\ op[w].pc \in Statements /\ ~Alive
    /\ Finish(w, "error")
    /\ UNCHANGED <<txn, durable, writerFaults>>

\* Mutant of LoseWriter: the replacement is awaited under the lock.
LoseWriterAwaiting(w) ==
    /\ op[w].pc \in Statements /\ Alive /\ WriterFault
    /\ txn' = Clean /\ Go(w, "lost")
    /\ swapper' = [swapper EXCEPT ![w] = [pc |-> "mark", old |-> writer, new |-> NoWriter]]
    /\ UNCHANGED <<conns, line, durable, cancels>>

\* A disk I/O error: the rollback may fail too, a COMMIT may have taken effect,
\* and a background task is spawned to replace the connection.
LoseWriter(w) ==
    /\ op[w].pc \in Statements /\ Alive /\ WriterFault
    /\ \/ txn' \in {Clean, txn} /\ UNCHANGED durable
       \/ op[w].pc = "commit" /\ txn' = Clean /\ durable' = durable \cup txn.rows
    /\ Go(w, "lost") /\ PassOn
    /\ swapper' = [swapper EXCEPT ![w] = [pc |-> "mark", old |-> writer, new |-> NoWriter]]
    /\ UNCHANGED <<conns, cancels>>

-----------------------------------------------------------------------------
(* Cancellation: CancelledError at the await the operation is in.          *)

Cancelled(w) ==
    /\ cancels < MaxCancels /\ cancels' = cancels + 1
    /\ Go(w, "cancelled")
    /\ \E i \in DOMAIN line :
          /\ line[i] = <<"op", w>>
          /\ line' = [j \in 1 .. Len(line) - 1 |-> line[IF j < i THEN j ELSE j + 1]]
    /\ UNCHANGED <<swapper, writerFaults>>

CancelWaiting(w) ==
    /\ op[w].pc = "line" /\ Cancelled(w)
    /\ UNCHANGED <<conns, txn, durable>>

\* The connection being opened has no owner any more.
CancelHeal(w) ==
    /\ op[w].pc = "heal" /\ Cancelled(w)
    /\ LeaveOpen
    /\ UNCHANGED <<poolState, writer, writerHealthy, closing, writersRecent, txn, durable>>

\* execute_write catches aiosqlite.Error only: nothing is rolled back, and the
\* statement or its commit may run all the same.
CancelSingle(w) ==
    /\ op[w].kind = "single" /\ Cancelled(w)
    /\ \/ /\ op[w].pc = "exec" /\ Alive /\ UNCHANGED durable
          /\ txn' = [active |-> TRUE, rows |-> txn.rows \cup {w}]
       \/ /\ op[w].pc = "commit" /\ Alive
          /\ durable' = durable \cup txn.rows /\ txn' = Clean
       \/ op[w].pc \in {"exec", "commit"} /\ UNCHANGED <<txn, durable>>
    /\ UNCHANGED conns

\* A BEGIN cancelled outside the try may run all the same; later the transaction
\* is rolled back, after the COMMIT that may already have been sent.
CancelTransaction(w) ==
    /\ op[w].kind = "tx" /\ Cancelled(w)
    /\ \/ /\ op[w].pc = "begin" /\ UNCHANGED durable
          /\ \/ UNCHANGED txn
             \/ Alive /\ txn' = [txn EXCEPT !.active = TRUE]
       \/ op[w].pc \in {"body", "commit"} /\ txn' = Clean /\ UNCHANGED durable
       \/ /\ op[w].pc = "commit" /\ Alive
          /\ txn' = Clean /\ durable' = durable \cup txn.rows
    /\ UNCHANGED conns

-----------------------------------------------------------------------------
(* _replace_connection(role = "writer"), a background task.                *)

\* More than StormLimit in a minute: give up; the next checkout heals.
MarkWriter(w) ==
    /\ swapper[w].pc = "mark"
    /\ writersRecent' = writersRecent + 1
    /\ writerHealthy' = FALSE
    /\ IF writersRecent + 1 > WriterStorm
         THEN swapper' = [swapper EXCEPT ![w] = NoRepl] /\ UNCHANGED closing
         ELSE /\ swapper' = [swapper EXCEPT ![w].pc = "open"]
              /\ closing' = closing \cup {swapper[w].old}
    /\ UNCHANGED <<poolState, writer, writers, writersOpened, abandoned>>
    /\ UNCHANGED <<txn, line, op, durable, writerFaults, cancels>>

ReplOpen(w) ==
    /\ swapper[w].pc = "open"
    /\ writersOpened' = FreshWriter /\ writers' = writers \cup {FreshWriter}
    /\ swapper' = [swapper EXCEPT ![w] = [@ EXCEPT !.pc = "swap", !.new = FreshWriter]]
    /\ line' = Append(line, <<"swap", w>>)
    /\ UNCHANGED <<poolState, writer, writerHealthy, closing, writersRecent, abandoned>>
    /\ UNCHANGED <<txn, op, durable, writerFaults, cancels>>

ReplWriterFails(w) ==
    /\ swapper[w].pc = "open" /\ WriterFault
    /\ LeaveOpen
    /\ swapper' = [swapper EXCEPT ![w] = NoRepl]
    /\ UNCHANGED <<poolState, writer, writerHealthy, closing, writersRecent>>
    /\ UNCHANGED <<txn, line, op, durable, cancels>>

\* Mutant of Swap: no compare before the set.
SwapAlways(w) ==
    /\ Holds("swap", w) /\ swapper[w].pc = "swap" /\ PassOn
    /\ writer' = swapper[w].new /\ writerHealthy' = TRUE /\ txn' = Clean
    /\ swapper' = [swapper EXCEPT ![w] = NoRepl]
    /\ UNCHANGED <<poolState, writers, closing, writersRecent, writersOpened, abandoned>>
    /\ UNCHANGED <<op, durable, writerFaults, cancels>>

\* Compare-and-set under the lock: the loser closes the connection it opened.
Swap(w) ==
    /\ Holds("swap", w) /\ swapper[w].pc = "swap" /\ PassOn
    /\ IF writer = swapper[w].old
         THEN /\ writer' = swapper[w].new /\ writerHealthy' = TRUE /\ txn' = Clean
              /\ UNCHANGED closing
         ELSE /\ closing' = closing \cup {swapper[w].new}
              /\ UNCHANGED <<writer, writerHealthy, txn>>
    /\ swapper' = [swapper EXCEPT ![w] = NoRepl]
    /\ UNCHANGED <<poolState, writers, writersRecent, writersOpened, abandoned>>
    /\ UNCHANGED <<op, durable, writerFaults, cancels>>

\* _safe_close: what the connection had not committed is gone with it.
SafeClose(c) ==
    /\ c \in closing /\ closing' = closing \ {c}
    /\ writers' = writers \ {c}
    /\ txn' = IF c = writer THEN Clean ELSE txn
    /\ UNCHANGED <<poolState, writer, writerHealthy, writersRecent, writersOpened, abandoned>>
    /\ UNCHANGED <<line, op, swapper, durable, writerFaults, cancels>>

SafeCloseFails(c) ==
    /\ c \in closing /\ closing' = closing \ {c} /\ WriterFault
    /\ abandoned' = abandoned \cup {c}
    /\ UNCHANGED <<poolState, writer, writerHealthy, writers, writersRecent, writersOpened>>
    /\ UNCHANGED <<txn, line, op, swapper, durable, cancels>>

\* A replacement leaves the 60-second window.
WriterExpire ==
    /\ writersRecent > 0 /\ writersRecent' = writersRecent - 1
    /\ UNCHANGED <<poolState, writer, writerHealthy, writers, closing, writersOpened, abandoned>>
    /\ UNCHANGED <<txn, line, op, swapper, durable, writerFaults, cancels>>

\* Pool.close: from now on nobody arrives; then the teardown closes the writer,
\* without the lock.
ClosePool ==
    /\ poolState = "ready" /\ poolState' = "closing"
    /\ UNCHANGED <<writer, writerHealthy, writers, closing>>
    /\ UNCHANGED <<writersRecent, writersOpened, abandoned>>
    /\ UNCHANGED <<txn, line, op, swapper, durable, writerFaults, cancels>>

Teardown ==
    /\ poolState = "closing" /\ poolState' = "closed"
    /\ writer' = NoWriter /\ writers' = writers \ {writer} /\ txn' = Clean
    /\ UNCHANGED <<writerHealthy, closing, writersRecent, writersOpened, abandoned>>
    /\ UNCHANGED <<line, op, swapper, durable, writerFaults, cancels>>

-----------------------------------------------------------------------------

OpStep(w) ==
    \/ Enter(w) \/ HealWriter(w) \/ HealWriterFails(w) \/ Begin(w) \/ Write(w)
    \/ BodyRaises(w) \/ Commit(w) \/ StatementFails(w) \/ StatementOnClosed(w)
    \/ LoseWriter(w)

Cancel(w) ==
    CancelWaiting(w) \/ CancelHeal(w) \/ CancelSingle(w) \/ CancelTransaction(w)

ReplaceWriter(w) == MarkWriter(w) \/ ReplOpen(w) \/ ReplWriterFails(w) \/ Swap(w)

WriterNext ==
    \/ \E w \in Ops : \/ \E kind \in {"single", "tx"} : Arrive(w, kind)
                      \/ OpStep(w) \/ Cancel(w) \/ ReplaceWriter(w)
    \/ \E c \in closing : SafeClose(c) \/ SafeCloseFails(c)
    \/ WriterExpire \/ ClosePool \/ Teardown

WriterSpec == WriterInit /\ [][WriterNext]_writerVars

\* The event loop runs every task that can run, and a statement returns.
WriterFairness ==
    \A w \in Ops : WF_writerVars(OpStep(w)) /\ WF_writerVars(ReplaceWriter(w))

-----------------------------------------------------------------------------
(* Properties.                                                             *)

WriterTypeOK ==
    /\ poolState \in {"ready", "closing", "closed"}
    /\ writer \in Nat /\ writerHealthy \in BOOLEAN
    /\ txn \in [active : BOOLEAN, rows : SUBSET Ops]
    /\ line \in Seq(Who)
    /\ op \in [Ops -> [pc : {"idle", "line", "heal"} \cup Statements \cup Outcomes,
                       kind : {"single", "tx"}]]
    /\ swapper \in [Ops -> [pc : {"none", "mark", "open", "swap"}, old : Nat, new : Nat]]
    /\ {writers, closing, abandoned} \subseteq SUBSET Nat
    /\ {writersRecent, writersOpened, writerFaults, cancels} \subseteq Nat
    /\ durable \subseteq Ops

\* pool.py:1173-1267: an operation that returned is committed; one that raised
\* is not, and has left nothing that a later commit of somebody else could carry,
\* unless the disk failed in the middle of it.
AnswersHonest ==
    \A w \in Ops : /\ op[w].pc = "ok" => w \in durable
                   /\ op[w].pc = "error" => w \notin durable \cup txn.rows

\* A closed writer is not taken for a healthy one.
DeadWriterIsKnown == (writer # NoWriter /\ ~Alive) => ~writerHealthy

\* A connection left open is somebody's to use or to close.
NoOtherLeak ==
    writers \subseteq {writer} \cup closing \cup abandoned \cup {swapper[w].new : w \in Ops}

\* Whichever replacements, heals and checkouts raced, the pool knows its writer:
\* one that was closed is not marked healthy, and only a failed or a cancelled
\* call leaves a connection open that nobody owns (pool.py:970-1065).
WriterTracked == DeadWriterIsKnown /\ NoOtherLeak

Queued(who, w) == \E i \in DOMAIN line : line[i] = <<who, w>>

\* However operations fail, are cancelled or lose their connection, the lock is
\* never left with a task that is gone and never forgets one that waits: in its
\* line is, once, who waits for it or works under it, and nobody else; and who
\* heals the writer or runs a statement is first (pool.py:927-965, 1035).
LineServes ==
    /\ \A i, j \in DOMAIN line : line[i] = line[j] => i = j
    /\ \A w \in Ops :
          /\ Queued("op", w) <=> op[w].pc \in {"line", "heal"} \cup Statements
          /\ Queued("swap", w) <=> swapper[w].pc = "swap"
          /\ op[w].pc \in {"heal"} \cup Statements => Holds("op", w)

\* pool.py:954-960, 1035: an operation that waits for the lock gets it and ends,
\* also when replacements of the writer queue for the same lock.
Served == \A w \in Ops : (op[w].pc = "line") ~> (op[w].pc \in Outcomes)

\* docs/superpowers/specs/2026-04-25-bl4-db-pool-design.md:399: a cancelled
\* single-statement write is rolled back before its caller sees the error.
CancelledIsRolledBack ==
    \A w \in Ops : (op[w].pc = "cancelled" /\ op[w].kind = "single") => w \notin txn.rows

=============================================================================
