------------------------------- MODULE PoolMC -------------------------------
(***************************************************************************)
(* TLC instance of the connection pool: its readers and its writer.  A     *)
(* read touches no variable of the writer's and a write none of the        *)
(* readers', so a behaviour takes the steps of one of them and the states  *)
(* of the two modules add up instead of multiplying.                       *)
(***************************************************************************)
EXTENDS ReaderPool, WriterConn

CONSTANTS c1, c2, w1, w2, Parts

VARIABLE part

MCTwo == {c1, c2}
MCOps == {w1, w2}

poolVars == <<part, vars, writerVars>>

PoolInit == part \in Parts /\ Init /\ WriterInit

Reads == part = "reader" /\ Next /\ UNCHANGED <<part, writerVars>>

Writes == part = "writer" /\ WriterNext /\ UNCHANGED <<part, vars>>

PoolNext == Reads \/ Writes

PoolSpec ==
    PoolInit /\ [][PoolNext]_poolVars /\ ReaderFairness /\ WriterFairness

PoolTypeOK == TypeOK /\ WriterTypeOK
=============================================================================
