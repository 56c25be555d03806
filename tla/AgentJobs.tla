------------------------------ MODULE AgentJobs ------------------------------
(***************************************************************************)
(* The job store of the data-plane agent (agent/jobs.py).  A store maps    *)
(* the ids it knows to their jobs.  Ids are numbered in the order of their *)
(* creation, which is the order of the code's OrderedDict; progress counts *)
(* and payloads are left out, but for the ok flag of a prefill's result.   *)
(***************************************************************************)
EXTENDS Integers, FiniteSets

CONSTANT MaxJobs  \* retention cap (1024 in the code)

ASSUME StoreAssumption == MaxJobs \in Nat

Empty == [id \in {} |-> {}]

JobRunning == [state |-> "running", ok |-> FALSE]

Snaps == [state : {"running", "done", "failed"}, ok : BOOLEAN]

Terminal(store, id) == store[id].state \in {"done", "failed"}

\* What exceeds the cap goes: the oldest terminal jobs, never a running one.
Evicted(store) ==
    LET over == Cardinality(DOMAIN store) - MaxJobs
        Older(id) == {i \in DOMAIN store : i <= id /\ Terminal(store, i)}
    IN  {id \in DOMAIN store : Terminal(store, id) /\ Cardinality(Older(id)) <= over}

Create(store, id) ==
    LET grown == [i \in DOMAIN store \cup {id} |-> IF i = id THEN JobRunning ELSE store[i]]
    IN  [i \in DOMAIN grown \ Evicted(grown) |-> grown[i]]

\* A job that the store does not know is left alone.
SetState(store, id, state, ok) ==
    IF id \in DOMAIN store
      THEN [store EXCEPT ![id] = [state |-> state, ok |-> ok]]
      ELSE store

Unfinished(store, id) == id \in DOMAIN store /\ store[id].state = "running"
=============================================================================
