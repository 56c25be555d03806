-------------------------- MODULE AgentSteam_proofs --------------------------
(***************************************************************************)
(* Proofs about module AgentSteam, for every set of apps, requests and     *)
(* prunes and every limit and bound: types, single flight, honest answers  *)
(* and the return of the selection.                                        *)
(***************************************************************************)
EXTENDS AgentSteam, FiniteSetTheorems, TLAPS

-----------------------------------------------------------------------------
(* The inductive invariant.                                                *)

\* A prefill task holds the gate, so there is one at most, and the process
\* that is alive is its own.
Gated ==
    /\ \A j \in DOMAIN jobs : jobs[j].state = "running" => j \in DOMAIN task
    /\ \A j \in DOMAIN task : task[j].pc # "new" => task[j].kind = "prefill"
    /\ \A j \in DOMAIN task :
        task[j].kind = "prefill" =>
            task[j].work \in Works /\ gate.job = j /\ gate.work = task[j].work
    /\ gate.job \in DOMAIN task => task[gate.job].kind = "prefill"
    /\ procs \ unkilled \subseteq UnderWay \cup Dying

\* A POST that the call still waits for is the call's own.
Posted ==
    /\ call.n <= calls /\ (call.pc # "idle" => call.end = "none")
    /\ call.kind = "prefill" => call.work \in Works
    /\ \A m \in net :
        /\ m.n <= calls
        /\ m.kind = "prefill" => m.work \in Works
        /\ call.pc = "post" /\ m.n = call.n => m.kind = call.kind /\ m.work = call.work

\* The job that a prefill call polls is a run of its work, under way or over.
Served ==
    call.pc = "poll" /\ call.kind = "prefill" =>
        /\ call.job # 0
        /\ call.job \in DOMAIN task =>
            task[call.job].kind = "prefill" /\ task[call.job].work = call.work
        /\ call.job \in DOMAIN jobs /\ jobs[call.job].state = "done" /\ jobs[call.job].ok
            => <<call.job, call.work>> \in exited

\* Where there was a selection, what a run will put back is the operator's.
Kept ==
    curated =>
        /\ file.kind # "missing"
        /\ \A j \in Holders : task[j].prior.kind # "missing"
        /\ ~ spoiled => /\ \A j \in Holders : ~ task[j].prior.temp
                        /\ file.temp => Holders # {}

IInv == TypeOK /\ Gated /\ Posted /\ Served /\ Kept

\* The history variables change together or not at all, but in a few steps.
USE DEF history

-----------------------------------------------------------------------------
(* The store.                                                              *)

\* A new job enters the store as running; every job that stays keeps its state,
\* and every running job stays, whatever the cap.
LEMMA CreateKeeps ==
    ASSUME NEW store, NEW id \in Nat, id \notin DOMAIN store
    PROVE  /\ DOMAIN Create(store, id) \subseteq DOMAIN store \cup {id}
           /\ Create(store, id) = [i \in DOMAIN Create(store, id) |-> Create(store, id)[i]]
           /\ Unfinished(Create(store, id), id)
           /\ Create(store, id)[id] = JobRunning
           /\ \A i \in DOMAIN store :
                /\ Unfinished(store, i) => i \in DOMAIN Create(store, id)
                /\ i \in DOMAIN Create(store, id) => Create(store, id)[i] = store[i]
<1> DEFINE grown == [i \in DOMAIN store \cup {id} |-> IF i = id THEN JobRunning ELSE store[i]]
<1>1. Create(store, id) = [i \in DOMAIN grown \ Evicted(grown) |-> grown[i]]
  BY DEF Create
<1>2. \A i \in Evicted(grown) : i \in DOMAIN grown /\ grown[i].state \in {"done", "failed"}
  BY DEF Evicted, Terminal
<1> HIDE DEF grown
<1>3. DOMAIN grown = DOMAIN store \cup {id} /\ grown[id] = JobRunning
  BY DEF grown
<1>4. \A i \in DOMAIN store : grown[i] = store[i]
  BY DEF grown
<1>5. id \in DOMAIN Create(store, id)
  BY <1>1, <1>2, <1>3 DEF JobRunning
<1> QED
  BY <1>1, <1>2, <1>3, <1>4, <1>5 DEF Unfinished, JobRunning

\* Marking a job changes that job only, and adds none.
LEMMA SetStateSets ==
    ASSUME NEW store, store = [i \in DOMAIN store |-> store[i]], NEW id, NEW state, NEW ok
    PROVE  LET new == SetState(store, id, state, ok)
           IN  /\ DOMAIN new = DOMAIN store
               /\ new = [i \in DOMAIN new |-> new[i]]
               /\ id \in DOMAIN store => new[id] = [state |-> state, ok |-> ok]
               /\ \A i \in DOMAIN store : i # id => new[i] = store[i]
    BY DEF SetState


-----------------------------------------------------------------------------
(* The client.                                                             *)

\* A new POST has a number that no message carries.
LEMMA SendStep ==
    ASSUME IInv, NEW kind \in Kinds, NEW work \in AllWorks, Send(kind, work),
           kind = "prefill" => work \in Works
    PROVE  IInv'
<1> USE DEF IInv
<1>1. calls' \in 1..MaxCalls /\ calls' = calls + 1
  BY AgentAssumption DEF Send, TypeOK
<1>2. TypeOK'
  BY <1>1, AgentAssumption DEF Send, TypeOK, Calls, agent, bounds, Unfinished
<1>3. Gated'
  BY DEF Send, Gated, agent, UnderWay, Dying
<1>4. Posted'
  BY <1>1 DEF Send, Posted, TypeOK, Calls
<1>5. Served' /\ Kept'
  BY DEF Send, Served, Kept, Holders, agent
<1> QED
  BY <1>2, <1>3, <1>4, <1>5

\* A call that ends leaves the agent alone.
LEMMA EndStep ==
    ASSUME IInv, NEW how \in {"ok", "failed"}, End(how)
    PROVE  IInv'
<1> USE DEF IInv
<1>1. TypeOK'
  BY AgentAssumption DEF End, Idle, TypeOK, Calls, agent, bounds, Unfinished, Kinds, AllWorks
<1>2. Gated'
  BY DEF End, Gated, agent, UnderWay, Dying
<1>3. Posted'
  BY DEF End, Idle, Posted, TypeOK
<1>4. Served' /\ Kept'
  BY DEF End, Idle, Served, Kept, Holders, agent
<1> QED
  BY <1>1, <1>2, <1>3, <1>4

LEMMA ClientStep ==
    ASSUME IInv, Lose \/ Poll \/ Ceiling \/ Budget
    PROVE  IInv'
<1>1. PICK how \in {"ok", "failed"} : End(how)
  BY DEF Lose, Poll, Ceiling, Budget
<1> QED
  BY <1>1, EndStep

-----------------------------------------------------------------------------
(* The handlers.                                                           *)

\* The facts about the message that a handler takes.
LEMMA Received ==
    ASSUME IInv, NEW m \in net, Receive(m)
    PROVE  /\ m \in [n : 1..MaxCalls, kind : Kinds, work : AllWorks]
           /\ m.kind = "prefill" => m.work \in Works
           /\ call.pc = "post" /\ m.n = call.n => m.kind = call.kind /\ m.work = call.work
           /\ net' \subseteq net /\ calls' = calls
    BY DEF IInv, TypeOK, Posted, Receive

\* An answer is typed and, for a prefill, it must name a run of its work.
LEMMA Replied ==
    ASSUME IInv, NEW m \in net, Receive(m), NEW job \in Nat, Reply(m, job),
           created' \in Nat, created <= created', job <= created'
    PROVE  call' \in Calls /\ call'.job <= created' /\ Posted'
<1> USE DEF IInv
<1>1. call' \in Calls /\ call'.job <= created'
  <2>1. CASE call' = call
    BY <2>1 DEF TypeOK, Calls
  <2>2. CASE call' = Idle("failed")
    <3>1. call' \in Calls
      BY <2>2, AgentAssumption DEF Calls, Idle, AllWorks, Kinds
    <3> QED
      BY <2>2, <3>1 DEF Idle
  <2>3. CASE call' = [call EXCEPT !.pc = "poll", !.job = job]
    BY <2>3 DEF TypeOK, Calls
  <2> QED
    BY <2>1, <2>2, <2>3 DEF Reply
<1>2. /\ call'.n <= calls' /\ (call'.pc # "idle" => call'.end = "none")
      /\ call'.kind = "prefill" => call'.work \in Works
      /\ call'.pc = "post" => call' = call
  BY DEF Posted, TypeOK, Calls, Reply, Idle, Receive
<1>3. \A k \in net' : k \in net
  BY DEF Receive
<1> QED
  BY <1>1, <1>2, <1>3 DEF Posted, Receive

\* An answer with a job that exists already.
LEMMA OldJobStep ==
    ASSUME IInv, NEW m \in net, Receive(m), NEW job \in 0..created, OldJob(m, job),
           m.kind = "prefill" => job = 0 \/ (InFlight /\ job = gate.job /\ gate.work = m.work),
           UNCHANGED fetchJob,
           gate' = IF InFlight THEN gate ELSE NoGate
    PROVE  IInv'
<1> USE DEF IInv
<1>1. /\ job \in Nat /\ job <= created /\ created' = created /\ created \in Nat
      /\ Reply(m, job)
  BY DEF OldJob, TypeOK
<1>2. call' \in Calls /\ call'.job <= created' /\ Posted'
  BY <1>1, Replied
<1>3. TypeOK'
  BY <1>1, <1>2 DEF TypeOK, OldJob, Receive, bounds, Unfinished, NoGate, AllWorks
<1>4. Gated'
  BY DEF Gated, OldJob, Receive, UnderWay, Dying, InFlight, NoGate, TypeOK, Unfinished
<1>5. Served'
  <2>1. CASE call' = call
    BY <2>1 DEF Served, OldJob, Receive
  <2>2. CASE job # 0 /\ call' = [call EXCEPT !.pc = "poll", !.job = job]
             /\ call.pc = "post" /\ call.n = m.n
    BY <2>2, Received DEF Served, OldJob, Receive, InFlight, Unfinished, Gated, TypeOK, Calls
  <2>3. CASE call' = Idle("failed")
    BY <2>3 DEF Served, Idle
  <2> QED
    BY <1>1, <2>1, <2>2, <2>3 DEF Reply
<1>6. Kept'
  BY DEF Kept, OldJob, Receive, Holders
<1> QED
  BY <1>2, <1>3, <1>4, <1>5, <1>6

\* A new job and its task: jobs and tasks that exist are as they were.
LEMMA NewJobStep ==
    ASSUME IInv, NEW m \in net, Receive(m), NewJob(m),
           m.kind = "prefill" => ~ InFlight /\ gate' = [job |-> created', work |-> m.work],
           m.kind # "prefill" => gate' = gate \/ (~ InFlight /\ gate' = NoGate),
           fetchJob' \in {fetchJob, created'}
    PROVE  IInv'
<1> USE DEF IInv
<1>1. created \in Nat /\ created' = created + 1 /\ created' \in Nat
  BY DEF NewJob, TypeOK
<1>2. created' \notin DOMAIN jobs /\ created' \notin DOMAIN task /\ created' # 0
  BY <1>1 DEF TypeOK, Unfinished
<1>3. /\ DOMAIN jobs' \subseteq DOMAIN jobs \cup {created'}
      /\ jobs' = [i \in DOMAIN jobs' |-> jobs'[i]]
      /\ Unfinished(jobs', created') /\ jobs'[created'] = JobRunning
      /\ \A i \in DOMAIN jobs : i \in DOMAIN jobs' => jobs'[i] = jobs[i]
  BY <1>1, <1>2, CreateKeeps DEF NewJob
<1>3a. \A i \in DOMAIN jobs : Unfinished(jobs, i) => i \in DOMAIN jobs' /\ jobs'[i] = jobs[i]
  BY <1>1, <1>2, CreateKeeps DEF NewJob
<1>4. /\ DOMAIN task' = DOMAIN task \cup {created'}
      /\ task' = [j \in DOMAIN task' |-> task'[j]]
      /\ task'[created'] = [kind |-> m.kind, work |-> m.work, pc |-> "new",
                            prior |-> Missing, age |-> 0]
      /\ \A j \in DOMAIN task : task'[j] = task[j]
  BY <1>2 DEF NewJob
<1>5. /\ m \in [n : 1..MaxCalls, kind : Kinds, work : AllWorks]
      /\ m.kind = "prefill" => m.work \in Works
      /\ call.pc = "post" /\ m.n = call.n => m.kind = call.kind /\ m.work = call.work
  BY Received
<1>6. call' \in Calls /\ call'.job <= created' /\ Posted'
  BY <1>1, Replied DEF NewJob
<1>7. TypeOK'
  <2>1. jobs' \in [DOMAIN jobs' -> Snaps] /\ DOMAIN jobs' \subseteq 1..created'
    <3>0. \A i \in DOMAIN jobs : jobs[i] \in Snaps
      BY DEF TypeOK
    <3>1. \A i \in DOMAIN jobs' : jobs'[i] \in Snaps
      <4> HIDE DEF IInv
      <4>1. JobRunning \in Snaps
        BY DEF JobRunning, Snaps
      <4> QED
        BY <1>3, <3>0, <4>1
    <3>2. DOMAIN jobs' \subseteq 1..created'
      BY <1>1, <1>3 DEF TypeOK
    <3> HIDE DEF IInv
    <3> QED
      BY <1>3, <3>1, <3>2
  <2>2. task'[created'] \in Tasks
    BY <1>4, <1>5, AgentAssumption DEF Tasks, Missing, Files
  <2>3. task' \in [DOMAIN task' -> Tasks]
    BY <1>4, <2>2 DEF TypeOK
  <2>4. \A j \in DOMAIN task' : Unfinished(jobs', j)
    <3>1. \A j \in DOMAIN task : Unfinished(jobs, j) /\ j \in DOMAIN jobs
      BY DEF TypeOK, Unfinished
    <3> HIDE DEF IInv
    <3>2. ASSUME NEW j \in DOMAIN task PROVE Unfinished(jobs', j)
      <4>1. j \in DOMAIN jobs' /\ jobs'[j] = jobs[j]
        BY <1>3a, <3>1
      <4> QED
        BY <3>1, <4>1 DEF Unfinished
    <3> QED
      BY <1>3, <1>4, <3>2
  <2>5. gate' \in [job : 0..created', work : AllWorks] /\ fetchJob' \in 0..created'
    BY <1>1, <1>5 DEF TypeOK, NoGate, AllWorks
  <2> QED
    BY <1>1, <1>6, <2>1, <2>3, <2>4, <2>5 DEF TypeOK, Receive, bounds
<1>8. Gated'
  <2>1. \A j \in DOMAIN jobs' : jobs'[j].state = "running" => j \in DOMAIN task'
    BY <1>3, <1>4 DEF Gated
  <2>2. \A j \in DOMAIN task' : task'[j].pc # "new" => task'[j].kind = "prefill"
    BY <1>4 DEF Gated
  <2>3. \A j \in DOMAIN task : task[j].kind = "prefill" => InFlight
    BY <1>1 DEF Gated, InFlight, TypeOK, Unfinished
  <2>4. /\ \A j \in DOMAIN task' :
            task'[j].kind = "prefill" =>
                task'[j].work \in Works /\ gate'.job = j /\ gate'.work = task'[j].work
        /\ gate'.job \in DOMAIN task' => task'[gate'.job].kind = "prefill"
    <3>1. CASE m.kind = "prefill"
      BY <1>4, <1>5, <2>3, <3>1
    <3>2. CASE m.kind # "prefill"
      BY <1>1, <1>2, <1>4, <2>3, <3>2 DEF Gated, NoGate, TypeOK, Unfinished
    <3> QED
      BY <3>1, <3>2
  <2>5. (procs \ unkilled)' \subseteq UnderWay' \cup Dying'
    BY <1>4 DEF Gated, UnderWay, Dying, Receive
  <2> QED
    BY <2>1, <2>2, <2>4, <2>5 DEF Gated
<1>9. Served'
  <2>1. CASE call' = call
    BY <1>1, <1>2, <1>3, <1>4, <2>1 DEF Served, Receive, TypeOK, Calls
  <2>2. CASE call' = [call EXCEPT !.pc = "poll", !.job = created']
             /\ call.pc = "post" /\ call.n = m.n
    BY <1>2, <1>3, <1>4, <1>5, <2>2 DEF Served, Receive, TypeOK, Calls, JobRunning
  <2> QED
    BY <1>2, <2>1, <2>2 DEF NewJob, Reply
<1>10. Kept'
  <2>1. \A j \in DOMAIN task' : task'[j].pc # "new" => j \in DOMAIN task
    BY <1>4
  <2>2. Holders' = Holders
    BY <1>2, <1>4 DEF Holders
  <2> QED
    BY <1>4, <2>1, <2>2 DEF Kept, Holders, Receive
<1> QED
  BY <1>6, <1>7, <1>8, <1>9, <1>10

\* The three handlers of POSTs.
LEMMA HandleStep ==
    ASSUME IInv, NEW m \in net, Handle(m)
    PROVE  IInv'
<1> USE DEF IInv
<1>1. gate.job \in 0..created /\ fetchJob \in 0..created /\ created \in Nat
  BY DEF TypeOK
<1>2. CASE StartPrefill(m)
  <2>1. CASE InFlight
    <3>1. Receive(m) /\ m.kind = "prefill" /\ UNCHANGED <<gate, fetchJob>>
      BY <1>2, <2>1 DEF StartPrefill
    <3>2. OldJob(m, IF SameWork(m.work) THEN gate.job ELSE 0)
      BY <1>2, <2>1 DEF StartPrefill
    <3> QED
      BY <1>1, <2>1, <3>1, <3>2, OldJobStep DEF SameWork
  <2>2. CASE ~ InFlight
    BY <1>2, <2>2, NewJobStep DEF StartPrefill
  <2> QED
    BY <2>1, <2>2
<1>3. CASE StartFetch(m)
  <2>1. Receive(m) /\ m.kind # "prefill" /\ gate' = IF InFlight THEN gate ELSE NoGate
    BY <1>3 DEF StartFetch
  <2>2. CASE NewJob(m) /\ fetchJob' = created'
    BY <2>1, <2>2, NewJobStep
  <2>3. CASE OldJob(m, IF InFlight THEN 0 ELSE fetchJob) /\ UNCHANGED fetchJob
    BY <1>1, <2>1, <2>3, OldJobStep
  <2> QED
    BY <1>3, <2>2, <2>3 DEF StartFetch
<1>4. CASE StartPull(m)
  <2>1. Receive(m) /\ NewJob(m) /\ m.kind # "prefill" /\ UNCHANGED <<gate, fetchJob>>
    BY <1>4 DEF StartPull
  <2>2. CASE InFlight
    BY <2>1, <2>2, NewJobStep
  <2>3. CASE ~ InFlight
    BY <2>1, <2>3, NewJobStep
  <2> QED
    BY <2>2, <2>3
<1> QED
  BY <1>2, <1>3, <1>4 DEF Handle

\* A prune changes the list, never whose list it is.
LEMMA PruneStep ==
    ASSUME IInv, NEW v \in Verdicts, PruneSelection(v) \/ PruneFails(v)
    PROVE  IInv'
<1> USE DEF IInv
<1>1. /\ ToPrune(v) /\ faults' \in 0..MaxFaults
      /\ bak' \in {bak, file, Garbled}
      /\ file' \in {file, Garbled, [file EXCEPT !.apps = Reconciled(v)]}
  BY AgentAssumption DEF PruneSelection, PruneFails, Saved, Fault, TypeOK
<1>2. Reconciled(v) \subseteq Apps
  BY AgentAssumption DEF Reconciled, TypeOK, Files
<1>3. Garbled \in Files
  BY DEF Garbled, Files
<1>4. file' \in Files /\ bak' \in Files
  BY <1>1, <1>2, <1>3 DEF TypeOK, Files
<1>5. prunes' \in 0..MaxPrunes
  BY <1>1, AgentAssumption DEF ToPrune, TypeOK
<1>6. TypeOK' /\ Gated' /\ Posted' /\ Served'
  BY <1>1, <1>4, <1>5 DEF ToPrune, TypeOK, Gated, Posted, Served, agent, client, Unfinished,
                          UnderWay, Dying
<1>7. file'.kind # "missing" /\ (file'.temp => file.temp)
  BY <1>1 DEF ToPrune, TypeOK, Files, Garbled
<1>8. Kept'
  BY <1>1, <1>7 DEF Kept, ToPrune, Holders, agent
<1> QED
  BY <1>6, <1>8

-----------------------------------------------------------------------------
(* The tasks.                                                              *)

\* A task that holds the list is the only one, and its process the only one.
LEMMA OneHolder ==
    ASSUME IInv, NEW j \in DOMAIN task, task[j].kind = "prefill"
    PROVE  /\ gate.job = j
           /\ Holders \subseteq {j} /\ UnderWay \cup Dying \subseteq Holders
           /\ procs \ unkilled \subseteq {j}
    BY DEF IInv, Gated, Holders, UnderWay, Dying

\* A task that ends takes its job out of the running ones, and the gate with it
\* if it held it.
LEMMA DoneStep ==
    ASSUME IInv, NEW j \in DOMAIN task, NEW state \in {"done", "failed"},
           NEW ok \in BOOLEAN, Done(j, state, ok),
           procs' \subseteq procs, procs' \ unkilled \subseteq (procs \ unkilled) \ {j},
           exited \subseteq exited', exited' \subseteq exited \cup {<<j, task[j].work>>},
           faults' \in 0..MaxFaults, spoiled' \in BOOLEAN, file' \in Files,
           task[j].kind = "prefill" /\ ok => <<j, task[j].work>> \in exited',
           exited' # exited => task[j].kind = "prefill",
           Kept'
    PROVE  IInv'
<1> USE DEF IInv
<1>1. jobs = [i \in DOMAIN jobs |-> jobs[i]] /\ j \in DOMAIN jobs
  BY DEF TypeOK, Unfinished
<1>2. /\ DOMAIN jobs' = DOMAIN jobs
      /\ jobs' = [i \in DOMAIN jobs' |-> jobs'[i]]
      /\ jobs'[j] = [state |-> state, ok |-> ok]
      /\ \A i \in DOMAIN jobs : i # j => jobs'[i] = jobs[i]
  BY <1>1, SetStateSets DEF Done
<1>3. /\ DOMAIN task' = DOMAIN task \ {j}
      /\ task' = [i \in DOMAIN task' |-> task'[i]]
      /\ \A i \in DOMAIN task' : task'[i] = task[i]
  BY DEF Done
<1>4. TypeOK'
  <2>1. jobs' \in [DOMAIN jobs' -> Snaps]
    <3>1. \A i \in DOMAIN jobs : jobs[i] \in Snaps
      BY DEF TypeOK
    <3> HIDE DEF IInv
    <3>2. [state |-> state, ok |-> ok] \in Snaps
      BY DEF Snaps
    <3> QED
      BY <1>2, <3>1, <3>2
  <2>2. task' \in [DOMAIN task' -> Tasks]
    BY <1>3 DEF TypeOK
  <2>3. \A i \in DOMAIN task' : Unfinished(jobs', i)
    BY <1>2, <1>3 DEF TypeOK, Unfinished
  <2>4. gate' \in [job : 0..created', work : AllWorks]
    BY DEF Done, TypeOK, NoGate, AllWorks
  <2>5. exited' \subseteq (1..created') \X Works
    BY DEF Done, TypeOK, Gated, Unfinished
  <2>6. DOMAIN jobs' \subseteq 1..created' /\ procs' \subseteq 1..created'
    BY <1>2 DEF Done, TypeOK
  <2> QED
    BY <2>1, <2>2, <2>3, <2>4, <2>5, <2>6 DEF Done, TypeOK, client
<1>5. Gated'
  <2>1. \A i \in DOMAIN jobs' : jobs'[i].state = "running" => i \in DOMAIN task'
    BY <1>2, <1>3 DEF Gated
  <2>2. \A i \in DOMAIN task' : task'[i].kind = "prefill" => gate.job # j
    BY <1>3 DEF Gated
  <2>3. gate'.job \in DOMAIN task' => gate' = gate
    BY <1>3 DEF Done, NoGate, TypeOK, Unfinished
  <2>4. (procs \ unkilled)' \subseteq UnderWay' \cup Dying'
    BY <1>3 DEF Gated, UnderWay, Dying, Done
  <2> QED
    BY <1>3, <2>1, <2>2, <2>3, <2>4 DEF Gated, Done
<1>6. Posted'
  BY DEF Done, Posted, client
<1>7. Served'
  BY <1>2, <1>3 DEF Served, Done, client
<1> QED
  BY <1>4, <1>5, <1>6, <1>7

\* A run takes the list.
LEMMA SnapshotStep ==
    ASSUME IInv, NEW j \in DOMAIN task, Snapshot(j)
    PROVE  IInv'
<1> USE DEF IInv
<1>1. /\ DOMAIN task' = DOMAIN task
      /\ task' = [i \in DOMAIN task' |-> task'[i]]
      /\ task'[j] = [task[j] EXCEPT !.pc = "spawn", !.prior = file]
      /\ \A i \in DOMAIN task : i # j => task'[i] = task[i]
  BY DEF Snapshot, TypeOK
<1>2. task[j] \in Tasks /\ task[j].work \in Works
  BY DEF Snapshot, TypeOK, Gated
<1>3. task'[j] \in Tasks /\ file' \in Files
  BY <1>1, <1>2, AgentAssumption DEF Tasks, TypeOK, Snapshot, TempList, Files
<1>4. task' \in [DOMAIN task' -> Tasks]
  BY <1>1, <1>3 DEF TypeOK
<1>5. TypeOK'
  BY <1>1, <1>3, <1>4 DEF TypeOK, Snapshot, client, bounds, Unfinished
<1>6. /\ task'[j].kind = "prefill" /\ task'[j].work = task[j].work
      /\ task'[j].pc = "spawn" /\ task'[j].prior = file
  BY <1>1, <1>2 DEF Tasks, Snapshot
<1>7. Gated'
  BY <1>1, <1>6 DEF Gated, Snapshot, UnderWay, Dying
<1>8. Posted' /\ Served'
  BY <1>1, <1>6 DEF Posted, Served, Snapshot, client
<1>9. Holders = {} /\ Holders' = {j}
  BY <1>1, <1>6, OneHolder DEF Snapshot, Holders
<1>10. Kept'
  BY <1>6, <1>9 DEF Kept, Snapshot, TempList
<1> QED
  BY <1>5, <1>7, <1>8, <1>10

\* The process starts, or gets its SIGTERM.
LEMMA AdvanceStep ==
    ASSUME IInv, NEW j \in DOMAIN task, Spawn(j) \/ TimeOut(j)
    PROVE  IInv'
<1> USE DEF IInv
<1>1. PICK pc \in {"run", "term"} :
        /\ Advance(j, pc) /\ file' = file /\ task[j].pc \in {"spawn", "run"}
        /\ procs' \in {procs, procs \cup {j}}
  BY DEF Spawn, TimeOut
<1>2. /\ DOMAIN task' = DOMAIN task
      /\ task' = [i \in DOMAIN task' |-> task'[i]]
      /\ task'[j] = [task[j] EXCEPT !.pc = pc]
      /\ \A i \in DOMAIN task : i # j => task'[i] = task[i]
  BY <1>1 DEF Advance, TypeOK
<1>3. /\ task'[j] \in Tasks /\ task'[j].kind = task[j].kind
      /\ task'[j].work = task[j].work /\ task'[j].prior = task[j].prior
      /\ task'[j].pc = pc
  <2>1. task[j] \in Tasks
    BY DEF TypeOK
  <2> QED
    BY <1>1, <1>2, <2>1 DEF Tasks
<1>4. task' \in [DOMAIN task' -> Tasks]
  BY <1>2, <1>3 DEF TypeOK
<1>5. j \in 1..created
  BY DEF TypeOK, Unfinished
<1>6. TypeOK'
  BY <1>1, <1>2, <1>4, <1>5 DEF TypeOK, Advance, client, bounds, Unfinished
<1>7. (procs \ unkilled)' \subseteq UnderWay' \cup Dying'
  <2>1. UnderWay' \cup Dying' = {i \in DOMAIN task' : task'[i].pc \in {"run", "term"}}
    BY DEF UnderWay, Dying
  <2>2. UnderWay \cup Dying = {i \in DOMAIN task : task[i].pc \in {"run", "term"}}
    BY DEF UnderWay, Dying
  <2>3. j \in UnderWay' \cup Dying'
    BY <1>1, <1>2, <1>3, <2>1
  <2>4. UnderWay \cup Dying \subseteq UnderWay' \cup Dying'
    BY <1>2, <2>1, <2>2, <2>3
  <2> QED
    BY <1>1, <2>3, <2>4 DEF Gated, Advance
<1>8. Gated'
  BY <1>1, <1>2, <1>3, <1>7 DEF Gated, Advance
<1>9. Posted' /\ Served'
  BY <1>1, <1>2, <1>3 DEF Posted, Served, Advance, client
<1>10. Holders' = Holders /\ \A i \in Holders : task'[i].prior = task[i].prior
  BY <1>1, <1>2, <1>3 DEF Holders
<1>11. Kept'
  BY <1>1, <1>10 DEF Kept, Advance
<1> QED
  BY <1>6, <1>8, <1>9, <1>11

\* Every way in which a task ends.
LEMMA EndingStep ==
    ASSUME IInv, NEW j \in DOMAIN task,
           \/ SnapshotFails(j) \/ SpawnFails(j) \/ Terminated(j)
           \/ \E ok \in BOOLEAN : Exit(j, ok)
           \/ \E state \in {"done", "failed"} : OtherEnds(j, state)
    PROVE  IInv'
<1> USE DEF IInv
<1> DEFINE Rest == [i \in DOMAIN task \ {j} |-> task[i]]
<1>1. file \in Files /\ Garbled \in Files /\ spoiled \in BOOLEAN /\ task[j].prior \in Files
  BY DEF TypeOK, Garbled, Files, Tasks
<1>2. Fault => faults' \in 0..MaxFaults
  BY AgentAssumption DEF Fault, TypeOK
<1>3. faults \in 0..MaxFaults
  BY DEF TypeOK
<1>4. task[j].pc # "new" => task[j].kind = "prefill" /\ j \in Holders
  BY DEF TypeOK, Tasks, Gated, Holders
<1>5. PutBack(j) \in Files
  BY <1>1 DEF PutBack
<1>6. task' = Rest => Holders' = Holders \ {j} /\ \A i \in Holders' : task'[i] = task[i]
  BY DEF Holders
<1>7. curated /\ j \in Holders =>
        /\ PutBack(j) = task[j].prior /\ PutBack(j).kind # "missing"
        /\ ~ spoiled => ~ PutBack(j).temp
  BY DEF Kept, PutBack
<1>8. ASSUME task[j].kind = "prefill", task' = Rest, Fault, file' \in {file, Garbled},
             UNCHANGED <<spoiled, curated>>, task[j].pc = "new"
      PROVE  Kept'
  BY <1>6, <1>8 DEF Kept, Garbled, Holders
<1>9. ASSUME task' = Rest, j \in Holders, file' = PutBack(j),
             UNCHANGED <<spoiled, curated>>
      PROVE  Kept'
  BY <1>6, <1>7, <1>9 DEF Kept
<1>10. ASSUME task' = Rest, j \in Holders, file' \in {file, Garbled}, spoiled' = TRUE,
              curated' = curated
       PROVE  Kept'
  <2>1. Holders' = Holders \ {j} /\ \A i \in Holders' : task'[i] = task[i]
    BY <1>6, <1>10
  <2>2. curated => file'.kind # "missing"
    BY <1>10 DEF Kept, Garbled
  <2> QED
    BY <1>10, <2>1, <2>2 DEF Kept
<1>11. CASE SnapshotFails(j)
  <2>1. procs' = procs /\ j \notin procs \ unkilled
    BY <1>11 DEF SnapshotFails, Gated, UnderWay, Dying
  <2>2. /\ Done(j, "failed", FALSE) /\ Fault /\ file' \in {file, Garbled}
        /\ UNCHANGED <<exited, spoiled>> /\ task[j].kind = "prefill" /\ task[j].pc = "new"
    BY <1>11 DEF SnapshotFails
  <2>3. Kept'
    BY <1>8, <2>2 DEF Done
  <2> QED
    BY <1>1, <1>2, <2>1, <2>2, <2>3, DoneStep
<1>12. CASE SpawnFails(j)
  <2>1. procs' = procs /\ j \notin procs \ unkilled
    BY <1>12 DEF SpawnFails, Gated, UnderWay, Dying
  <2>2. /\ Done(j, "failed", FALSE) /\ Fault /\ file' = PutBack(j)
        /\ UNCHANGED <<exited, spoiled>> /\ j \in Holders
    BY <1>4, <1>12 DEF SpawnFails
  <2>3. Kept'
    BY <1>9, <2>2 DEF Done
  <2> QED
    BY <1>1, <1>2, <1>5, <2>1, <2>2, <2>3, DoneStep
<1>13. ASSUME NEW ok \in BOOLEAN, task[j].pc \in {"run", "term"}, procs' = procs \ {j},
              exited' = IF ok THEN exited \cup {<<j, task[j].work>>} ELSE exited,
              Returns(j, ok) \/ ReturnFails(j)
       PROVE  IInv'
  <2>1. task[j].kind = "prefill" /\ j \in Holders
    BY <1>4, <1>13
  <2>2. CASE Returns(j, ok)
    <3>1. Kept'
      BY <1>9, <2>1, <2>2 DEF Returns, Done
    <3> QED
      BY <1>1, <1>3, <1>5, <1>13, <2>1, <2>2, <3>1, DoneStep DEF Returns
  <2>3. CASE ReturnFails(j)
    <3>1. Kept'
      BY <1>10, <2>1, <2>3 DEF ReturnFails, Done
    <3> QED
      BY <1>1, <1>2, <1>13, <2>1, <2>3, <3>1, DoneStep DEF ReturnFails
  <2> QED
    BY <1>13, <2>2, <2>3
<1>14. CASE Terminated(j)
  BY <1>13, <1>14 DEF Terminated
<1>15. CASE \E ok \in BOOLEAN : Exit(j, ok)
  BY <1>13, <1>15 DEF Exit
<1>16. CASE \E state \in {"done", "failed"} : OtherEnds(j, state)
  <2>1. PICK state \in {"done", "failed"} : OtherEnds(j, state)
    BY <1>16
  <2>2. /\ Done(j, state, state = "done") /\ task[j].kind # "prefill"
        /\ UNCHANGED <<procs, file, faults, exited, spoiled>>
    BY <2>1 DEF OtherEnds
  <2>3. j \notin Holders /\ procs' = procs /\ j \notin procs \ unkilled
    BY <2>2 DEF Gated, Holders, UnderWay, Dying
  <2>4. Kept'
    <3>1. task' = Rest /\ file' = file /\ UNCHANGED <<spoiled, curated>>
      BY <2>2 DEF Done
    <3>2. Holders' = Holders /\ \A i \in Holders : task'[i] = task[i]
      BY <1>6, <2>3, <3>1
    <3> QED
      BY <3>1, <3>2 DEF Kept
  <2>5. (state = "done") \in BOOLEAN
    OBVIOUS
  <2> QED
    BY <1>1, <1>3, <2>2, <2>3, <2>4, <2>5, DoneStep
<1> QED
  BY <1>11, <1>12, <1>14, <1>15, <1>16

-----------------------------------------------------------------------------
(* Stops, crashes, boots and time.                                         *)

\* Nothing runs on an agent that is down, and it holds nothing.
LEMMA DownStep ==
    ASSUME IInv, Down, procs' \subseteq procs, procs' \subseteq unkilled',
           unkilled' \subseteq 1..created, file' \in Files, spoiled' \in BOOLEAN, Kept'
    PROVE  IInv'
<1> USE DEF IInv
<1>1. TypeOK'
  <2>1. jobs' = Empty /\ task' = Empty /\ DOMAIN Empty = {}
    BY DEF Down, Empty
  <2>2. /\ DOMAIN jobs' \subseteq 1..created' /\ jobs' \in [DOMAIN jobs' -> Snaps]
        /\ task' \in [DOMAIN task' -> Tasks']
        /\ \A j \in DOMAIN task' : Unfinished(jobs, j)'
    BY <2>1 DEF Empty
  <2>3. gate' \in [job : 0..created', work : AllWorks] /\ fetchJob' \in 0..created'
    BY DEF Down, TypeOK, NoGate, AllWorks
  <2>4. stops' \in 0..MaxStops
    BY AgentAssumption DEF Down, TypeOK
  <2>5. /\ up' \in BOOLEAN /\ curated' = curated /\ created' = created /\ calls' = calls /\ prunes' = prunes
        /\ faults' = faults /\ bak' = bak /\ call' = call /\ net' = {} /\ exited' = exited
    BY DEF Down
  <2> QED
    BY <2>2, <2>3, <2>4, <2>5 DEF TypeOK
<1>2. Gated' /\ Posted' /\ Served'
  BY DEF Down, Gated, Posted, Served, Empty, NoGate, UnderWay, Dying
<1> QED
  BY <1>1, <1>2

LEMMA StopStep ==
    ASSUME IInv, Stop \/ OrphanExits \/ Crash \/ Boot
    PROVE  IInv'
<1> USE DEF IInv
<1>1. file \in Files /\ spoiled \in BOOLEAN /\ \A j \in Holders : task[j].prior \in Files
  BY DEF TypeOK, Tasks, Holders
<1>2. Down => Holders' = {}
  BY DEF Down, Holders, Empty
<1>3. CASE Stop
  <2>1. /\ procs' \subseteq procs /\ procs' \subseteq unkilled'
        /\ unkilled' \subseteq 1..created
    BY <1>3 DEF Stop, Killed, Gated, Dying, TypeOK, Unfinished
  <2>2. file' \in Files /\ Kept'
    <3>1. CASE Holders = {}
      BY <1>1, <1>2, <1>3, <3>1 DEF Stop, Down, AfterCancel, Kept
    <3>2. CASE Holders # {}
      <4>1. PICK j \in Holders : file' = PutBack(j)
        BY <1>3, <3>2 DEF Stop, AfterCancel
      <4> QED
        BY <1>1, <1>2, <1>3, <4>1 DEF Stop, Down, PutBack, Kept
    <3> QED
      BY <3>1, <3>2
  <2> QED
    BY <1>1, <1>3, <2>1, <2>2, DownStep DEF Stop
<1>4. CASE Crash
  <2>1. Kept' /\ unkilled' \subseteq 1..created
    BY <1>2, <1>4 DEF Crash, Down, Kept, TypeOK
  <2> QED
    BY <1>1, <1>4, <2>1, DownStep DEF Crash
<1>5. CASE Boot
  BY <1>5 DEF Boot, TypeOK, Gated, Posted, Served, Kept, client, bounds, Unfinished, UnderWay, Dying,
              Holders
<1>6. CASE OrphanExits
  <2>1. /\ procs' \subseteq procs
        /\ UNCHANGED <<up, jobs, gate, fetchJob, task, created, file, bak, client,
                       bounds, history>>
    BY <1>6 DEF OrphanExits
  <2> QED
    BY <2>1 DEF TypeOK, Gated, Posted, Served, Kept, client, bounds, Unfinished, UnderWay,
                Dying, Holders
<1> QED
  BY <1>3, <1>4, <1>5, <1>6

\* Time changes ages only.
LEMMA TickStep ==
    ASSUME IInv, Tick
    PROVE  IInv'
<1> USE DEF IInv
<1>1. /\ DOMAIN task' = DOMAIN task
      /\ task' = [j \in DOMAIN task' |-> task'[j]]
      /\ \A j \in DOMAIN task : task'[j] = IF j \in UnderWay THEN [task[j] EXCEPT !.age = @ + 1]
                                                           ELSE task[j]
  BY DEF Tick
<1>2. ASSUME NEW j \in DOMAIN task
      PROVE  /\ task'[j] \in Tasks /\ task'[j].kind = task[j].kind
             /\ task'[j].work = task[j].work /\ task'[j].prior = task[j].prior
             /\ task'[j].pc = task[j].pc
  <2>1. task[j] \in Tasks
    BY DEF TypeOK
  <2>2. CASE j \in UnderWay
    BY <1>1, <2>1, <2>2, AgentAssumption DEF Tick, Tasks
  <2>3. CASE j \notin UnderWay
    BY <1>1, <2>1, <2>3
  <2> QED
    BY <2>2, <2>3
<1>3. task' \in [DOMAIN task' -> Tasks]
  BY <1>1, <1>2
<1>4. /\ call' \in Calls /\ call'.job = call.job /\ call'.pc = call.pc
      /\ call'.n = call.n /\ call'.kind = call.kind /\ call'.work = call.work
      /\ call'.end = call.end
  BY AgentAssumption DEF Tick, TypeOK, Calls
<1>5. TypeOK'
  BY <1>1, <1>3, <1>4 DEF TypeOK, Tick, bounds, Unfinished
<1>6. UnderWay' = UnderWay /\ Dying' = Dying /\ Holders' = Holders
  BY <1>1, <1>2 DEF UnderWay, Dying, Holders
<1>7. Gated'
  BY <1>1, <1>2, <1>6 DEF Gated, Tick
<1>8. Posted' /\ Served'
  BY <1>1, <1>2, <1>4 DEF Posted, Served, Tick
<1>9. Kept'
  BY <1>1, <1>2, <1>6 DEF Kept, Tick, Holders
<1> QED
  BY <1>5, <1>7, <1>8, <1>9

-----------------------------------------------------------------------------
(* The theorems.                                                           *)

\* The strengthening holds in every reachable state: it holds at the start
\* and every step of the client, the agent and its environment keeps it.
THEOREM Inductive == Spec => []IInv
<1>1. Init => IInv
  <2> SUFFICES ASSUME Init PROVE IInv
    OBVIOUS
  <2>1. TypeOK
    <3>1. jobs = Empty /\ task = Empty /\ DOMAIN Empty = {}
      BY DEF Init, Empty
    <3>2. /\ DOMAIN jobs \subseteq 1..created /\ jobs \in [DOMAIN jobs -> Snaps]
          /\ task \in [DOMAIN task -> Tasks]
          /\ \A j \in DOMAIN task : Unfinished(jobs, j)
      BY <3>1 DEF Empty
    <3>3. gate \in [job : 0..created, work : AllWorks] /\ fetchJob \in 0..created
      BY DEF Init, NoGate, AllWorks
    <3>4. file \in Files /\ bak \in Files
      <4>1. Curated \in Files /\ Missing \in Files
        BY AgentAssumption DEF Files, Curated, Missing
      <4> QED
        BY <4>1 DEF Init
    <3>5. call \in Calls /\ call.job <= created
      BY AgentAssumption DEF Init, Calls, Idle, Kinds, AllWorks
    <3>6. /\ 0 \in 0..MaxCalls /\ 0 \in 0..MaxPrunes /\ 0 \in 0..MaxFaults
          /\ 0 \in 0..MaxStops
      BY AgentAssumption
    <3> QED
      BY <3>2, <3>3, <3>4, <3>5, <3>6 DEF Init, TypeOK
  <2>2. Gated /\ Posted /\ Served
    BY DEF Init, Gated, Posted, Served, Empty, NoGate, UnderWay, Dying, Idle
  <2>3. Kept
    <3>1. Holders = {} /\ (curated => file = Curated)
      BY DEF Init, Holders, Empty
    <3>2. Curated.kind = "list" /\ Curated.temp = FALSE
      BY DEF Curated
    <3> QED
      BY <3>1, <3>2 DEF Kept
  <2> QED
    BY <2>1, <2>2, <2>3 DEF IInv
<1>2. IInv /\ [Next]_vars => IInv'
  <2> SUFFICES ASSUME IInv, [Next]_vars PROVE IInv'
    OBVIOUS
  <2>1. ASSUME NEW w \in Works, Send("prefill", w) PROVE IInv'
    BY <2>1, SendStep DEF Kinds, AllWorks
  <2>2. ASSUME NEW kind \in Kinds \ {"prefill"}, Send(kind, NoWork) PROVE IInv'
    BY <2>2, SendStep DEF AllWorks
  <2>3. CASE Lose \/ Poll \/ Ceiling \/ Budget
    BY <2>3, ClientStep
  <2>4. ASSUME NEW m \in net, Handle(m) PROVE IInv'
    BY <2>4, HandleStep
  <2>5. ASSUME NEW v \in Verdicts, PruneSelection(v) \/ PruneFails(v) PROVE IInv'
    BY <2>5, PruneStep
  <2>6. ASSUME NEW j \in DOMAIN task, Step(j) PROVE IInv'
    BY <2>6, SnapshotStep, AdvanceStep, EndingStep DEF Step
  <2>7. CASE Stop \/ OrphanExits \/ Crash \/ Boot
    BY <2>7, StopStep
  <2>8. CASE Tick
    BY <2>8, TickStep
  <2>9. CASE UNCHANGED vars
    BY <2>9 DEF IInv, TypeOK, Gated, Posted, Served, Kept, vars, agent, client, bounds,
                Unfinished, UnderWay, Dying, Holders
  <2> QED
    BY <2>1, <2>2, <2>3, <2>4, <2>5, <2>6, <2>7, <2>8, <2>9 DEF Next
<1> QED
  BY <1>1, <1>2, PTL DEF Spec

\* Types, and every task's job is known to the store as running, however small
\* the cap (jobs.py:48-56).
THEOREM TypeCorrect == Spec => []TypeOK
<1>1. IInv => TypeOK
  BY DEF IInv
<1> QED
  BY <1>1, Inductive, PTL

\* At most one SteamPrefill process is alive, but for those a stop met between
\* SIGTERM and SIGKILL: a process belongs to a prefill task, and every prefill
\* task holds the one gate (steam.py:46-49).
THEOREM SingleFlightCorrect == Spec => []SingleFlight
<1>1. ASSUME IInv PROVE SingleFlight
  <2>1. procs \ unkilled \subseteq {gate.job}
    BY <1>1 DEF IInv, Gated, UnderWay, Dying
  <2>2. procs \ unkilled = {} \/ procs \ unkilled = {gate.job}
    BY <2>1
  <2>3. Cardinality({}) = 0 /\ Cardinality({gate.job}) = 1
    BY FS_EmptySet, FS_Singleton
  <2> QED
    BY <2>2, <2>3 DEF SingleFlight
<1> QED
  BY <1>1, Inductive, PTL

\* For an operator who has made a selection, and unless a crash or a failed
\* write-back kept it there, the list of one app is in the file only while a run
\* holds it (prefill_driver.py:198-204).
THEOREM SelectionReturnedCorrect == Spec => []SelectionReturned
<1>1. IInv => SelectionReturned
  BY DEF IInv, Kept, SelectionReturned
<1> QED
  BY <1>1, Inductive, PTL

\* A prefill that is reported ok was a run of exactly that work which exited
\* with 0 (steam.py:109-125, prefill.py:352-391).
THEOREM PrefillHonestCorrect == Spec => PrefillHonest
<1> DEFINE Ok == call.pc = "poll" /\ call.kind = "prefill" /\ call'.end = "ok"
<1>1. ASSUME IInv, [Next]_vars, Ok
      PROVE  <<call.job, call.work>> \in exited'
  <2>1. call' # call
    BY <1>1 DEF IInv, Posted
  <2>2. CASE Poll
    <3>1. UNCHANGED exited /\ ~ Unfinished(jobs, call.job)
      BY <2>2 DEF Poll, End
    <3>2. call.job \in DOMAIN jobs /\ jobs[call.job].state = "done" /\ jobs[call.job].ok
      BY <1>1, <2>2 DEF Poll, End, Idle
    <3> QED
      BY <1>1, <3>1, <3>2 DEF IInv, Served
  <2>3. CASE Lose \/ Ceiling \/ Budget
    BY <1>1, <2>3 DEF Lose, Ceiling, Budget, End, Idle
  <2>4. ASSUME NEW kind, NEW work, Send(kind, work) PROVE FALSE
    BY <1>1, <2>4 DEF Send
  <2>5. ASSUME NEW m \in net, Handle(m) PROVE FALSE
    <3>1. PICK job : Reply(m, job)
      BY <2>5 DEF Handle, StartPrefill, StartFetch, StartPull, NewJob, OldJob
    <3> QED
      BY <1>1, <2>1, <3>1 DEF Reply
  <2>6. CASE Tick
    BY <1>1, <2>6 DEF Tick, IInv, TypeOK, Calls, Posted
  <2>7. ASSUME NEW v \in Verdicts, PruneSelection(v) \/ PruneFails(v) PROVE FALSE
    BY <2>1, <2>7 DEF PruneSelection, PruneFails, ToPrune, client
  <2>8. ASSUME NEW j \in DOMAIN task, Step(j) PROVE FALSE
    BY <2>1, <2>8 DEF Step, Snapshot, SnapshotFails, Spawn, SpawnFails, Exit, TimeOut, Terminated, OtherEnds,
                      Returns, ReturnFails, Done, Advance, client
  <2>9. CASE Stop \/ OrphanExits \/ Crash \/ Boot
    BY <2>1, <2>9 DEF Stop, OrphanExits, Crash, Boot, Down, client
  <2>10. CASE UNCHANGED vars
    BY <2>1, <2>10 DEF vars, client
  <2> QED
    BY <1>1, <2>2, <2>3, <2>4, <2>5, <2>6, <2>7, <2>8, <2>9, <2>10 DEF Next
<1>2. IInv /\ [Next]_vars => (Ok => <<call.job, call.work>> \in exited')
  BY <1>1
<1>3. IInv /\ [Next]_vars => [Ok => <<call.job, call.work>> \in exited']_vars
  BY <1>2
<1> QED
  BY <1>3, Inductive, PTL DEF Spec, PrefillHonest

\* A request is refused with 409 exactly while a run is alive: the gate is never
\* left behind by a job that is over, and no run is alive that does not hold it
\* (prefill_driver.py:143-169). What GateFreed waits for is the end of a run.
GateIsRun == InFlight <=> \E j \in DOMAIN task : task[j].kind = "prefill"

\* The gate and the runs agree, for any jobs kept, callers gone and crashes.
THEOREM GateIsRunCorrect == Spec => []GateIsRun
<1>1. ASSUME IInv PROVE GateIsRun
  <2>1. ASSUME InFlight PROVE \E j \in DOMAIN task : task[j].kind = "prefill"
    <3>1. gate.job \in DOMAIN task
      BY <1>1, <2>1 DEF IInv, Gated, InFlight, Unfinished
    <3> QED
      BY <1>1, <3>1 DEF IInv, Gated
  <2>2. ASSUME NEW j \in DOMAIN task, task[j].kind = "prefill" PROVE InFlight
    <3>1. gate.job = j
      BY <1>1, <2>2 DEF IInv, Gated
    <3>2. Unfinished(jobs, j) /\ DOMAIN jobs \subseteq 1..created /\ created \in Nat
      BY <1>1, <2>2 DEF IInv, TypeOK
    <3>3. j # 0
      BY <3>2 DEF Unfinished
    <3> QED
      BY <3>1, <3>2, <3>3 DEF InFlight
  <2> QED
    BY <2>1, <2>2 DEF GateIsRun
<1> QED
  BY <1>1, Inductive, PTL

=============================================================================
