--------------------------- MODULE JobQueue_proofs ---------------------------
(***************************************************************************)
(* Proofs about JobQueue, for any sets of games, platforms and requests    *)
(* and any bounds: its type invariant, the uniqueness of jobs in flight,   *)
(* the honesty of the recorded payload, and that the claimed row stays the *)
(* worker's, which are inductive together with InHand; then the honesty of *)
(* the recorded outcomes and of the monitors; and that the queue           *)
(* implements the ledger.                                                  *)
(***************************************************************************)
EXTENDS JobQueue, SequenceTheorems, TLAPS

\* The claimed row is no longer queued, and a row given to a handler has one.
InHand ==
    worker.job # 0 =>
        /\ jobs[worker.job].state # "queued"
        /\ worker.pc # "reject" => jobs[worker.job].key \in Handled

IInv == TypeOK /\ InHand /\ ClaimHeld /\ PayloadHonest /\ InFlightUnique

-----------------------------------------------------------------------------
(* How the table may change.                                               *)

\* Rows are only added, each of them queued, for a key with none in flight.
Grows ==
    /\ jobs' \in Seq(Row)
    /\ DOMAIN jobs \subseteq DOMAIN jobs'
    /\ \A i \in DOMAIN jobs : jobs'[i] = jobs[i]
    /\ \A i \in DOMAIN jobs' \ DOMAIN jobs : /\ jobs'[i].state = "queued"
                                             /\ Open(jobs'[i].key) = {}
    /\ \A i, j \in DOMAIN jobs' \ DOMAIN jobs : jobs'[i].key = jobs'[j].key => i = j

\* Rows keep their keys and sources, and no row is brought back in flight.
Advances ==
    /\ jobs' \in Seq(Row)
    /\ DOMAIN jobs' = DOMAIN jobs
    /\ \A i \in DOMAIN jobs : /\ jobs'[i].key = jobs[i].key
                              /\ jobs'[i].source = jobs[i].source
                              /\ jobs'[i].state \in Live => jobs[i].state \in Live

\* INSERT ... ON CONFLICT DO NOTHING adds at most one row, under a free key.
LEMMA InsertGrows ==
    ASSUME TypeOK, NEW key \in Keys, NEW flag \in BOOLEAN,
           NEW source \in {"scheduler", "api"}, Insert(key, flag, source)
    PROVE  Grows
<1>1. NewRow(key, flag, source) \in Row
  BY DEF NewRow, Row, Live
<1>2. jobs \in Seq(Row)
  BY DEF TypeOK
<1>3. CASE Open(key) = {}
  <2>1. jobs' = Append(jobs, NewRow(key, flag, source))
    BY <1>3 DEF Insert
  <2>2. jobs'[Len(jobs) + 1].key = key /\ jobs'[Len(jobs) + 1].state = "queued"
    BY <2>1, <1>2 DEF NewRow
  <2>3. DOMAIN jobs' = DOMAIN jobs \cup {Len(jobs) + 1}
    BY <2>1, <1>2, <1>1
  <2>4. jobs' \in Seq(Row) /\ \A i \in DOMAIN jobs : jobs'[i] = jobs[i]
    BY <2>1, <1>2, <1>1
  <2> QED BY <2>2, <2>3, <2>4, <1>3 DEF Grows
<1>4. CASE Open(key) # {}
  BY <1>4, <1>2 DEF Insert, Grows
<1> QED BY <1>3, <1>4

\* Both kinds of change keep at most one job in flight per key.
LEMMA GrowsUnique ==
    ASSUME TypeOK, InFlightUnique, Grows PROVE InFlightUnique'
<1> SUFFICES ASSUME NEW i \in DOMAIN jobs', NEW j \in DOMAIN jobs',
                    jobs'[i].key = jobs'[j].key,
                    {jobs'[i].state, jobs'[j].state} \subseteq Live
             PROVE  i = j
  BY DEF InFlightUnique
<1>1. CASE i \in DOMAIN jobs /\ j \in DOMAIN jobs
  BY <1>1 DEF Grows, InFlightUnique
<1>2. CASE i \notin DOMAIN jobs /\ j \notin DOMAIN jobs
  BY <1>2 DEF Grows
<1>3. CASE i \in DOMAIN jobs /\ j \notin DOMAIN jobs
  BY <1>3 DEF Grows, Open
<1>4. CASE i \notin DOMAIN jobs /\ j \in DOMAIN jobs
  BY <1>4 DEF Grows, Open
<1> QED BY <1>1, <1>2, <1>3, <1>4

\* A table whose rows only advance opens no second row of a key.
LEMMA AdvancesUnique ==
    ASSUME InFlightUnique, Advances PROVE InFlightUnique'
BY DEF InFlightUnique, Advances

-----------------------------------------------------------------------------
(* How each action changes the table.                                      *)

\* A function on 1 .. n is a sequence of length n.
LEMMA FunctionIsSeq ==
    ASSUME NEW S, NEW n \in Nat, NEW f \in [1 .. n -> S]
    PROVE  f \in Seq(S) /\ Len(f) = n /\ DOMAIN f = 1 .. n
OBVIOUS

\* The scheduler's bulk insert adds one row per game, each under a free key.
LEMMA TickPrefillGrows ==
    ASSUME TypeOK, TickPrefill PROVE Grows
<1> DEFINE free == {g \in Games : /\ <<"prefill", g>> \in Offered
                                  /\ Open(<<"prefill", g>>) = {}}
<1>1. PICK n \in 0 .. MaxJobs : \E order \in [1 .. n -> free] :
            /\ \A i, j \in 1 .. n : order[i] = order[j] => i = j
            /\ jobs' = jobs \o [i \in 1 .. n |->
                          NewRow(<<"prefill", order[i]>>, FALSE, "scheduler")]
  BY DEF TickPrefill
<1>2. PICK order \in [1 .. n -> free] :
            /\ \A i, j \in 1 .. n : order[i] = order[j] => i = j
            /\ jobs' = jobs \o [i \in 1 .. n |->
                          NewRow(<<"prefill", order[i]>>, FALSE, "scheduler")]
  BY <1>1
<1> DEFINE new == [i \in 1 .. n |-> NewRow(<<"prefill", order[i]>>, FALSE, "scheduler")]
<1>3. n \in Nat
  BY <1>1, JobQueueAssumption
<1>4. \A i \in 1 .. n : /\ order[i] \in Games
                        /\ Open(<<"prefill", order[i]>>) = {}
                        /\ new[i] = NewRow(<<"prefill", order[i]>>, FALSE, "scheduler")
                        /\ new[i].key = <<"prefill", order[i]>>
                        /\ new[i].state = "queued"
                        /\ new[i] \in Row
  BY <1>2 DEF NewRow, Row, Live, Keys, Handled, GameKeys
<1>5. jobs \in Seq(Row) /\ new \in Seq(Row) /\ Len(new) = n
  <2>1. new \in [1 .. n -> Row]
    BY <1>4
  <2>2. jobs \in Seq(Row)
    BY DEF TypeOK
  <2> HIDE DEF new
  <2> QED BY <2>1, <2>2, <1>3, FunctionIsSeq
<1> HIDE DEF new
<1>6. jobs' = jobs \o new
  BY <1>2 DEF new
<1>7. /\ jobs' \in Seq(Row)
      /\ Len(jobs') = Len(jobs) + n
      /\ Len(jobs) \in Nat
      /\ DOMAIN jobs = 1 .. Len(jobs) /\ DOMAIN jobs' = 1 .. Len(jobs) + n
      /\ \A i \in 1 .. Len(jobs) + n :
            jobs'[i] = IF i <= Len(jobs) THEN jobs[i] ELSE new[i - Len(jobs)]
  <2>1. jobs' \in Seq(Row) /\ Len(jobs') = Len(jobs) + n
    BY <1>5, <1>6, ConcatProperties
  <2>2. Len(jobs) \in Nat /\ DOMAIN jobs = 1 .. Len(jobs)
    BY <1>5, LenProperties
  <2>3. DOMAIN jobs' = 1 .. Len(jobs) + n
    BY <2>1, LenProperties
  <2>4. \A i \in 1 .. Len(jobs) + n :
            jobs'[i] = IF i <= Len(jobs) THEN jobs[i] ELSE new[i - Len(jobs)]
    BY <1>5, <1>6, ConcatProperties
  <2> QED BY <2>1, <2>2, <2>3, <2>4
<1>8. \A i \in DOMAIN jobs' \ DOMAIN jobs :
        i - Len(jobs) \in 1 .. n /\ jobs'[i] = new[i - Len(jobs)]
  BY <1>3, <1>7
<1>9. \A i \in DOMAIN jobs' \ DOMAIN jobs :
        /\ i - Len(jobs) \in 1 .. n
        /\ jobs'[i].key = <<"prefill", order[i - Len(jobs)]>>
        /\ jobs'[i].state = "queued"
        /\ Open(jobs'[i].key) = {}
  BY <1>4, <1>8
<1>10. \A i, j \in DOMAIN jobs' \ DOMAIN jobs :
         jobs'[i].key = jobs'[j].key => i = j
  <2> SUFFICES ASSUME NEW i \in DOMAIN jobs' \ DOMAIN jobs,
                      NEW j \in DOMAIN jobs' \ DOMAIN jobs,
                      jobs'[i].key = jobs'[j].key
               PROVE  i = j
    OBVIOUS
  <2>1. order[i - Len(jobs)] = order[j - Len(jobs)]
    BY <1>9
  <2>2. i - Len(jobs) = j - Len(jobs)
    BY <2>1, <1>2, <1>9
  <2>3. i \in Nat /\ j \in Nat /\ Len(jobs) \in Nat
    BY <1>3, <1>7
  <2> QED BY <2>2, <2>3
<1>11. /\ DOMAIN jobs \subseteq DOMAIN jobs'
       /\ \A i \in DOMAIN jobs : jobs'[i] = jobs[i]
  BY <1>3, <1>7
<1> QED BY <1>7, <1>9, <1>10, <1>11 DEF Grows

\* A row with another state, or with the payload of a forced prefill, is a row.
LEMMA StateChange ==
    ASSUME NEW row \in Row, NEW s \in Live \cup Terminal
    PROVE  /\ [row EXCEPT !.state = s] \in Row
           /\ [row EXCEPT !.state = s].key = row.key
           /\ [row EXCEPT !.state = s].flag = row.flag
           /\ [row EXCEPT !.state = s].source = row.source
           /\ [row EXCEPT !.state = s].state = s
BY DEF Row

\* A row stays a row when its payload is upgraded, under the same key and state.
LEMMA FlagChange ==
    ASSUME NEW row \in Row
    PROVE  /\ [row EXCEPT !.flag = TRUE] \in Row
           /\ [row EXCEPT !.flag = TRUE].key = row.key
           /\ [row EXCEPT !.flag = TRUE].state = row.state
           /\ [row EXCEPT !.flag = TRUE].source = row.source
BY DEF Row

\* Replacing one row of a table.
LEMMA Replace ==
    ASSUME NEW table \in Seq(Row), NEW i \in DOMAIN table, NEW row \in Row
    PROVE  /\ [table EXCEPT ![i] = row] \in Seq(Row)
           /\ DOMAIN [table EXCEPT ![i] = row] = DOMAIN table
           /\ [table EXCEPT ![i] = row][i] = row
           /\ \A j \in DOMAIN table : j # i => [table EXCEPT ![i] = row][j] = table[j]
OBVIOUS

\* What an UPDATE of one row's state, or of its payload, leaves behind.
LEMMA SetState ==
    ASSUME NEW table \in Seq(Row), NEW i \in DOMAIN table, NEW s \in Live \cup Terminal
    PROVE  LET new == [table EXCEPT ![i].state = s] IN
           /\ new \in Seq(Row)
           /\ DOMAIN new = DOMAIN table
           /\ new[i].key = table[i].key /\ new[i].flag = table[i].flag
           /\ new[i].source = table[i].source /\ new[i].state = s
           /\ \A j \in DOMAIN table : j # i => new[j] = table[j]
<1> DEFINE row == [table[i] EXCEPT !.state = s]
<1>1. table[i] \in Row
  OBVIOUS
<1>2. row \in Row /\ row.key = table[i].key /\ row.flag = table[i].flag
      /\ row.source = table[i].source /\ row.state = s
  BY <1>1, StateChange
<1>3. [table EXCEPT ![i].state = s] = [table EXCEPT ![i] = row]
  BY Zenon
<1> HIDE DEF row
<1> QED BY <1>2, <1>3, Replace

\* Upgrading the payload of one row leaves every other row alone.
LEMMA SetFlag ==
    ASSUME NEW table \in Seq(Row), NEW i \in DOMAIN table
    PROVE  LET new == [table EXCEPT ![i].flag = TRUE] IN
           /\ new \in Seq(Row)
           /\ DOMAIN new = DOMAIN table
           /\ new[i].key = table[i].key /\ new[i].state = table[i].state
           /\ new[i].source = table[i].source
           /\ \A j \in DOMAIN table : j # i => new[j] = table[j]
<1> DEFINE row == [table[i] EXCEPT !.flag = TRUE]
<1>1. table[i] \in Row
  OBVIOUS
<1>2. row \in Row /\ row.key = table[i].key /\ row.state = table[i].state
      /\ row.source = table[i].source
  BY <1>1, FlagChange
<1>3. [table EXCEPT ![i].flag = TRUE] = [table EXCEPT ![i] = row]
  BY Zenon
<1> HIDE DEF row
<1> QED BY <1>2, <1>3, Replace

\* Changing the state or the payload of one row, never to bring it back.
LEMMA ClaimAdvances ==
    ASSUME TypeOK, Claim PROVE Advances
<1>1. PICK i \in Queued : jobs' = [jobs EXCEPT ![i].state = "running"]
  BY DEF Claim
<1>2. i \in DOMAIN jobs /\ jobs[i].state = "queued" /\ jobs \in Seq(Row)
  BY DEF Queued, TypeOK
<1>3. "running" \in Live \cup Terminal
  BY DEF Live
<1> DEFINE new == [jobs EXCEPT ![i].state = "running"]
<1>4. /\ new \in Seq(Row) /\ DOMAIN new = DOMAIN jobs
      /\ new[i].key = jobs[i].key /\ new[i].source = jobs[i].source
      /\ \A j \in DOMAIN jobs : j # i => new[j] = jobs[j]
  BY <1>2, <1>3, SetState
<1> HIDE DEF new
<1> QED BY <1>1, <1>2, <1>4 DEF Advances, Live, new

\* A force upgrade advances the table, and no row's state.
LEMMA UpgradeAdvances ==
    ASSUME TypeOK, NEW r \in Reqs, Upgrade(r)
    PROVE  Advances /\ \A i \in DOMAIN jobs : jobs'[i].state = jobs[i].state
<1>1. reqs[r].id \in DOMAIN jobs /\ jobs \in Seq(Row)
  BY DEF TypeOK, Upgrade
<1>2. \/ jobs' = [jobs EXCEPT ![reqs[r].id].flag = TRUE]
      \/ jobs' = jobs
  BY DEF Upgrade
<1> QED BY <1>1, <1>2, SetFlag DEF Advances

\* A mark only advances the table.
LEMMA MarkAdvances ==
    ASSUME TypeOK, MarkJob PROVE Advances
<1>1. worker.job \in DOMAIN jobs /\ jobs \in Seq(Row)
  BY DEF TypeOK, MarkJob
<1>2. \/ jobs' = jobs
      \/ jobs' = [jobs EXCEPT ![worker.job].state = "succeeded"]
      \/ jobs' = [jobs EXCEPT ![worker.job].state = "failed"]
  BY DEF MarkJob, Mark
<1>3. /\ {"succeeded", "failed"} \subseteq Live \cup Terminal
      /\ "succeeded" \notin Live /\ "failed" \notin Live
  BY DEF Live, Terminal
<1>4. ASSUME NEW s \in {"succeeded", "failed"},
             jobs' = [jobs EXCEPT ![worker.job].state = s]
      PROVE  Advances
  <2> DEFINE new == [jobs EXCEPT ![worker.job].state = s]
  <2>1. /\ new \in Seq(Row) /\ DOMAIN new = DOMAIN jobs
        /\ new[worker.job].key = jobs[worker.job].key /\ new[worker.job].state = s
        /\ new[worker.job].source = jobs[worker.job].source
        /\ \A j \in DOMAIN jobs : j # worker.job => new[j] = jobs[j]
    BY <1>1, <1>3, SetState
  <2> HIDE DEF new
  <2> QED BY <1>1, <1>3, <1>4, <2>1 DEF Advances, new
<1>5. CASE jobs' = jobs
  BY <1>1, <1>5 DEF Advances
<1> QED BY <1>2, <1>4, <1>5

\* The boot reaper only advances the table: whatever is running has failed.
LEMMA ReapAdvances ==
    ASSUME TypeOK, Reap
    PROVE  /\ Advances
           /\ \A i \in DOMAIN jobs :
                jobs'[i].state = IF jobs[i].state = "running" THEN "failed" ELSE jobs[i].state
<1>1. jobs \in Seq(Row) /\ "failed" \in Live \cup Terminal /\ "failed" \notin Live
  BY DEF TypeOK, Live, Terminal
<1>2. ASSUME NEW i \in DOMAIN jobs
      PROVE  /\ jobs'[i] \in Row
             /\ jobs'[i].key = jobs[i].key /\ jobs'[i].source = jobs[i].source
             /\ jobs'[i].state = IF jobs[i].state = "running" THEN "failed" ELSE jobs[i].state
             /\ jobs'[i].state \in Live => jobs[i].state \in Live
  <2>1. jobs[i] \in Row
    BY <1>1
  <2>2. IF jobs[i].state = "running"
          THEN jobs'[i] = [jobs[i] EXCEPT !.state = "failed"] ELSE jobs'[i] = jobs[i]
    BY Zenon DEF Reap
  <2>3. CASE jobs[i].state # "running"
    BY <2>1, <2>2, <2>3
  <2>4. CASE jobs[i].state = "running"
    <3> DEFINE row == [jobs[i] EXCEPT !.state = "failed"]
    <3>1. row \in Row /\ row.key = jobs[i].key /\ row.state = "failed" /\ row.source = jobs[i].source
      BY <2>1, <1>1, StateChange
    <3>2. jobs'[i] = row
      BY <2>2, <2>4
    <3> HIDE DEF row
    <3> QED BY <3>1, <3>2, <2>4, <1>1
  <2> QED BY <2>3, <2>4
<1>3. DOMAIN jobs' = DOMAIN jobs /\ jobs' = [i \in DOMAIN jobs |-> jobs'[i]]
  BY Zenon DEF Reap
<1>4. jobs' \in [1 .. Len(jobs) -> Row] /\ Len(jobs) \in Nat
  BY <1>1, <1>2, <1>3
<1>5. jobs' \in Seq(Row)
  BY <1>4
<1> QED BY <1>2, <1>3, <1>5 DEF Advances

-----------------------------------------------------------------------------
(* The invariant holds at first, and every action keeps it.                *)

\* The invariant holds in the tables that the process may find at boot.
LEMMA InitInv == Init => IInv
<1> SUFFICES ASSUME Init PROVE IInv
  OBVIOUS
<1> USE DEF Init
<1>1. \A k \in Legacy : <<NewRow(k, FALSE, "api")>> \in Seq(Row)
  BY DEF NewRow, Row, Live, Keys
<1>2. jobs \in Seq(Row)
  <2>1. jobs = <<>> \/ \E k \in Legacy : jobs = <<NewRow(k, FALSE, "api")>>
    BY Zenon
  <2> QED BY <1>1, <2>1, EmptySeq
<1>3. <<"sweep", NoScope>> \in Keys
  BY DEF Keys, Handled, GlobalKeys
<1>4. IdleReq \in Req
  BY <1>3 DEF IdleReq, Req, Codes
<1>5. TypeOK
  BY <1>2, <1>4 DEF TypeOK, NoJob, MarkAttempts, IdleReq, Monitored, Worker
<1>6. InFlightUnique
  <2>1. CASE jobs = <<>>
    BY <2>1 DEF InFlightUnique
  <2>2. ASSUME NEW k \in Legacy, jobs = <<NewRow(k, FALSE, "api")>>
        PROVE  InFlightUnique
    BY <2>2 DEF InFlightUnique
  <2> QED BY <2>1, <2>2
<1> QED BY <1>5, <1>6 DEF IInv, InHand, ClaimHeld, PayloadHonest, NoJob

\* Adding rows disturbs neither the worker's row nor the types.
LEMMA GrowsInv ==
    ASSUME IInv, Grows, UNCHANGED worker,
           reqs' \in [Reqs -> Req],
           \A r \in Reqs : reqs'[r].id = reqs[r].id /\ (reqs'[r].pc = "upgrade" => reqs'[r] = reqs[r]),
           UNCHANGED <<proc, kuma, faults, restarts, returned>>
    PROVE  IInv'
<1>1. InFlightUnique'
  BY GrowsUnique DEF IInv
<1>2. TypeOK'
  BY DEF IInv, TypeOK, Grows
<1>3. worker.job # 0 => worker.job \in DOMAIN jobs /\ jobs'[worker.job] = jobs[worker.job]
  BY DEF IInv, TypeOK, Grows
<1>4. (InHand /\ ClaimHeld /\ PayloadHonest)'
  BY <1>3 DEF IInv, TypeOK, InHand, ClaimHeld, PayloadHonest
<1> QED BY <1>1, <1>2, <1>4 DEF IInv

\* A step that leaves the table and the worker alone.
LEMMA FrameInv ==
    ASSUME IInv, UNCHANGED <<jobs, worker, returned>>, TypeOK'
    PROVE  IInv'
BY DEF IInv, InHand, ClaimHeld, PayloadHonest, InFlightUnique

\* The scheduler's and the token exchange's inserts preserve the invariant.
LEMMA TicksInv ==
    ASSUME IInv,
           \/ \E k \in Offered \ GameKeys : Tick(k)
           \/ TickPrefill
           \/ \E p \in Platforms : EpicAuth(p)
    PROVE  IInv'
<1>1. ASSUME NEW k \in Offered \ GameKeys, Tick(k) PROVE IInv'
  <2>1. Grows
    BY <1>1, InsertGrows, JobQueueAssumption DEF IInv, Tick, Keys
  <2> QED BY <1>1, <2>1, GrowsInv DEF IInv, TypeOK, Tick
<1>2. CASE TickPrefill
  <2>1. Grows
    BY <1>2, TickPrefillGrows DEF IInv
  <2> QED BY <1>2, <2>1, GrowsInv DEF IInv, TypeOK, TickPrefill
<1>3. ASSUME NEW p \in Platforms, EpicAuth(p) PROVE IInv'
  <2>1. Grows
    BY <1>3, InsertGrows DEF IInv, EpicAuth, Keys, Handled, SyncKeys
  <2> QED BY <1>3, <2>1, GrowsInv DEF IInv, TypeOK, EpicAuth
<1> QED BY <1>1, <1>2, <1>3

\* The row a request reads is the one in flight under its key.
LEMMA OldestIsOpen ==
    ASSUME TypeOK, InFlightUnique, NEW key, Open(key) # {}
    PROVE  OldestOpen(key) \in DOMAIN jobs /\ OldestOpen(key) # 0
<1>1. \A i, j \in Open(key) : i = j /\ i \in Nat \ {0}
  BY DEF Open, TypeOK, InFlightUnique
<1>2. \E i \in Open(key) : \A j \in Open(key) : i <= j
  BY <1>1
<1>3. OldestOpen(key) \in Open(key)
  BY <1>2 DEF OldestOpen
<1> QED BY <1>1, <1>3 DEF Open

\* What the steps of a request make of its record.
LEMMA ReqHolds ==
    ASSUME NEW q \in Req, NEW i \in Nat
    PROVE  /\ [q EXCEPT !.id = i] \in Req
           /\ [q EXCEPT !.id = i].id = i /\ [q EXCEPT !.id = i].pc = q.pc
BY DEF Req

\* A request that is answered keeps the row it found.
LEMMA ReqAnswers ==
    ASSUME NEW q \in Req, NEW i \in Nat, NEW c \in Codes
    PROVE  /\ Answered(q, c, i) \in Req
           /\ Answered(q, c, i).id = i
           /\ Answered(q, c, i).pc = "answered"
<1> DEFINE a == [q EXCEPT !.pc = "answered", !.code = c]
<1>1. a \in Req /\ a.pc = "answered"
  BY DEF Req
<1>2. Answered(q, c, i) = [a EXCEPT !.id = i]
  BY DEF Answered
<1> HIDE DEF a
<1> QED BY <1>1, <1>2, ReqHolds

\* One request gets a new, well-formed record; the table only grows or advances.
LEMMA RequestType ==
    ASSUME TypeOK, NEW r \in Reqs, NEW q \in Req,
           q.id \in {0} \cup DOMAIN jobs, q.pc = "upgrade" => q.id # 0,
           reqs' = [reqs EXCEPT ![r] = q],
           jobs' \in Seq(Row), DOMAIN jobs \subseteq DOMAIN jobs',
           UNCHANGED <<worker, proc, kuma, restarts, returned>>, faults' \in Nat
    PROVE  TypeOK'
BY DEF TypeOK

\* Every statement of a trigger request preserves the invariant.
LEMMA RequestsInv ==
    ASSUME IInv, NEW r \in Reqs,
           \/ \E k \in Offered, flag \in BOOLEAN : Request(r, k, flag)
           \/ RequestStep(r)
           \/ RequestFault(r)
    PROVE  IInv'
<1> USE DEF IInv
<1> DEFINE q == reqs[r]
<1>a. q \in Req /\ q.id \in {0} \cup DOMAIN jobs /\ jobs \in Seq(Row) /\ faults \in Nat
  BY DEF TypeOK
<1>b. <<"sweep", NoScope>> \in Keys /\ {0, 202, 503} \subseteq Codes /\ 0 \in Nat
  BY DEF Keys, Handled, GlobalKeys, Codes
<1>d. ASSUME NEW i \in Nat
      PROVE  Answered(q, 202, i) \in Req /\ Answered(q, 202, i).id = i
             /\ Answered(q, 202, i).pc = "answered"
  <2> DEFINE c == 202
  <2>1. c \in Codes
    BY DEF Codes
  <2>2. q \in Req
    BY <1>a
  <2> HIDE DEF c, q
  <2>3. Answered(q, c, i) \in Req /\ Answered(q, c, i).id = i
        /\ Answered(q, c, i).pc = "answered"
    BY <2>1, <2>2, ReqAnswers
  <2> QED BY <2>3 DEF c
<1>c. ASSUME NEW n \in Req, n.id \in {0} \cup DOMAIN jobs, n.pc = "upgrade" => n.id # 0,
             reqs' = [reqs EXCEPT ![r] = n],
             UNCHANGED <<jobs, worker, proc, kuma, restarts, returned>>, faults' \in Nat
      PROVE  IInv'
  <2>1. jobs' \in Seq(Row) /\ DOMAIN jobs \subseteq DOMAIN jobs'
    BY <1>a, <1>c
  <2>2. TypeOK'
    BY <1>c, <2>1, RequestType
  <2> QED BY <1>c, <2>2, FrameInv
<1>1. ASSUME NEW k \in Offered, NEW flag \in BOOLEAN, Request(r, k, flag) PROVE IInv'
  <2> DEFINE n == [IdleReq EXCEPT !.key = k, !.flag = flag,
                     !.pc = IF k \in GameKeys THEN "check" ELSE "insert"]
  <2>1. k \in Keys
    BY JobQueueAssumption DEF Keys
  <2>2. n \in Req /\ n.id = 0 /\ n.pc # "upgrade"
    BY <2>1 DEF IdleReq, Req, Codes
  <2>3. reqs' = [reqs EXCEPT ![r] = n]
    BY <1>1, Zenon DEF Request
  <2> HIDE DEF n
  <2> QED BY <1>1, <1>a, <1>c, <2>2, <2>3 DEF Request
<1>2. CASE CheckMiss(r)
  <2> DEFINE n == [q EXCEPT !.pc = "insert"]
  <2>1. n \in Req /\ n.pc = "insert" /\ n.id = q.id
    BY <1>a DEF Req
  <2>2. reqs' = [reqs EXCEPT ![r] = n]
    BY <1>2, Zenon DEF CheckMiss, Goto
  <2> HIDE DEF n
  <2> QED BY <1>2, <1>a, <1>c, <2>1, <2>2 DEF CheckMiss
<1>3. CASE CheckHit(r)
  <2> DEFINE i == OldestOpen(reqs[r].key)
             u == [q EXCEPT !.pc = "upgrade", !.id = i]
             n == Answered(q, 202, i)
  <2>1. i \in DOMAIN jobs /\ i # 0 /\ i \in Nat
    <3>1. i \in DOMAIN jobs /\ i # 0
      BY <1>3, OldestIsOpen DEF CheckHit
    <3> QED BY <3>1, <1>a
  <2> HIDE DEF i
  <2>2. n \in Req /\ n.id = i /\ n.pc = "answered"
    BY <1>a, <1>b, <2>1, <1>d
  <2>5. u \in Req /\ u.id = i
    BY <1>a, <2>1 DEF Req
  <2>3. reqs' = [reqs EXCEPT ![r] = u] \/ reqs' = [reqs EXCEPT ![r] = n]
    BY <1>3, Zenon DEF CheckHit, Answer, i
  <2>4. UNCHANGED <<jobs, worker, proc, kuma, restarts, returned>> /\ faults' \in Nat
    BY <1>3, <1>a DEF CheckHit
  <2> HIDE DEF u, n
  <2> QED BY <1>a, <1>c, <2>1, <2>2, <2>3, <2>4, <2>5
<1>4. CASE Upgrade(r)
  <2> DEFINE i == reqs[r].id
             n == Answered(q, 202, i)
  <2>1. i \in DOMAIN jobs /\ i \in Nat
    BY <1>4, <1>a DEF TypeOK, Upgrade
  <2>2. Advances
    BY <1>4, UpgradeAdvances
  <2>3. InFlightUnique'
    BY <2>2, AdvancesUnique
  <2>4. TypeOK'
    <3>1. n \in Req /\ n.id = i /\ n.pc = "answered"
      BY <1>a, <1>b, <2>1, <1>d
    <3>2. reqs' = [reqs EXCEPT ![r] = n]
      BY <1>4, Zenon DEF Upgrade, Answer
    <3>3. UNCHANGED <<worker, proc, kuma, restarts, returned>> /\ faults' \in Nat
      BY <1>4, <1>a DEF Upgrade
    <3> HIDE DEF n
    <3> QED BY <2>1, <2>2, <3>1, <3>2, <3>3, RequestType DEF Advances
  <2>5. \A j \in DOMAIN jobs : jobs[j].state # "queued" => jobs'[j] = jobs[j]
    <3>1. CASE jobs[i].state = "queued"
      <4>1. jobs' = [jobs EXCEPT ![i].flag = TRUE]
        BY <1>4, <3>1 DEF Upgrade
      <4> QED BY <1>a, <2>1, <3>1, <4>1, SetFlag
    <3>2. CASE jobs[i].state # "queued"
      BY <1>4, <3>2 DEF Upgrade
    <3> QED BY <3>1, <3>2
  <2>6. UNCHANGED worker
    BY <1>4 DEF Upgrade
  <2>7. (InHand /\ ClaimHeld /\ PayloadHonest)'
    BY <2>5, <2>6 DEF TypeOK, InHand, ClaimHeld, PayloadHonest
  <2> QED BY <2>3, <2>4, <2>7
<1>5. CASE InsertRow(r)
  <2> DEFINE n == [q EXCEPT !.pc = "reread"]
  <2>1. Grows
    BY <1>5, <1>a, InsertGrows DEF InsertRow, Req
  <2>2. n \in Req /\ n.pc = "reread" /\ n.id = q.id
    BY <1>a DEF Req
  <2>3. reqs' = [reqs EXCEPT ![r] = n]
    BY <1>5, Zenon DEF InsertRow, Goto
  <2> HIDE DEF n
  <2>4. /\ reqs' \in [Reqs -> Req]
        /\ \A p \in Reqs : reqs'[p].id = reqs[p].id
                          /\ (reqs'[p].pc = "upgrade" => reqs'[p] = reqs[p])
    BY <2>2, <2>3 DEF TypeOK
  <2>5. UNCHANGED worker /\ UNCHANGED <<proc, kuma, faults, restarts, returned>>
    BY <1>5 DEF InsertRow
  <2> QED BY <2>1, <2>4, <2>5, GrowsInv
<1>6. CASE Reread(r)
  <2> DEFINE i == OldestOpen(reqs[r].key)
             m == Answered(q, 503, 0)
             n == Answered(q, 202, i)
  <2>1. Open(q.key) # {} => i \in DOMAIN jobs /\ i \in Nat
    BY <1>a, OldestIsOpen
  <2> HIDE DEF i
  <2>2. \/ m \in Req /\ m.id = 0 /\ m.pc = "answered" /\ reqs' = [reqs EXCEPT ![r] = m]
        \/ n \in Req /\ n.id \in DOMAIN jobs /\ n.pc = "answered" /\ reqs' = [reqs EXCEPT ![r] = n]
    <3>1. CASE Open(q.key) = {}
      <4>1. reqs' = [reqs EXCEPT ![r] = m]
        BY <1>6, <3>1, Zenon DEF Reread, Answer
      <4>2. m \in Req /\ m.id = 0 /\ m.pc = "answered"
        BY <1>a, <1>b, ReqAnswers, SMTT(30)
      <4> QED BY <4>1, <4>2
    <3>2. CASE Open(q.key) # {}
      <4>1. reqs' = [reqs EXCEPT ![r] = n]
        BY <1>6, <3>2, Zenon DEF Reread, Answer, i
      <4>2. n \in Req /\ n.id = i /\ n.pc = "answered"
        BY <1>a, <1>b, <2>1, <3>2, ReqAnswers
      <4> HIDE DEF n
      <4> QED BY <4>1, <4>2, <2>1, <3>2
    <3> QED BY <3>1, <3>2
  <2>3. UNCHANGED <<jobs, worker, proc, kuma, restarts, returned>> /\ faults' \in Nat
    BY <1>6, <1>a DEF Reread
  <2> HIDE DEF m, n
  <2> QED BY <1>c, <2>2, <2>3
<1>7. CASE Reply(r)
  <2>1. IdleReq \in Req /\ IdleReq.id = 0 /\ IdleReq.pc # "upgrade"
    BY <1>b DEF IdleReq, Req, Codes
  <2> QED BY <1>7, <1>a, <1>c, <2>1 DEF Reply
<1>8. CASE RequestFault(r)
  <2> DEFINE m == [q EXCEPT !.pc = "reread"]
             n == Answered(q, 503, 0)
  <2>1. m \in Req /\ m.id = q.id /\ m.pc = "reread"
    BY <1>a DEF Req
  <2>4. n \in Req /\ n.id = 0 /\ n.pc = "answered"
    BY <1>a, <1>b, ReqAnswers, SMTT(30)
  <2>2. reqs' = [reqs EXCEPT ![r] = m] \/ reqs' = [reqs EXCEPT ![r] = n]
    BY <1>8, Zenon DEF RequestFault, Goto, Answer
  <2>3. UNCHANGED <<jobs, worker, proc, kuma, restarts, returned>> /\ faults' \in Nat
    BY <1>8, <1>a DEF RequestFault, Fault
  <2> HIDE DEF m, n
  <2> QED BY <1>a, <1>c, <2>1, <2>2, <2>3, <2>4
<1> QED BY <1>1, <1>2, <1>3, <1>4, <1>5, <1>6, <1>7, <1>8 DEF RequestStep

\* A worker that keeps its job, or has none, and no other part of the state:
\* the shape of the steps that only move the worker.
LEMMA WorkerMoves ==
    ASSUME IInv, UNCHANGED <<jobs, reqs, proc, restarts>>,
           faults' \in Nat, kuma' \in [Monitored -> {"none", "up", "down"}],
           returned' \subseteq DOMAIN jobs,
           worker' \in Worker,
           \/ /\ worker'.job = 0 /\ worker'.pc \in {"off", "idle", "dead"}
           \/ /\ worker.job # 0 /\ worker'.job = worker.job
              /\ worker'.flag = worker.flag
              /\ worker'.pc \in {"mark", "reject", "beat"}
              /\ worker'.pc \in {"mark", "reject"} => worker.pc \in {"run", "mark", "reject"}
              /\ worker'.pc # "reject" => worker.pc # "reject"
    PROVE  IInv'
<1>1. TypeOK'
  BY DEF IInv, TypeOK
<1>2. InFlightUnique'
  BY DEF IInv, InFlightUnique
<1>3. (InHand /\ ClaimHeld /\ PayloadHonest)'
  BY DEF IInv, InHand, ClaimHeld, PayloadHonest
<1> QED BY <1>1, <1>2, <1>3 DEF IInv

\* A worker without a job.
LEMMA NoJobType ==
    ASSUME NEW pc \in {"off", "idle", "dead"}
    PROVE  NoJob(pc) \in Worker /\ NoJob(pc).job = 0 /\ NoJob(pc).pc = pc
BY DEF NoJob, Worker, MarkAttempts

\* A row is marked as running.
LEMMA SetRunning ==
    ASSUME NEW table \in Seq(Row), NEW i \in DOMAIN table
    PROVE  LET new == [table EXCEPT ![i].state = "running"] IN
           /\ new \in Seq(Row) /\ DOMAIN new = DOMAIN table
           /\ new[i].key = table[i].key /\ new[i].flag = table[i].flag
           /\ new[i].state = "running"
<1> DEFINE row == [table[i] EXCEPT !.state = "running"]
<1>1. table[i] \in Row /\ "running" \in Live \cup Terminal
  BY DEF Live
<1>2. /\ row \in Row /\ row.key = table[i].key /\ row.flag = table[i].flag
      /\ row.state = "running"
  BY <1>1, StateChange
<1>3. [table EXCEPT ![i].state = "running"] = [table EXCEPT ![i] = row]
  BY Zenon
<1> HIDE DEF row
<1> QED
  BY <1>2, <1>3, Replace

\* The claim preserves the invariant: the row it takes was queued.
LEMMA ClaimInv ==
    ASSUME IInv, Claim PROVE IInv'
<1> USE DEF IInv
<1>1. PICK i \in Queued :
        /\ jobs' = [jobs EXCEPT ![i].state = "running"]
        /\ worker' = [NoJob(IF jobs[i].key \in Handled THEN "run" ELSE "reject")
                        EXCEPT !.job = i, !.flag = jobs[i].flag]
  BY DEF Claim
<1>2. /\ i \in DOMAIN jobs /\ jobs \in Seq(Row) /\ jobs[i] \in Row
      /\ i \in Nat /\ i # 0 /\ jobs[i].flag \in BOOLEAN
  <2>1. i \in DOMAIN jobs /\ jobs \in Seq(Row)
    BY DEF Queued, TypeOK
  <2>2. i \in Nat /\ i # 0 /\ jobs[i] \in Row
    BY <2>1
  <2>3. jobs[i].flag \in BOOLEAN
    BY <2>2 DEF Row
  <2> QED BY <2>1, <2>2, <2>3
<1>3. "running" \in Live \cup Terminal
  BY DEF Live
<1> DEFINE new == [jobs EXCEPT ![i].state = "running"]
<1>4. /\ new \in Seq(Row) /\ DOMAIN new = DOMAIN jobs
      /\ new[i].key = jobs[i].key /\ new[i].flag = jobs[i].flag
      /\ new[i].state = "running"
  BY <1>2, SetRunning
<1> HIDE DEF new
<1>5. jobs' = new
  BY <1>1 DEF new
<1>6. /\ worker' \in Worker /\ worker'.job = i /\ worker'.flag = jobs[i].flag
      /\ worker'.pc \in {"run", "reject"}
      /\ worker'.pc = "run" => jobs[i].key \in Handled
  <2> DEFINE pc == IF jobs[i].key \in Handled THEN "run" ELSE "reject"
             flag == jobs[i].flag
  <2>1. pc \in {"run", "reject"} /\ (pc = "run" => jobs[i].key \in Handled)
    OBVIOUS
  <2>2. worker' = [NoJob(pc) EXCEPT !.job = i, !.flag = flag]
    BY <1>1
  <2>3. flag \in BOOLEAN
    BY <1>2
  <2> HIDE DEF pc, flag
  <2>4. worker' = [pc |-> pc, job |-> i, flag |-> flag, enqueued |-> FALSE,
                   ok |-> FALSE, tries |-> 0]
    BY <2>2 DEF NoJob
  <2>5. worker' \in Worker
    BY <1>2, <2>1, <2>3, <2>4 DEF Worker, MarkAttempts
  <2>6. worker'.job = i /\ worker'.flag = flag /\ worker'.pc = pc
    BY <2>4
  <2> QED BY <2>1, <2>5, <2>6 DEF flag
<1>7. UNCHANGED <<reqs, proc, kuma, faults, restarts, returned>>
  BY DEF Claim
<1>8. TypeOK'
  BY <1>2, <1>4, <1>5, <1>6, <1>7 DEF TypeOK
<1>9. (InHand /\ ClaimHeld /\ PayloadHonest)'
  BY <1>4, <1>5, <1>6 DEF InHand, ClaimHeld, PayloadHonest
<1>10. InFlightUnique'
  BY ClaimAdvances, AdvancesUnique
<1> QED BY <1>8, <1>9, <1>10

\* The validate a prefill queues is a row of its own.
LEMMA EnqueueValidateInv ==
    ASSUME IInv, EnqueueValidate PROVE IInv'
<1> USE DEF IInv
<1> DEFINE key == jobs[worker.job].key
<1>1. /\ worker.job \in DOMAIN jobs /\ worker.job # 0 /\ jobs \in Seq(Row)
      /\ worker.pc = "run"
  BY DEF TypeOK, EnqueueValidate
<1>2. key \in Handled /\ key[1] = "prefill"
  BY <1>1 DEF InHand, EnqueueValidate, Kind
<1>3. key[2] \in Games
  BY <1>2 DEF Handled, GameKeys, SyncKeys, GlobalKeys
<1>4. <<"validate", key[2]>> \in Keys
  BY <1>3 DEF Keys, Handled, GameKeys
<1>5. Insert(<<"validate", key[2]>>, FALSE, "scheduler")
  BY DEF EnqueueValidate
<1>6. Grows
  BY <1>4, <1>5, InsertGrows
<1>7. /\ worker' \in Worker /\ worker'.job = worker.job
      /\ worker'.flag = worker.flag /\ worker'.pc = worker.pc
  BY DEF EnqueueValidate, TypeOK, Worker
<1>8. UNCHANGED <<reqs, proc, kuma, faults, restarts, returned>>
  BY DEF EnqueueValidate
<1>9. TypeOK'
  BY <1>6, <1>7, <1>8 DEF TypeOK, Grows
<1>10. worker'.job \in DOMAIN jobs /\ jobs'[worker'.job] = jobs[worker.job]
  BY <1>1, <1>6, <1>7 DEF Grows
<1>11. (InHand /\ ClaimHeld /\ PayloadHonest)'
  BY <1>1, <1>7, <1>10 DEF InHand, ClaimHeld, PayloadHonest
<1>12. InFlightUnique'
  BY <1>6, GrowsUnique
<1> QED BY <1>9, <1>11, <1>12

\* The mark preserves the invariant: the row it ends is the one in hand.
LEMMA MarkJobInv ==
    ASSUME IInv, MarkJob PROVE IInv'
<1> USE DEF IInv
<1>1. Advances
  BY MarkAdvances
<1>2. /\ worker.job \in DOMAIN jobs /\ worker.job # 0 /\ jobs \in Seq(Row)
      /\ jobs[worker.job].state = "running"
  BY DEF TypeOK, ClaimHeld, MarkJob
<1>3. jobs'[worker.job].flag = jobs[worker.job].flag
      /\ jobs'[worker.job].state # "queued"
  <2> DEFINE s == IF worker.ok THEN "succeeded" ELSE "failed"
  <2>1. s \in Live \cup Terminal /\ s # "queued"
    BY DEF Terminal
  <2>2. jobs' = [jobs EXCEPT ![worker.job].state = s]
    BY <1>2 DEF MarkJob, Mark
  <2> HIDE DEF s
  <2> DEFINE new == [jobs EXCEPT ![worker.job].state = s]
  <2>4. new[worker.job].flag = jobs[worker.job].flag /\ new[worker.job].state = s
    BY <1>2, <2>1, SetState
  <2> HIDE DEF new
  <2>3. jobs'[worker.job].flag = jobs[worker.job].flag /\ jobs'[worker.job].state = s
    BY <2>2, <2>4 DEF new
  <2> QED BY <2>1, <2>3
<1>4. UNCHANGED <<reqs, proc, kuma, faults, restarts, returned>>
  BY DEF MarkJob
<1>5. CASE worker.pc = "mark"
  <2>1. /\ worker' \in Worker /\ worker'.job = worker.job
        /\ worker'.flag = worker.flag /\ worker'.pc = "beat"
    BY <1>5 DEF MarkJob, TypeOK, Worker
  <2>2. TypeOK'
    BY <1>1, <1>2, <1>4, <2>1 DEF TypeOK, Advances
  <2>3. (InHand /\ ClaimHeld /\ PayloadHonest)'
    BY <1>1, <1>2, <1>3, <1>5, <2>1 DEF InHand, ClaimHeld, PayloadHonest, Advances
  <2> QED BY <1>1, <2>2, <2>3, AdvancesUnique
<1>6. CASE worker.pc = "reject"
  <2>1. worker' = NoJob("idle")
    BY <1>6 DEF MarkJob
  <2>2. worker' \in Worker /\ worker'.job = 0 /\ worker'.pc = "idle"
    BY <2>1, NoJobType
  <2>3. TypeOK'
    BY <1>1, <1>4, <2>2 DEF TypeOK, Advances
  <2>4. (InHand /\ ClaimHeld /\ PayloadHonest)'
    BY <2>2 DEF InHand, ClaimHeld, PayloadHonest
  <2> QED BY <1>1, <2>3, <2>4, AdvancesUnique
<1> QED BY <1>5, <1>6 DEF MarkJob

\* Every step of the worker preserves the invariant.
LEMMA WorkerInv ==
    ASSUME IInv, WorkerStep PROVE IInv'
<1> USE DEF IInv
<1>a. faults \in Nat /\ returned \subseteq DOMAIN jobs
      /\ kuma \in [Monitored -> {"none", "up", "down"}] /\ worker \in Worker
  BY DEF TypeOK
<1>1. CASE Poll
  BY <1>1 DEF Poll, vars, TypeOK, InHand, ClaimHeld, PayloadHonest, InFlightUnique
<1>2. CASE HandlerReturns
  <2>1. worker.job \in DOMAIN jobs /\ worker.job # 0
    BY <1>2 DEF HandlerReturns, TypeOK
  <2>2. /\ worker' \in Worker /\ worker'.job = worker.job
        /\ worker'.flag = worker.flag /\ worker'.pc = "mark"
    BY <1>2, <1>a DEF HandlerReturns, Worker
  <2> QED BY <1>2, <1>a, <2>1, <2>2, WorkerMoves DEF HandlerReturns
<1>3. CASE HandlerRaises
  <2>1. worker.job # 0
    BY <1>3 DEF HandlerRaises, TypeOK
  <2>2. /\ worker' \in Worker /\ worker'.job = worker.job
        /\ worker'.flag = worker.flag /\ worker'.pc = "mark"
    BY <1>3, <1>a DEF HandlerRaises, Worker
  <2> QED BY <1>3, <1>a, <2>1, <2>2, WorkerMoves DEF HandlerRaises
<1>4. CASE MarkRetry
  <2>1. worker.job # 0 /\ faults' \in Nat
    BY <1>4, <1>a DEF MarkRetry, Fault, TypeOK
  <2>2. /\ worker' \in Worker /\ worker'.job = worker.job
        /\ worker'.flag = worker.flag /\ worker'.pc = worker.pc
    BY <1>4, <1>a DEF MarkRetry, Worker, MarkAttempts
  <2> QED BY <1>4, <1>a, <2>1, <2>2, WorkerMoves DEF MarkRetry
<1>5. CASE MarkGivesUp
  <2>1. worker.job # 0 /\ faults' \in Nat
    BY <1>5, <1>a DEF MarkGivesUp, Fault, TypeOK
  <2>2. UNCHANGED <<jobs, reqs, proc, kuma, restarts, returned>>
    BY <1>5 DEF MarkGivesUp
  <2>3. ASSUME NEW pc \in {"idle", "dead"}, worker' = NoJob(pc) PROVE IInv'
    BY <1>a, <2>1, <2>2, <2>3, NoJobType, WorkerMoves
  <2>4. CASE worker.pc = "mark" /\ worker' = [worker EXCEPT !.pc = "beat"]
    <3>1. /\ worker' \in Worker /\ worker'.job = worker.job
          /\ worker'.flag = worker.flag /\ worker'.pc = "beat"
      BY <1>a, <2>4 DEF Worker
    <3> QED BY <1>a, <2>1, <2>2, <2>4, <3>1, WorkerMoves
  <2> QED BY <1>5, <2>3, <2>4 DEF MarkGivesUp
<1>6. CASE Heartbeat
  <2>1. worker' \in Worker /\ worker'.job = 0 /\ worker'.pc = "idle"
    BY <1>6, NoJobType DEF Heartbeat
  <2>2. kuma' \in [Monitored -> {"none", "up", "down"}]
    <3>1. CASE UNCHANGED kuma
      BY <1>a, <3>1
    <3>2. CASE kuma' # kuma
      <4>1. PICK k \in Monitored : \E s \in {kuma[k], "down", "up"} :
              kuma' = [kuma EXCEPT ![k] = s]
        BY <1>6, <3>2 DEF Heartbeat
      <4> QED BY <1>a, <4>1
    <3> QED BY <3>1, <3>2
  <2> QED BY <1>6, <1>a, <2>1, <2>2, WorkerMoves DEF Heartbeat
<1> QED BY <1>1, <1>2, <1>3, <1>4, <1>5, <1>6, ClaimInv, EnqueueValidateInv, MarkJobInv
        DEF WorkerStep

\* No worker lives across a boot, a stop or a crash.
LEMMA ProcessInv ==
    ASSUME IInv, Start \/ Reap \/ ReapFault \/ Stop \/ Stopped \/ Crash
    PROVE  IInv'
<1> USE DEF IInv
<1>a. /\ NoJob("idle") \in Worker /\ NoJob("idle").job = 0 /\ NoJob("idle").pc = "idle"
      /\ NoJob("off") \in Worker /\ NoJob("off").job = 0 /\ NoJob("off").pc = "off"
  BY DEF NoJob, Worker, MarkAttempts
<1>b. IdleReq \in Req /\ IdleReq.id = 0 /\ IdleReq.pc # "upgrade"
  BY DEF IdleReq, Req, Codes, Keys, Handled, GlobalKeys
<1>1. CASE Start
  <2>1. TypeOK'
    BY <1>1 DEF Start, TypeOK
  <2> QED BY <1>1, <2>1, FrameInv DEF Start
<1>2. CASE Stop
  <2>1. TypeOK'
    BY <1>2 DEF Stop, TypeOK
  <2> QED BY <1>2, <2>1, FrameInv DEF Stop
<1>3. CASE Reap
  <2>1. Advances
    BY <1>3, ReapAdvances
  <2>2. worker' = NoJob("idle") /\ UNCHANGED <<reqs, kuma, faults, restarts, returned>>
        /\ proc' = "up"
    BY <1>3 DEF Reap
  <2>3. TypeOK'
    BY <1>a, <2>1, <2>2 DEF TypeOK, Advances
  <2>4. (InHand /\ ClaimHeld /\ PayloadHonest)'
    BY <1>a, <2>2 DEF InHand, ClaimHeld, PayloadHonest
  <2> QED BY <2>1, <2>3, <2>4, AdvancesUnique
<1>4. CASE ReapFault
  <2>1. worker' = NoJob("idle") /\ UNCHANGED <<jobs, reqs, kuma, restarts, returned>>
        /\ proc' = "up" /\ faults' \in Nat
    BY <1>4 DEF ReapFault, Fault, TypeOK
  <2>2. TypeOK'
    BY <1>a, <2>1 DEF TypeOK
  <2>3. (InHand /\ ClaimHeld /\ PayloadHonest /\ InFlightUnique)'
    BY <1>a, <2>1 DEF InHand, ClaimHeld, PayloadHonest, InFlightUnique
  <2> QED BY <2>2, <2>3
<1>5. CASE Stopped
  <2>1. worker' = NoJob("off") /\ UNCHANGED <<jobs, reqs, kuma, faults, restarts, returned>>
        /\ proc' = "down"
    BY <1>5 DEF Stopped
  <2>2. TypeOK'
    BY <1>a, <2>1 DEF TypeOK
  <2>3. (InHand /\ ClaimHeld /\ PayloadHonest /\ InFlightUnique)'
    BY <1>a, <2>1 DEF InHand, ClaimHeld, PayloadHonest, InFlightUnique
  <2> QED BY <2>2, <2>3
<1>6. CASE Crash
  <2>1. /\ worker' = NoJob("off") /\ UNCHANGED <<jobs, kuma, faults, returned>>
        /\ proc' = "down" /\ reqs' = [r \in Reqs |-> IdleReq] /\ restarts' \in Nat
    BY <1>6 DEF Crash, TypeOK
  <2>2. reqs' \in [Reqs -> Req]
        /\ \A r \in Reqs : reqs'[r].id = 0 /\ reqs'[r].pc # "upgrade"
    BY <1>b, <2>1
  <2>3. TypeOK'
    BY <1>a, <2>1, <2>2 DEF TypeOK
  <2>4. (InHand /\ ClaimHeld /\ PayloadHonest /\ InFlightUnique)'
    BY <1>a, <2>1 DEF InHand, ClaimHeld, PayloadHonest, InFlightUnique
  <2> QED BY <2>3, <2>4
<1> QED BY <1>1, <1>2, <1>3, <1>4, <1>5, <1>6

\* Every step of the system preserves the invariant.
LEMMA NextInv == IInv /\ [Next]_vars => IInv'
<1> SUFFICES ASSUME IInv, [Next]_vars PROVE IInv'
  OBVIOUS
<1>1. CASE UNCHANGED vars
  BY <1>1 DEF vars, IInv, TypeOK, InHand, ClaimHeld, PayloadHonest, InFlightUnique
<1>2. CASE \/ \E k \in Offered \ GameKeys : Tick(k)
           \/ TickPrefill
           \/ \E p \in Platforms : EpicAuth(p)
  BY <1>2, TicksInv
<1>3. CASE \/ \E r \in Reqs, k \in Offered, flag \in BOOLEAN : Request(r, k, flag)
           \/ \E r \in Reqs : RequestStep(r) \/ RequestFault(r)
  BY <1>3, RequestsInv
<1>4. CASE WorkerStep
  BY <1>4, WorkerInv
<1>5. CASE Start \/ Reap \/ ReapFault \/ Stop \/ Stopped \/ Crash
  BY <1>5, ProcessInv
<1> QED BY <1>1, <1>2, <1>3, <1>4, <1>5 DEF Next

\* The inductive invariant holds in every reachable state, whatever the sets of
\* games, platforms, requests and retired keys and whatever the bounds.
THEOREM Inductive == Spec => []IInv
BY InitInv, NextInv, PTL DEF Spec

-----------------------------------------------------------------------------
(* What it gives.                                                          *)

\* Every variable keeps its type: jobs is a table of well-formed rows, and the
\* worker and the requests only refer to rows that exist.
THEOREM TypeCorrect == Spec => []TypeOK
<1>1. IInv => TypeOK
  BY DEF IInv
<1> QED BY <1>1, Inductive, PTL

\* The partial UNIQUE indexes and ON CONFLICT DO NOTHING keep at most one job
\* in flight per key, under any number of triggers, ticks and restarts.
THEOREM InFlightUniqueCorrect == Spec => []InFlightUnique
<1>1. IInv => InFlightUnique
  BY DEF IInv
<1> QED BY <1>1, Inductive, PTL

\* The force upgrade never rewrites the payload of a job the worker holds.
THEOREM PayloadHonestCorrect == Spec => []PayloadHonest
<1>1. IInv => PayloadHonest
  BY DEF IInv
<1> QED BY <1>1, Inductive, PTL

\* From claim to mark, the row in hand stays 'running'.
THEOREM ClaimHeldCorrect == Spec => []ClaimHeld
<1>1. IInv => ClaimHeld
  BY DEF IInv
<1> QED BY <1>1, Inductive, PTL

-----------------------------------------------------------------------------
(* What the rows say of the work: the recorded outcome and the monitors.   *)

\* A row is the work of a handler that returned, or it is not, in step with its
\* state: nothing queued has run, and what succeeded has.
RowsHonest ==
    /\ \A i \in DOMAIN jobs : jobs[i].state = "queued" => i \notin returned
    /\ \A i \in DOMAIN jobs : jobs[i].state = "succeeded" => i \in returned
    /\ \A i \in DOMAIN jobs : (jobs[i].state = "failed" /\ i \in returned) => restarts > 0

\* The worker knows whether the handler of its job returned, and beats for a
\* success only once it is recorded.
WorkerHonest ==
    worker.job # 0 =>
        /\ worker.ok <=> worker.job \in returned
        /\ worker.ok => worker.pc \in {"mark", "beat"}
        /\ (worker.pc = "beat" /\ worker.ok) => jobs[worker.job].state = "succeeded"

\* The worker lives from one boot to the next stop, and nothing has returned
\* before the first.
ProcessHonest ==
    /\ proc \in {"down", "boot"} => worker.pc = "off"
    /\ proc = "stopping" => restarts > 0
    /\ (proc \in {"down", "boot"} /\ restarts = 0) => returned = {}

InHandNow == worker.pc \in {"run", "mark", "reject"}

\* While the process is up, a row is running in the worker's hands, unless
\* faults stranded it.
NoStray ==
    proc \in {"up", "stopping"} =>
        \A i \in DOMAIN jobs : jobs[i].state = "running" =>
            \/ i = worker.job /\ InHandNow
            \/ faults > 0

\* A prefill that queued its validate still has it waiting.
ValidateWaits ==
    /\ (worker.pc = "mark" /\ worker.ok /\ Kind(jobs[worker.job].key) = "prefill")
         => worker.enqueued
    /\ (worker.pc \in {"run", "mark"} /\ worker.enqueued) =>
         \/ \E i \in Queued : jobs[i].key = <<"validate", jobs[worker.job].key[2]>>
         \/ faults > 0

Hist == RowsHonest /\ WorkerHonest /\ ProcessHonest /\ NoStray /\ ValidateWaits
           /\ GreenIsScheduled

\* What these invariants see of the table: keys, sources and states.
SameRows ==
    /\ DOMAIN jobs' = DOMAIN jobs
    /\ \A i \in DOMAIN jobs : /\ jobs'[i].key = jobs[i].key
                              /\ jobs'[i].source = jobs[i].source
                              /\ jobs'[i].state = jobs[i].state

Keeps ==
    /\ DOMAIN jobs \subseteq DOMAIN jobs'
    /\ \A i \in DOMAIN jobs : /\ jobs'[i].key = jobs[i].key
                              /\ jobs'[i].source = jobs[i].source
                              /\ jobs'[i].state = jobs[i].state
    /\ \A i \in DOMAIN jobs' \ DOMAIN jobs : jobs'[i].state = "queued"

\* Rows that are added, or that only change their payload.
LEMMA KeepsEither == ASSUME Grows \/ SameRows PROVE Keeps
BY DEF Grows, SameRows, Keeps

\* A trigger request adds rows or changes a payload, and nothing else that the
\* worker or the process knows.
LEMMA RequestKeeps ==
    ASSUME IInv, NEW r \in Reqs,
           \/ \E k \in Offered, flag \in BOOLEAN : Request(r, k, flag)
           \/ RequestStep(r)
           \/ RequestFault(r)
    PROVE  /\ Grows \/ SameRows
           /\ UNCHANGED <<worker, proc, kuma, restarts, returned>>
           /\ faults' \in {faults, faults + 1}
<1>1. CASE Upgrade(r)
  <2>1. SameRows
    BY <1>1, UpgradeAdvances DEF IInv, Advances, SameRows
  <2> QED BY <1>1, <2>1 DEF Upgrade
<1>2. CASE InsertRow(r)
  <2>1. reqs[r].key \in Keys /\ reqs[r].flag \in BOOLEAN
    BY DEF IInv, TypeOK, Req
  <2>2. Grows
    BY <1>2, <2>1, InsertGrows DEF IInv, InsertRow
  <2> QED BY <1>2, <2>2 DEF InsertRow
<1>3. CASE \/ \E k \in Offered, flag \in BOOLEAN : Request(r, k, flag)
           \/ CheckMiss(r) \/ CheckHit(r) \/ Reread(r) \/ Reply(r) \/ RequestFault(r)
  <2>1. UNCHANGED <<jobs, worker, proc, kuma, restarts, returned>>
    BY <1>3 DEF Request, CheckMiss, CheckHit, Reread, Reply, RequestFault
  <2>2. faults' \in {faults, faults + 1}
    BY <1>3 DEF Request, CheckMiss, CheckHit, Reread, Reply, RequestFault, Fault
  <2> QED BY <2>1, <2>2 DEF SameRows
<1> QED BY <1>1, <1>2, <1>3 DEF RequestStep

\* The scheduler's and the token exchange's inserts add rows.
LEMMA TicksKeep ==
    ASSUME IInv,
           \/ \E k \in Offered \ GameKeys : Tick(k)
           \/ TickPrefill
           \/ \E p \in Platforms : EpicAuth(p)
    PROVE  Grows /\ UNCHANGED <<worker, proc, kuma, faults, restarts, returned>>
<1>1. ASSUME NEW k \in Offered \ GameKeys, Tick(k)
      PROVE  Grows /\ UNCHANGED <<worker, proc, kuma, faults, restarts, returned>>
  BY <1>1, InsertGrows, JobQueueAssumption DEF IInv, Tick, Keys
<1>2. CASE TickPrefill
  BY <1>2, TickPrefillGrows DEF IInv, TickPrefill
<1>3. ASSUME NEW p \in Platforms, EpicAuth(p)
      PROVE  Grows /\ UNCHANGED <<worker, proc, kuma, faults, restarts, returned>>
  BY <1>3, InsertGrows DEF IInv, EpicAuth, Keys, Handled, SyncKeys
<1> QED BY <1>1, <1>2, <1>3

\* Rows that are only added, with nothing changed in the worker but that it has
\* queued the validate, keep everything that does not depend on that.
LEMMA KeepsHist ==
    ASSUME IInv, Hist, Keeps, UNCHANGED <<proc, kuma, restarts, returned>>,
           faults' \in {faults, faults + 1},
           worker'.pc = worker.pc, worker'.job = worker.job, worker'.ok = worker.ok
    PROVE  (RowsHonest /\ WorkerHonest /\ ProcessHonest /\ NoStray /\ GreenIsScheduled)'
<1>1. /\ returned \subseteq DOMAIN jobs /\ faults \in Nat
      /\ worker.job # 0 => worker.job \in DOMAIN jobs
  BY DEF IInv, TypeOK
<1>2. RowsHonest'
  BY <1>1 DEF Hist, RowsHonest, Keeps
<1>3. WorkerHonest'
  BY <1>1 DEF Hist, WorkerHonest, Keeps
<1>4. ProcessHonest'
  BY DEF Hist, ProcessHonest
<1>5. NoStray'
  BY <1>1 DEF Hist, NoStray, InHandNow, Keeps
<1>6. GreenIsScheduled'
  BY DEF Hist, GreenIsScheduled, Keeps
<1> QED BY <1>2, <1>3, <1>4, <1>5, <1>6

\* A step that adds rows or changes payloads, beside the worker.
LEMMA BesideHist ==
    ASSUME IInv, Hist, Keeps, UNCHANGED <<worker, proc, kuma, restarts, returned>>,
           faults' \in {faults, faults + 1}
    PROVE  Hist'
<1>1. faults \in Nat /\ (worker.job # 0 => worker.job \in DOMAIN jobs)
      /\ (worker.pc \in {"run", "mark"} => worker.job # 0)
  BY DEF IInv, TypeOK
<1>2. ValidateWaits'
  BY <1>1 DEF Hist, ValidateWaits, Keeps, Queued
<1> QED BY <1>2, KeepsHist DEF Hist

-----------------------------------------------------------------------------
(* The worker's steps keep it.                                             *)

\* What the claim does to table and worker.
LEMMA ClaimTakes ==
    ASSUME IInv, Claim
    PROVE  \E i \in Queued :
             /\ \A j \in Queued : i <= j
             /\ DOMAIN jobs' = DOMAIN jobs
             /\ \A j \in DOMAIN jobs : /\ jobs'[j].key = jobs[j].key
                                       /\ jobs'[j].source = jobs[j].source
                                       /\ jobs'[j].state = IF j = i THEN "running" ELSE jobs[j].state
             /\ worker'.job = i /\ worker'.pc \in {"run", "reject"}
             /\ worker'.ok = FALSE /\ worker'.enqueued = FALSE
<1>1. PICK i \in Queued :
        /\ \A j \in Queued : i <= j
        /\ jobs' = [jobs EXCEPT ![i].state = "running"]
        /\ worker' = [NoJob(IF jobs[i].key \in Handled THEN "run" ELSE "reject")
                        EXCEPT !.job = i, !.flag = jobs[i].flag]
  BY DEF Claim
<1>2. i \in DOMAIN jobs /\ jobs \in Seq(Row)
  BY DEF Queued, IInv, TypeOK
<1>3. "running" \in Live \cup Terminal
  BY DEF Live
<1> DEFINE new == [jobs EXCEPT ![i].state = "running"]
<1>4. /\ DOMAIN new = DOMAIN jobs
      /\ new[i].key = jobs[i].key /\ new[i].source = jobs[i].source /\ new[i].state = "running"
      /\ \A j \in DOMAIN jobs : j # i => new[j] = jobs[j]
  BY <1>2, <1>3, SetState
<1> HIDE DEF new
<1>5. \A j \in DOMAIN jobs : /\ new[j].key = jobs[j].key /\ new[j].source = jobs[j].source
                            /\ new[j].state = IF j = i THEN "running" ELSE jobs[j].state
  BY <1>4
<1>6. /\ worker'.job = i /\ worker'.pc \in {"run", "reject"}
      /\ worker'.ok = FALSE /\ worker'.enqueued = FALSE
  BY <1>1 DEF NoJob
<1>7. jobs' = new
  BY <1>1 DEF new
<1> QED BY <1>1, <1>4, <1>5, <1>6, <1>7

\* What the mark does to the row in hand.
LEMMA MarkEnds ==
    ASSUME IInv, MarkJob
    PROVE  /\ DOMAIN jobs' = DOMAIN jobs
           /\ \A j \in DOMAIN jobs :
                /\ jobs'[j].key = jobs[j].key
                /\ jobs'[j].source = jobs[j].source
                /\ jobs'[j].state = IF j # worker.job THEN jobs[j].state
                                   ELSE IF worker.ok THEN "succeeded" ELSE "failed"
<1>1. worker.job \in DOMAIN jobs /\ jobs \in Seq(Row) /\ jobs[worker.job].state = "running"
  BY DEF IInv, TypeOK, ClaimHeld, MarkJob
<1> DEFINE s == IF worker.ok THEN "succeeded" ELSE "failed"
           new == [jobs EXCEPT ![worker.job].state = s]
<1>2. s \in Live \cup Terminal
  BY DEF Terminal
<1>3. jobs' = new
  BY <1>1 DEF MarkJob, Mark
<1> HIDE DEF s
<1>4. /\ DOMAIN new = DOMAIN jobs
      /\ new[worker.job].key = jobs[worker.job].key
      /\ new[worker.job].source = jobs[worker.job].source /\ new[worker.job].state = s
      /\ \A j \in DOMAIN jobs : j # worker.job => new[j] = jobs[j]
  BY <1>1, <1>2, SetState
<1> HIDE DEF new
<1> QED BY <1>3, <1>4 DEF s

\* The claim: the row it takes was queued, so its handler never returned.
LEMMA ClaimHist ==
    ASSUME IInv, Hist, Claim PROVE Hist'
<1>1. PICK i \in Queued :
             /\ DOMAIN jobs' = DOMAIN jobs
             /\ \A j \in DOMAIN jobs : /\ jobs'[j].key = jobs[j].key
                                       /\ jobs'[j].source = jobs[j].source
                                       /\ jobs'[j].state = IF j = i THEN "running" ELSE jobs[j].state
             /\ worker'.job = i /\ worker'.pc \in {"run", "reject"}
             /\ worker'.ok = FALSE /\ worker'.enqueued = FALSE
  BY ClaimTakes
<1>2. i \in DOMAIN jobs /\ jobs[i].state = "queued"
  BY DEF Queued
<1>3. /\ UNCHANGED <<proc, kuma, faults, restarts, returned>>
      /\ worker.pc = "idle" /\ proc = "up"
  BY DEF Claim
<1>4. RowsHonest'
  BY <1>1, <1>2, <1>3 DEF Hist, RowsHonest
<1>5. WorkerHonest'
  BY <1>1, <1>2, <1>3 DEF Hist, WorkerHonest, RowsHonest
<1>6. ProcessHonest'
  BY <1>3 DEF Hist, ProcessHonest
<1>7. NoStray'
  BY <1>1, <1>2, <1>3 DEF Hist, NoStray, InHandNow
<1>8. ValidateWaits'
  BY <1>1 DEF ValidateWaits
<1>9. GreenIsScheduled'
  BY <1>1, <1>2, <1>3 DEF Hist, GreenIsScheduled
<1> QED BY <1>4, <1>5, <1>6, <1>7, <1>8, <1>9 DEF Hist

\* The validate that a prefill queues is a row of the validate's key.
LEMMA EnqueueValidateGrows ==
    ASSUME IInv, EnqueueValidate
    PROVE  /\ Grows
           /\ <<"validate", jobs[worker.job].key[2]>> \in Keys
           /\ jobs[worker.job].key[1] = "prefill"
           /\ Insert(<<"validate", jobs[worker.job].key[2]>>, FALSE, "scheduler")
<1> DEFINE game == jobs[worker.job].key[2]
           key  == <<"validate", game>>
<1>1. worker.job # 0 /\ worker.pc = "run"
  BY DEF IInv, TypeOK, EnqueueValidate
<1>2. jobs[worker.job].key \in Handled /\ jobs[worker.job].key[1] = "prefill"
  BY <1>1 DEF IInv, InHand, EnqueueValidate, Kind
<1>3. game \in Games
  BY <1>2 DEF Handled, GameKeys, SyncKeys, GlobalKeys
<1>4. key \in Keys
  BY <1>3 DEF Keys, Handled, GameKeys
<1>5. Insert(key, FALSE, "scheduler")
  BY DEF EnqueueValidate
<1>6. Grows
  BY <1>4, <1>5, InsertGrows DEF IInv
<1> QED BY <1>2, <1>4, <1>5, <1>6

\* The validate of a prefill: either it is queued now, or one was in flight that
\* nobody runs.
LEMMA EnqueueValidateHist ==
    ASSUME IInv, Hist, EnqueueValidate PROVE Hist'
<1> DEFINE game == jobs[worker.job].key[2]
           key  == <<"validate", game>>
<1>1. /\ worker.job \in DOMAIN jobs /\ worker.job # 0 /\ jobs \in Seq(Row)
      /\ worker.pc = "run" /\ worker \in Worker /\ faults \in Nat
      /\ proc \in {"down", "boot", "up", "stopping"}
  BY DEF IInv, TypeOK, EnqueueValidate
<1>2. /\ Grows /\ key \in Keys /\ jobs[worker.job].key[1] = "prefill"
      /\ Insert(key, FALSE, "scheduler")
  BY EnqueueValidateGrows
<1>6. Keeps
  BY <1>2, KeepsEither
<1>7. /\ worker'.pc = worker.pc /\ worker'.job = worker.job /\ worker'.ok = worker.ok
      /\ UNCHANGED <<proc, kuma, faults, restarts, returned>>
  BY <1>1 DEF EnqueueValidate, Worker
<1>8. jobs'[worker.job].key = jobs[worker.job].key
  BY <1>1, <1>6 DEF Keeps
<1>9. (\E i \in DOMAIN jobs' : jobs'[i].state = "queued" /\ jobs'[i].key = key) \/ faults > 0
  <2>1. CASE Open(key) = {}
    <3> DEFINE row == NewRow(key, FALSE, "scheduler")
    <3>1. jobs' = Append(jobs, row)
      BY <1>2, <2>1 DEF Insert
    <3>2. row \in Row
      BY <1>2 DEF NewRow, Row, Live
    <3>3. row.key = key /\ row.state = "queued"
      BY DEF NewRow
    <3> HIDE DEF row
    <3>4. Len(jobs) + 1 \in DOMAIN jobs' /\ jobs'[Len(jobs) + 1] = row
      BY <1>1, <3>1, <3>2
    <3> QED BY <3>3, <3>4
  <2>2. ASSUME NEW i \in Open(key)
        PROVE  (\E j \in DOMAIN jobs' : jobs'[j].state = "queued" /\ jobs'[j].key = key) \/ faults > 0
    <3>1. i \in DOMAIN jobs /\ jobs[i].key = key /\ jobs[i].state \in Live
      BY DEF Open
    <3>2. CASE jobs[i].state = "queued"
      BY <3>1, <3>2, <1>6 DEF Keeps
    <3>3. CASE jobs[i].state = "running"
      <4>1. i # worker.job
        BY <1>2, <3>1
      <4>2. proc \in {"up", "stopping"}
        BY <1>1 DEF Hist, ProcessHonest
      <4> QED BY <3>1, <3>3, <4>1, <4>2 DEF Hist, NoStray
    <3> QED BY <3>1, <3>2, <3>3 DEF Live
  <2> QED BY <2>1, <2>2
<1>10. ValidateWaits'
  <2>1. worker'.pc = "run"
    BY <1>1, <1>7
  <2>2. (worker'.pc \in {"run", "mark"} /\ worker'.enqueued) =>
          \/ \E i \in DOMAIN jobs' :
                /\ jobs'[i].state = "queued"
                /\ jobs'[i].key = <<"validate", jobs'[worker'.job].key[2]>>
          \/ faults' > 0
    BY <1>7, <1>8, <1>9
  <2> QED BY <2>1, <2>2 DEF ValidateWaits, Queued
<1> QED BY <1>6, <1>7, <1>10, KeepsHist DEF Hist


\* A handler returns: the row is among the returned, and the worker knows.
LEMMA ReturnsHist ==
    ASSUME IInv, Hist, HandlerReturns PROVE Hist'
<1>1. /\ worker.job \in DOMAIN jobs /\ worker.job # 0 /\ worker \in Worker
      /\ jobs[worker.job].state = "running" /\ worker.pc = "run"
  BY DEF IInv, TypeOK, ClaimHeld, HandlerReturns
<1>2. /\ UNCHANGED <<jobs, proc, kuma, faults, restarts>>
      /\ returned' = returned \cup {worker.job}
  BY DEF HandlerReturns
<1>3. /\ worker'.pc = "mark" /\ worker'.ok = TRUE /\ worker'.job = worker.job
      /\ worker'.enqueued = worker.enqueued
  BY <1>1 DEF HandlerReturns, Worker
<1>4. RowsHonest'
  BY <1>1, <1>2 DEF Hist, RowsHonest
<1>5. WorkerHonest'
  BY <1>1, <1>2, <1>3 DEF Hist, WorkerHonest
<1>6. ProcessHonest'
  BY <1>1, <1>2 DEF Hist, ProcessHonest
<1>7. NoStray'
  BY <1>1, <1>2, <1>3 DEF Hist, NoStray, InHandNow
<1>8. ValidateWaits'
  BY <1>1, <1>2, <1>3 DEF Hist, ValidateWaits, Queued, HandlerReturns
<1>9. GreenIsScheduled'
  BY <1>2 DEF Hist, GreenIsScheduled
<1> QED BY <1>4, <1>5, <1>6, <1>7, <1>8, <1>9 DEF Hist

\* A handler raises: its row is not among the returned.
LEMMA RaisesHist ==
    ASSUME IInv, Hist, HandlerRaises PROVE Hist'
<1>1. worker.job # 0 /\ worker \in Worker /\ worker.pc = "run"
  BY DEF IInv, TypeOK, HandlerRaises
<1>2. UNCHANGED <<jobs, proc, kuma, faults, restarts, returned>>
  BY DEF HandlerRaises
<1>3. /\ worker'.pc = "mark" /\ worker'.ok = FALSE /\ worker'.job = worker.job
      /\ worker'.enqueued = worker.enqueued
  BY <1>1 DEF HandlerRaises, Worker
<1>4. RowsHonest' /\ GreenIsScheduled'
  BY <1>2 DEF Hist, RowsHonest, GreenIsScheduled
<1>5. WorkerHonest'
  BY <1>1, <1>2, <1>3 DEF Hist, WorkerHonest
<1>6. ProcessHonest'
  BY <1>1, <1>2 DEF Hist, ProcessHonest
<1>7. NoStray'
  BY <1>1, <1>2, <1>3 DEF Hist, NoStray, InHandNow
<1>8. ValidateWaits'
  BY <1>1, <1>2, <1>3 DEF Hist, ValidateWaits, Queued
<1> QED BY <1>4, <1>5, <1>6, <1>7, <1>8 DEF Hist

\* The mark: a success is of a handler that returned, a failure is not.
LEMMA MarkJobHist ==
    ASSUME IInv, Hist, MarkJob PROVE Hist'
<1>1. /\ worker.job \in DOMAIN jobs /\ worker.job # 0 /\ worker \in Worker
      /\ jobs[worker.job].state = "running" /\ worker.pc \in {"mark", "reject"}
  BY DEF IInv, TypeOK, ClaimHeld, MarkJob
<1>2. /\ DOMAIN jobs' = DOMAIN jobs
      /\ \A j \in DOMAIN jobs :
           /\ jobs'[j].key = jobs[j].key
           /\ jobs'[j].source = jobs[j].source
           /\ jobs'[j].state = IF j # worker.job THEN jobs[j].state
                              ELSE IF worker.ok THEN "succeeded" ELSE "failed"
  BY MarkEnds
<1>3. UNCHANGED <<proc, kuma, faults, restarts, returned>>
  BY DEF MarkJob
<1>4. \/ /\ worker.pc = "mark"
         /\ worker'.pc = "beat" /\ worker'.job = worker.job /\ worker'.ok = worker.ok
      \/ worker'.pc = "idle" /\ worker'.job = 0
  BY <1>1 DEF MarkJob, NoJob, Worker
<1>5. worker.ok \in BOOLEAN
  BY <1>1 DEF Worker
<1>6. RowsHonest'
  BY <1>1, <1>2, <1>3, <1>5 DEF Hist, RowsHonest, WorkerHonest
<1>7. WorkerHonest'
  BY <1>1, <1>2, <1>3, <1>4, <1>5 DEF Hist, WorkerHonest
<1>8. ProcessHonest'
  BY <1>1, <1>3 DEF Hist, ProcessHonest
<1>9. NoStray'
  BY <1>1, <1>2, <1>3 DEF Hist, NoStray
<1>10. ValidateWaits'
  BY <1>4 DEF ValidateWaits
<1>11. GreenIsScheduled'
  BY <1>1, <1>2, <1>3 DEF Hist, GreenIsScheduled
<1> QED BY <1>6, <1>7, <1>8, <1>9, <1>10, <1>11 DEF Hist

\* Failed attempts to mark strand the row at worst, and only by a fault.
LEMMA MarkFailsHist ==
    ASSUME IInv, Hist, MarkRetry \/ MarkGivesUp PROVE Hist'
<1>1. /\ worker.job # 0 /\ worker \in Worker /\ faults \in Nat
      /\ worker.pc \in {"mark", "reject"} /\ worker.ok \in BOOLEAN
  BY DEF IInv, TypeOK, Worker, MarkRetry, MarkGivesUp
<1>2. UNCHANGED <<jobs, reqs, proc, kuma, restarts, returned>>
  BY DEF MarkRetry, MarkGivesUp
<1>3. faults' > 0
  BY <1>1 DEF MarkRetry, MarkGivesUp, Fault
<1>4. \/ /\ worker'.pc = worker.pc /\ worker'.job = worker.job /\ worker'.ok = worker.ok
         /\ worker'.enqueued = worker.enqueued
      \/ worker.pc = "reject" /\ worker'.pc = "dead" /\ worker'.job = 0
      \/ worker'.pc = "idle" /\ worker'.job = 0
      \/ /\ ~worker.ok
         /\ worker'.pc = "beat" /\ worker'.job = worker.job /\ worker'.ok = worker.ok
  <2>1. CASE MarkRetry
    BY <1>1, <2>1 DEF MarkRetry, Worker
  <2>2. CASE MarkGivesUp
    <3>1. CASE worker.pc = "reject"
      BY <2>2, <3>1 DEF MarkGivesUp, NoJob
    <3>2. CASE worker.pc = "mark" /\ worker.ok
      BY <2>2, <3>2 DEF MarkGivesUp, NoJob
    <3>3. CASE worker.pc = "mark" /\ ~worker.ok
      BY <1>1, <2>2, <3>3 DEF MarkGivesUp, Worker
    <3> QED BY <1>1, <3>1, <3>2, <3>3
  <2> QED BY <2>1, <2>2
<1>5. RowsHonest' /\ GreenIsScheduled'
  BY <1>2 DEF Hist, RowsHonest, GreenIsScheduled
<1>6. WorkerHonest'
  BY <1>1, <1>2, <1>4 DEF Hist, WorkerHonest
<1>7. ProcessHonest'
  BY <1>1, <1>2 DEF Hist, ProcessHonest
<1>8. NoStray'
  BY <1>3 DEF NoStray
<1>9. ValidateWaits'
  BY <1>1, <1>2, <1>3, <1>4 DEF Hist, ValidateWaits
<1> QED BY <1>5, <1>6, <1>7, <1>8, <1>9 DEF Hist

\* The heartbeat: "up" is pushed for a recorded success of a scheduled job only.
LEMMA HeartbeatHist ==
    ASSUME IInv, Hist, Heartbeat PROVE Hist'
<1>1. /\ worker.job \in DOMAIN jobs /\ worker.job # 0 /\ worker.pc = "beat"
      /\ kuma \in [Monitored -> {"none", "up", "down"}]
  BY DEF IInv, TypeOK, Heartbeat
<1>2. UNCHANGED <<jobs, proc, faults, restarts, returned>>
  BY DEF Heartbeat
<1>3. worker'.pc = "idle" /\ worker'.job = 0
  BY DEF Heartbeat, NoJob
<1>4. GreenIsScheduled'
  <2> DEFINE k == Kind(jobs[worker.job].key)
  <2> SUFFICES ASSUME NEW m \in Monitored, kuma'[m] = "up"
               PROVE  \E i \in DOMAIN jobs : /\ Kind(jobs[i].key) = m
                                             /\ jobs[i].source = "scheduler"
                                             /\ jobs[i].state = "succeeded"
    BY <1>2 DEF GreenIsScheduled
  <2>1. CASE kuma[m] = "up"
    BY <2>1 DEF Hist, GreenIsScheduled
  <2>2. CASE kuma[m] # "up"
    <3>1. /\ jobs[worker.job].source = "scheduler" /\ k \in Monitored
          /\ \E s \in {kuma[k], "down"} \cup (IF worker.ok THEN {"up"} ELSE {}) :
               kuma' = [kuma EXCEPT ![k] = s]
      BY <2>2 DEF Heartbeat
    <3>2. m = k /\ worker.ok
      BY <1>1, <2>2, <3>1
    <3>3. jobs[worker.job].state = "succeeded"
      BY <1>1, <3>2 DEF Hist, WorkerHonest
    <3> QED BY <1>1, <3>1, <3>2, <3>3
  <2> QED BY <2>1, <2>2
<1>5. RowsHonest'
  BY <1>2 DEF Hist, RowsHonest
<1>6. WorkerHonest' /\ ValidateWaits'
  BY <1>3 DEF WorkerHonest, ValidateWaits
<1>7. ProcessHonest'
  BY <1>1, <1>2 DEF Hist, ProcessHonest
<1>8. NoStray'
  BY <1>1, <1>2 DEF Hist, NoStray, InHandNow
<1> QED BY <1>4, <1>5, <1>6, <1>7, <1>8 DEF Hist

-----------------------------------------------------------------------------
(* The process keeps it, and it holds at first.                            *)

\* A reaped row may have been of a handler that returned, but only after a
\* restart; nothing else changes what the rows say.
LEMMA ProcessHist ==
    ASSUME IInv, Hist, Start \/ Reap \/ ReapFault \/ Stop \/ Stopped \/ Crash
    PROVE  Hist'
<1>a. /\ faults \in Nat /\ restarts \in Nat /\ returned \subseteq DOMAIN jobs
      /\ worker.job = 0 <=> worker.pc \in {"off", "idle", "dead"}
  BY DEF IInv, TypeOK
<1>b. ASSUME NEW pc \in {"idle", "off"}, worker' = NoJob(pc)
      PROVE  worker'.pc = pc /\ worker'.job = 0 /\ WorkerHonest' /\ ValidateWaits'
  BY <1>b DEF NoJob, WorkerHonest, ValidateWaits
<1>1. CASE Start
  <2>1. UNCHANGED <<jobs, worker, kuma, faults, restarts, returned>> /\ proc = "down" /\ proc' = "boot"
    BY <1>1 DEF Start
  <2> QED BY <2>1 DEF Hist, RowsHonest, WorkerHonest, ProcessHonest, NoStray, ValidateWaits,
                      GreenIsScheduled, Queued
<1>2. CASE Stop
  <2>1. /\ UNCHANGED <<jobs, worker, kuma, faults, returned>> /\ proc = "up" /\ proc' = "stopping"
        /\ restarts' > 0
    BY <1>a, <1>2 DEF Stop
  <2> QED BY <2>1 DEF Hist, RowsHonest, WorkerHonest, ProcessHonest, NoStray, ValidateWaits,
                      GreenIsScheduled, Queued, InHandNow
<1>3. CASE Reap
  <2>1. /\ DOMAIN jobs' = DOMAIN jobs
        /\ \A i \in DOMAIN jobs :
             /\ jobs'[i].key = jobs[i].key /\ jobs'[i].source = jobs[i].source
             /\ jobs'[i].state = IF jobs[i].state = "running" THEN "failed" ELSE jobs[i].state
    BY <1>3, ReapAdvances DEF IInv, Advances
  <2>2. /\ worker' = NoJob("idle") /\ UNCHANGED <<kuma, faults, restarts, returned>>
        /\ proc = "boot" /\ proc' = "up"
    BY <1>3 DEF Reap
  <2>3. returned = {} \/ restarts > 0
    BY <1>a, <2>2 DEF Hist, ProcessHonest
  <2>4. RowsHonest'
    BY <2>1, <2>2, <2>3 DEF Hist, RowsHonest
  <2>5. ProcessHonest' /\ NoStray'
    BY <2>1, <2>2 DEF ProcessHonest, NoStray
  <2>6. GreenIsScheduled'
    BY <2>1, <2>2 DEF Hist, GreenIsScheduled
  <2> QED BY <1>b, <2>2, <2>4, <2>5, <2>6 DEF Hist
<1>4. CASE ReapFault
  <2>1. /\ worker' = NoJob("idle") /\ UNCHANGED <<jobs, kuma, restarts, returned>>
        /\ proc' = "up" /\ faults' > 0
    BY <1>a, <1>4 DEF ReapFault, Fault
  <2>2. RowsHonest' /\ GreenIsScheduled'
    BY <2>1 DEF Hist, RowsHonest, GreenIsScheduled
  <2>3. ProcessHonest' /\ NoStray'
    BY <2>1 DEF ProcessHonest, NoStray
  <2> QED BY <1>b, <2>1, <2>2, <2>3 DEF Hist
<1>5. CASE Stopped \/ Crash
  <2>1. /\ worker' = NoJob("off") /\ UNCHANGED <<jobs, kuma, faults, returned>>
        /\ proc' = "down" /\ restarts' > 0 /\ restarts' >= restarts
    BY <1>a, <1>5 DEF Stopped, Crash, Hist, ProcessHonest
  <2>2. RowsHonest'
    BY <2>1 DEF Hist, RowsHonest
  <2>3. ProcessHonest' /\ NoStray'
    BY <2>1, <1>b DEF ProcessHonest, NoStray
  <2>4. GreenIsScheduled'
    BY <2>1 DEF Hist, GreenIsScheduled
  <2> QED BY <1>b, <2>1, <2>2, <2>3, <2>4 DEF Hist
<1> QED BY <1>1, <1>2, <1>3, <1>4, <1>5

\* Nothing has run yet.
LEMMA InitHist == Init => Hist
<1> SUFFICES ASSUME Init PROVE Hist
  OBVIOUS
<1>1. \A i \in DOMAIN jobs : jobs[i].state = "queued"
  <2>1. jobs = <<>> \/ \E k \in Legacy : jobs = <<NewRow(k, FALSE, "api")>>
    BY Zenon DEF Init
  <2> QED BY <2>1 DEF NewRow
<1>2. /\ worker.pc = "off" /\ worker.job = 0
      /\ proc = "down" /\ returned = {} /\ \A k \in Monitored : kuma[k] = "none"
  BY DEF Init, NoJob
<1> QED BY <1>1, <1>2 DEF Hist, RowsHonest, WorkerHonest, ProcessHonest, NoStray, ValidateWaits,
                          GreenIsScheduled

\* Every step keeps it.
LEMMA NextHist == IInv /\ Hist /\ [Next]_vars => Hist'
<1> SUFFICES ASSUME IInv, Hist, [Next]_vars PROVE Hist'
  OBVIOUS
<1>1. CASE UNCHANGED vars
  BY <1>1 DEF vars, Hist, RowsHonest, WorkerHonest, ProcessHonest, NoStray, InHandNow,
              ValidateWaits, GreenIsScheduled, Queued
<1>2. CASE \/ \E k \in Offered \ GameKeys : Tick(k)
           \/ TickPrefill
           \/ \E p \in Platforms : EpicAuth(p)
  <2>1. Grows /\ UNCHANGED <<worker, proc, kuma, faults, restarts, returned>>
    BY <1>2, TicksKeep
  <2>2. Keeps
    BY <2>1, KeepsEither
  <2> QED BY <2>1, <2>2, BesideHist
<1>3. ASSUME NEW r \in Reqs,
             \/ \E k \in Offered, flag \in BOOLEAN : Request(r, k, flag)
             \/ RequestStep(r) \/ RequestFault(r)
      PROVE  Hist'
  <2>1. /\ Grows \/ SameRows
        /\ UNCHANGED <<worker, proc, kuma, restarts, returned>>
        /\ faults' \in {faults, faults + 1}
    BY <1>3, RequestKeeps
  <2>2. Keeps
    BY <2>1, KeepsEither
  <2> QED BY <2>1, <2>2, BesideHist
<1>4. CASE Poll
  BY <1>1, <1>4 DEF Poll
<1>5. CASE WorkerStep
  BY <1>4, <1>5, ClaimHist, EnqueueValidateHist, ReturnsHist, RaisesHist, MarkJobHist,
     MarkFailsHist, HeartbeatHist DEF WorkerStep
<1>6. CASE Start \/ Reap \/ ReapFault \/ Stop \/ Stopped \/ Crash
  BY <1>6, ProcessHist
<1> QED BY <1>1, <1>2, <1>3, <1>5, <1>6 DEF Next

\* The history is inductive together with the types.
THEOREM HistoryInductive == Spec => []Hist
BY InitHist, NextHist, Inductive, PTL DEF Spec

\* 'succeeded' is the record of a handler that returned, and 'failed' is not,
\* unless a restart came between; and a prefill is only recorded as succeeded
\* while its validate waits, or faults stranded an earlier one.
THEOREM OutcomeHonestCorrect == Spec => []OutcomeHonest
<1>1. IInv /\ Hist => OutcomeHonest
  BY DEF IInv, TypeOK, Hist, RowsHonest, ValidateWaits, OutcomeHonest, PrefillIsMeasured
<1> QED BY <1>1, Inductive, HistoryInductive, PTL

\* A monitor that shows "up" shows the recorded success of a scheduled job.
THEOREM GreenIsScheduledCorrect == Spec => []GreenIsScheduled
<1>1. Hist => GreenIsScheduled
  BY DEF Hist
<1> QED BY <1>1, HistoryInductive, PTL

\* While the process is up a running row is in the worker's hands, unless a
\* fault stranded it: no other order of triggers, ticks, stops and deaths leaves
\* a job that nobody will finish and that blocks its key (worker.py:105-274).
THEOREM NoStrayCorrect == Spec => []NoStray
<1>1. Hist => NoStray
  BY DEF Hist
<1> QED BY <1>1, HistoryInductive, PTL

-----------------------------------------------------------------------------
(* The queue implements the ledger.                                        *)

\* The refinement mapping.
Tickets == [i \in DOMAIN jobs |-> [key |-> jobs[i].key, state |-> jobs[i].state]]
Hand    == IF worker.pc \in {"run", "mark", "reject"} THEN worker.job ELSE 0

\* The ledger's tickets are the rows.
LEMMA TicketsAreRows ==
    ASSUME jobs \in Seq(Row)
    PROVE  /\ Tickets \in Seq(Ledger!Ticket)
           /\ DOMAIN Tickets = DOMAIN jobs /\ Len(Tickets) = Len(jobs)
           /\ \A i \in DOMAIN jobs : Tickets[i] = [key |-> jobs[i].key, state |-> jobs[i].state]
<1>1. /\ Len(jobs) \in Nat /\ DOMAIN jobs = 1 .. Len(jobs)
      /\ \A i \in DOMAIN jobs : jobs[i] \in Row
  OBVIOUS
<1>2. \A i \in DOMAIN jobs :
        [key |-> jobs[i].key, state |-> jobs[i].state] \in Ledger!Ticket
  BY <1>1 DEF Row, Live, Terminal, Ledger!Ticket, Ledger!Live, Ledger!Closed
<1>3. Tickets \in [1 .. Len(jobs) -> Ledger!Ticket]
  BY <1>1, <1>2 DEF Tickets
<1>4. Tickets \in Seq(Ledger!Ticket) /\ Len(Tickets) = Len(jobs)
  BY <1>1, <1>3, FunctionIsSeq
<1> QED BY <1>4 DEF Tickets

\* The queue starts as a ledger does.
LEMMA InitLedger == Init => Ledger!Init
<1> SUFFICES ASSUME Init PROVE Ledger!Init
  OBVIOUS
<1>1. jobs \in Seq(Row)
  BY InitInv DEF IInv, TypeOK
<1>2. /\ Tickets \in Seq(Ledger!Ticket) /\ Len(Tickets) = Len(jobs)
      /\ DOMAIN Tickets = DOMAIN jobs
      /\ \A i \in DOMAIN jobs : Tickets[i] = [key |-> jobs[i].key, state |-> jobs[i].state]
  BY <1>1, TicketsAreRows
<1>3. Tickets \in {<<>>} \cup {<<[key |-> k, state |-> "queued"]>> : k \in Keys}
  <2>1. CASE jobs = <<>>
    BY <1>2, <2>1, EmptySeq
  <2>2. ASSUME NEW k \in Legacy, jobs = <<NewRow(k, FALSE, "api")>>
        PROVE  Tickets = <<[key |-> k, state |-> "queued"]>>
    <3> DEFINE t == [key |-> k, state |-> "queued"]
    <3>1. Len(jobs) = 1 /\ jobs[1] = NewRow(k, FALSE, "api") /\ 1 \in DOMAIN jobs
      BY <2>2
    <3>2. Len(Tickets) = 1 /\ Tickets[1] = t
      BY <1>2, <3>1 DEF NewRow
    <3>3. t \in Ledger!Ticket
      BY DEF Ledger!Ticket, Ledger!Live, Keys
    <3> HIDE DEF t
    <3>4. <<t>> \in Seq(Ledger!Ticket) /\ Len(<<t>>) = 1 /\ <<t>>[1] = t
      BY <3>3
    <3> QED BY <1>2, <3>2, <3>4, SeqEqual DEF t
  <2>3. jobs = <<>> \/ \E k \in Legacy : jobs = <<NewRow(k, FALSE, "api")>>
    BY Zenon DEF Init
  <2> QED BY <2>1, <2>2, <2>3 DEF Keys
<1>4. Hand = 0
  BY DEF Init, NoJob, Hand
<1> QED BY <1>3, <1>4 DEF Ledger!Init, Tickets, Hand


\* Rows that keep their keys and states are the same tickets.
LEMMA SameTickets ==
    ASSUME DOMAIN jobs' = DOMAIN jobs,
           \A i \in DOMAIN jobs : jobs'[i].key = jobs[i].key /\ jobs'[i].state = jobs[i].state
    PROVE  Tickets' = Tickets
BY DEF Tickets

\* Added rows are filed tickets.
LEMMA GrowsFiles ==
    ASSUME IInv, Grows, Hand' = Hand
    PROVE  Ledger!File
<1>1. jobs \in Seq(Row) /\ jobs' \in Seq(Row)
  BY DEF IInv, TypeOK, Grows
<1>2. /\ DOMAIN Tickets = DOMAIN jobs
      /\ \A i \in DOMAIN jobs : Tickets[i] = [key |-> jobs[i].key, state |-> jobs[i].state]
  BY <1>1, TicketsAreRows
<1>3. /\ Tickets' \in Seq(Ledger!Ticket)
      /\ DOMAIN Tickets' = DOMAIN jobs'
      /\ \A i \in DOMAIN jobs' : Tickets'[i] = [key |-> jobs'[i].key, state |-> jobs'[i].state]
  <2> DEFINE S == Ledger!Ticket
  <2>1. /\ Len(jobs') \in Nat /\ DOMAIN jobs' = 1 .. Len(jobs')
        /\ \A i \in DOMAIN jobs' : jobs'[i] \in Row
    BY <1>1
  <2>2. \A i \in DOMAIN jobs' : [key |-> jobs'[i].key, state |-> jobs'[i].state] \in S
    BY <2>1 DEF Row, Live, Terminal, Ledger!Ticket, Ledger!Live, Ledger!Closed
  <2> HIDE DEF S
  <2>3. Tickets' \in [1 .. Len(jobs') -> S]
    BY <2>1, <2>2 DEF Tickets
  <2>4. Tickets' \in Seq(S)
    BY <2>1, <2>3, FunctionIsSeq
  <2> QED BY <2>4 DEF Tickets, S
<1>4. DOMAIN Tickets \subseteq DOMAIN Tickets' /\ \A i \in DOMAIN Tickets : Tickets'[i] = Tickets[i]
  BY <1>2, <1>3 DEF Grows
<1>5. \A i \in DOMAIN Tickets' \ DOMAIN Tickets :
        Tickets'[i].state = "queued" /\ Ledger!OpenFor(Tickets'[i].key) = {}
  <2> SUFFICES ASSUME NEW i \in DOMAIN Tickets' \ DOMAIN Tickets
               PROVE  Tickets'[i].state = "queued" /\ Ledger!OpenFor(Tickets'[i].key) = {}
    OBVIOUS
  <2>1. /\ i \in DOMAIN jobs' \ DOMAIN jobs
        /\ Tickets'[i].key = jobs'[i].key /\ Tickets'[i].state = jobs'[i].state
    BY <1>2, <1>3
  <2>2. jobs'[i].state = "queued" /\ Open(jobs'[i].key) = {}
    BY <2>1 DEF Grows
  <2>3. \A j \in DOMAIN Tickets : ~(Tickets[j].key = jobs'[i].key /\ Tickets[j].state \in Live)
    BY <1>2, <2>2 DEF Open
  <2>4. Ledger!OpenFor(jobs'[i].key) = {}
    BY <2>3 DEF Ledger!OpenFor, Ledger!Live, Live, Tickets
  <2> QED BY <2>1, <2>2, <2>4
<1>6. \A i, j \in DOMAIN Tickets' \ DOMAIN Tickets : Tickets'[i].key = Tickets'[j].key => i = j
  BY <1>2, <1>3 DEF Grows
<1> QED BY <1>3, <1>4, <1>5, <1>6 DEF Ledger!File, Tickets, Hand

\* The claim serves the oldest ticket that waits.
LEMMA ClaimServes ==
    ASSUME IInv, Claim
    PROVE  Ledger!Serve
<1>1. PICK i \in Queued :
             /\ \A j \in Queued : i <= j
             /\ DOMAIN jobs' = DOMAIN jobs
             /\ \A j \in DOMAIN jobs : /\ jobs'[j].key = jobs[j].key
                                       /\ jobs'[j].state = IF j = i THEN "running" ELSE jobs[j].state
             /\ worker'.job = i /\ worker'.pc \in {"run", "reject"}
  BY ClaimTakes
<1>2. Hand = 0 /\ Hand' = i
  BY <1>1 DEF Claim, Hand
<1>3. Ledger!Waiting = Queued
  BY DEF Ledger!Waiting, Queued
<1>4. Tickets' = [Tickets EXCEPT ![i].state = "running"]
  <2> DEFINE s == "running"
  <2>1. i \in DOMAIN jobs
    BY DEF Queued
  <2>2. \A j \in DOMAIN jobs : /\ jobs'[j].key = jobs[j].key
                              /\ jobs'[j].state = IF j = i THEN s ELSE jobs[j].state
    BY <1>1
  <2>3. DOMAIN jobs' = DOMAIN jobs
    BY <1>1
  <2> HIDE DEF s
  <2>4. Tickets' = [Tickets EXCEPT ![i].state = s]
    BY <2>1, <2>2, <2>3 DEF Tickets
  <2> QED BY <2>4 DEF s
<1> QED BY <1>1, <1>2, <1>3, <1>4 DEF Ledger!Serve, Tickets, Hand

\* The mark closes the ticket in hand.
LEMMA MarkFinishes ==
    ASSUME IInv, MarkJob
    PROVE  Ledger!Finish
<1>1. /\ DOMAIN jobs' = DOMAIN jobs
      /\ \A j \in DOMAIN jobs :
           /\ jobs'[j].key = jobs[j].key
           /\ jobs'[j].state = IF j # worker.job THEN jobs[j].state
                              ELSE IF worker.ok THEN "succeeded" ELSE "failed"
  BY MarkEnds
<1>2. /\ worker.job \in DOMAIN jobs /\ worker.job # 0 /\ worker \in Worker
      /\ worker.pc \in {"mark", "reject"}
  BY DEF IInv, TypeOK, MarkJob
<1>3. worker'.pc \in {"beat", "idle"}
  BY <1>2 DEF MarkJob, NoJob, Worker
<1>4. Hand = worker.job /\ Hand # 0 /\ Hand' = 0
  BY <1>2, <1>3 DEF Hand
<1>5. \E s \in Ledger!Closed : Tickets' = [Tickets EXCEPT ![Hand].state = s]
  <2> DEFINE s == IF worker.ok THEN "succeeded" ELSE "failed"
  <2>1. s \in Ledger!Closed
    BY DEF Ledger!Closed
  <2>2. \A j \in DOMAIN jobs :
           /\ jobs'[j].key = jobs[j].key
           /\ jobs'[j].state = IF j = worker.job THEN s ELSE jobs[j].state
    BY <1>1
  <2> HIDE DEF s
  <2>3. Tickets' = [Tickets EXCEPT ![worker.job].state = s]
    BY <1>1, <1>2, <2>2 DEF Tickets
  <2> QED BY <1>4, <2>1, <2>3
<1> QED BY <1>4, <1>5 DEF Ledger!Finish, Tickets, Hand

\* The boot reaper writes off what is left, while nobody is served.
LEMMA ReapRecovers ==
    ASSUME IInv, Hist, Reap
    PROVE  Ledger!Recover
<1>1. /\ DOMAIN jobs' = DOMAIN jobs
      /\ \A i \in DOMAIN jobs :
           /\ jobs'[i].key = jobs[i].key
           /\ jobs'[i].state = IF jobs[i].state = "running" THEN "failed" ELSE jobs[i].state
  BY ReapAdvances DEF IInv, Advances
<1>2. Hand = 0 /\ Hand' = 0
  BY DEF Reap, NoJob, Hand, Hist, ProcessHonest
<1>3. Tickets' = [i \in DOMAIN Tickets |->
                    IF Tickets[i].state = "running"
                      THEN [Tickets[i] EXCEPT !.state = "failed"] ELSE Tickets[i]]
  BY <1>1 DEF Tickets
<1> QED BY <1>2, <1>3 DEF Ledger!Recover, Tickets, Hand

\* A step that lets go of the row in hand, if there is one, and leaves the table
\* alone, abandons the ticket or is not seen.
LEMMA LetsGo ==
    ASSUME UNCHANGED jobs, Hand' \in {Hand, 0}
    PROVE  Ledger!Abandon \/ UNCHANGED <<Tickets, Hand>>
<1>1. Tickets' = Tickets
  BY DEF Tickets
<1>2. CASE Hand' = Hand
  BY <1>1, <1>2
<1>3. CASE Hand # 0 /\ Hand' = 0
  BY <1>1, <1>3 DEF Ledger!Abandon, Tickets, Hand
<1> QED BY <1>2, <1>3

\* Every step of the queue is a step of the ledger, or is not seen.
LEMMA NextLedger == IInv /\ Hist /\ [Next]_vars => [Ledger!Next]_(Ledger!lvars)
<1> SUFFICES ASSUME IInv, Hist, [Next]_vars
             PROVE  Ledger!Next \/ UNCHANGED <<Tickets, Hand>>
  BY DEF Ledger!lvars, Tickets, Hand
<1> DEFINE Seen == Ledger!Next \/ UNCHANGED <<Tickets, Hand>>
<1>a. worker \in Worker /\ jobs \in Seq(Row)
  BY DEF IInv, TypeOK
<1>1. CASE UNCHANGED vars
  BY <1>1 DEF vars, Tickets, Hand
<1>2. CASE \/ \E k \in Offered \ GameKeys : Tick(k)
           \/ TickPrefill
           \/ \E p \in Platforms : EpicAuth(p)
  <2>1. Grows /\ UNCHANGED worker
    BY <1>2, TicksKeep
  <2> QED BY <2>1, GrowsFiles DEF Hand, Ledger!Next
<1>3. ASSUME NEW r \in Reqs,
             \/ \E k \in Offered, flag \in BOOLEAN : Request(r, k, flag)
             \/ RequestStep(r) \/ RequestFault(r)
      PROVE  Seen
  <2>1. (Grows \/ SameRows) /\ UNCHANGED worker
    BY <1>3, RequestKeeps
  <2>2. CASE Grows
    BY <2>1, <2>2, GrowsFiles DEF Hand, Ledger!Next
  <2>3. CASE SameRows
    BY <2>1, <2>3, SameTickets DEF SameRows, Hand
  <2> QED BY <2>1, <2>2, <2>3
<1>4. CASE WorkerStep
  <2>1. CASE Claim
    BY <2>1, ClaimServes DEF Ledger!Next
  <2>2. CASE MarkJob
    BY <2>2, MarkFinishes DEF Ledger!Next
  <2>3. CASE EnqueueValidate
    <3>1. Grows
      BY <2>3, EnqueueValidateGrows
    <3>2. worker'.pc = worker.pc /\ worker'.job = worker.job
      BY <1>a, <2>3 DEF EnqueueValidate, Worker
    <3> QED BY <3>1, <3>2, GrowsFiles DEF Hand, Ledger!Next
  <2>4. CASE HandlerReturns \/ HandlerRaises \/ MarkRetry
    <3>1. UNCHANGED jobs /\ worker'.job = worker.job
          /\ {worker.pc, worker'.pc} \subseteq {"run", "mark", "reject"}
      BY <1>a, <2>4 DEF HandlerReturns, HandlerRaises, MarkRetry, Worker
    <3> QED BY <3>1, LetsGo DEF Hand, Ledger!Next
  <2>5. CASE MarkGivesUp
    <3>1. UNCHANGED jobs /\ worker'.pc \in {"dead", "idle", "beat"}
      BY <1>a, <2>5 DEF MarkGivesUp, NoJob, Worker
    <3> QED BY <3>1, LetsGo DEF Hand, Ledger!Next
  <2>6. CASE Heartbeat \/ Poll
    <3>1. UNCHANGED jobs /\ (worker'.pc = "idle" \/ UNCHANGED worker)
      BY <2>6 DEF Heartbeat, Poll, NoJob, vars
    <3> QED BY <3>1, LetsGo DEF Hand, Ledger!Next
  <2> QED BY <1>4, <2>1, <2>2, <2>3, <2>4, <2>5, <2>6 DEF WorkerStep
<1>5. CASE Reap
  BY <1>5, ReapRecovers DEF Ledger!Next
<1>6. CASE Start \/ ReapFault \/ Stop \/ Stopped \/ Crash
  <2>1. UNCHANGED jobs /\ (worker'.pc \in {"idle", "off"} \/ UNCHANGED worker)
    BY <1>6 DEF Start, ReapFault, Stop, Stopped, Crash, NoJob
  <2> QED BY <2>1, LetsGo DEF Hand, Ledger!Next
<1> QED BY <1>1, <1>2, <1>3, <1>4, <1>5, <1>6 DEF Next

\* The queue implements the ledger: one job in hand at a time, the oldest first,
\* closed once, by who holds it or by the reaper while nobody does, whatever the
\* triggers, the retries, the faults and the restarts do between.
THEOREM ImplementsLedgerCorrect == Spec => ImplementsLedger
BY InitLedger, NextLedger, Inductive, HistoryInductive, PTL DEF Spec, ImplementsLedger, Ledger!Spec

=============================================================================
