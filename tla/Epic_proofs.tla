---------------------------- MODULE Epic_proofs ----------------------------
(***************************************************************************)
(* Proofs about modules EpicLibrary and EpicChunks.  Of the first, for any *)
(* number of logins and failures: the session that is saved is as good as  *)
(* the one in memory.  Of the second, for any manifests, hosts and bounds: *)
(* what a pull reported is what a validate finds.  Of both, the types.     *)
(***************************************************************************)
EXTENDS EpicLibrary, EpicChunks, FiniteSetTheorems, TLAPS

-----------------------------------------------------------------------------
(* The session.                                                            *)

\* A refresh asks with the token in memory, if there is one worth keeping.
AsksOwn == call.pc = "ask" /\ mem.good => call.token.login = mem.login

\* What is in memory is in the file, also while Epic is being asked.
Saved == mem.good /\ ~unsaved => file.good

SInv == SessionTypeOK /\ AsksOwn /\ Saved

LEMMA TokenFacts ==
    /\ NoToken \in Tokens /\ ~NoToken.good
    /\ \A l \in Logins : Token(l) \in Tokens /\ Token(l).good /\ Token(l).login = l
    /\ \A t \in Tokens, l \in Logins :
         /\ Spend(t, l) \in Tokens /\ Spend(t, l).login = t.login
         /\ t.login = l => ~Spend(t, l).good
         /\ t.login # l => Spend(t, l) = t
<1> USE SessionAssumption DEF Tokens, Logins
<1>1. NoToken \in Tokens /\ ~NoToken.good
  BY DEF NoToken
<1>2. \A l \in Logins : Token(l) \in Tokens /\ Token(l).good /\ Token(l).login = l
  BY DEF Token
<1>3. \A t \in Tokens, l \in Logins :
         /\ Spend(t, l) \in Tokens /\ Spend(t, l).login = t.login
         /\ t.login = l => ~Spend(t, l).good
         /\ t.login # l => Spend(t, l) = t
  BY DEF Spend
<1> QED
  BY <1>1, <1>2, <1>3

CallSet == [pc : {"idle", "token", "ask", "call", "ok", "denied", "failed"},
            retry : BOOLEAN, token : Tokens]

LEMMA CallFacts ==
    /\ NoCall \in CallSet /\ NoCall.pc = "idle"
    /\ \A how \in {"token", "ok", "denied", "failed"} :
         [NoCall EXCEPT !.pc = how] \in CallSet /\ [NoCall EXCEPT !.pc = how].pc = how
BY TokenFacts DEF CallSet, NoCall

LEMMA FaultTyped ==
    ASSUME SessionTypeOK, Fault \/ UNCHANGED faults
    PROVE  faults' \in 0..MaxFaults
BY SessionAssumption DEF SessionTypeOK, Fault

LEMMA SessionInitInv == SessionInit => SInv
<1> SUFFICES ASSUME SessionInit PROVE SInv
  OBVIOUS
<1>1. SessionTypeOK
  <2>1. mem \in Tokens /\ file \in Tokens /\ call \in CallSet
    BY TokenFacts, CallFacts DEF SessionInit
  <2>2. alive \subseteq 1..logins /\ logins \in Logins /\ faults \in 0..MaxFaults
    BY SessionAssumption DEF SessionInit, Logins
  <2>3. submit = "idle" /\ auth = "never" /\ unsaved = FALSE
    BY DEF SessionInit
  <2> QED
    BY <2>1, <2>2, <2>3 DEF SessionTypeOK, CallSet
<1>2. AsksOwn /\ Saved
  BY TokenFacts DEF SessionInit, AsksOwn, Saved
<1> QED
  BY <1>1, <1>2 DEF SInv

LEMMA TokenStepInv ==
    ASSUME SInv, SessionStep
    PROVE  SInv'
<1> USE SessionAssumption DEF SInv
<1>0. /\ call.token \in Tokens /\ call.token.login \in Logins
      /\ mem \in Tokens /\ file \in Tokens
  BY DEF SessionTypeOK, Tokens
<1>c. call \in CallSet
  BY DEF SessionTypeOK, CallSet
<1>1. CASE UsesCached
  BY <1>1 DEF UsesCached, SessionTypeOK, AsksOwn, Saved
<1>2. CASE Asks
  <2>1. CASE mem # NoToken
    <3>1. call' = [call EXCEPT !.pc = "ask", !.token = mem]
      BY <1>2, <2>1 DEF Asks
    <3>2. call' \in CallSet /\ call'.token = mem
      BY <1>0, <1>c, <3>1 DEF CallSet
    <3> QED
      BY <1>2, <3>2 DEF Asks, SessionTypeOK, CallSet, AsksOwn, Saved
  <2>2. CASE mem = NoToken
    <3>1. call' = [call EXCEPT !.pc = "ask", !.token = file] \/ call' = [NoCall EXCEPT !.pc = "denied"]
      BY <1>2, <2>2 DEF Asks, Ends
    <3>2. call' \in CallSet
      BY <1>0, <1>c, <3>1, CallFacts DEF CallSet
    <3> QED
      BY <1>2, <2>2, <3>2, TokenFacts DEF Asks, SessionTypeOK, CallSet, AsksOwn, Saved
  <2> QED
    BY <2>1, <2>2
<1>3. CASE Answered
  <2>1. mem' = Token(call.token.login) /\ mem' \in Tokens
    BY <1>0, <1>3, TokenFacts DEF Answered
  <2>2. CASE file' = Token(call.token.login) /\ call' = [call EXCEPT !.pc = "call"]
             /\ unsaved' = FALSE /\ UNCHANGED faults
    <3>1. file' \in Tokens /\ file'.good /\ call' \in CallSet /\ call'.pc = "call"
      BY <1>0, <1>c, <2>2, TokenFacts DEF CallSet
    <3> QED
      BY <1>3, <2>1, <2>2, <3>1 DEF Answered, SessionTypeOK, CallSet, AsksOwn, Saved
  <2>3. CASE /\ Fault /\ Ends("failed")
             /\ file' \in FailedSave(Spend(file, call.token.login), call.token.login)
             /\ unsaved' = (file' # Token(call.token.login))
    <3>1. call' \in CallSet /\ call'.pc = "failed" /\ faults' \in 0..MaxFaults
      BY <2>3, CallFacts, FaultTyped DEF Ends
    <3>2. file' \in Tokens /\ unsaved' \in BOOLEAN /\ (~unsaved' => file'.good)
      <4> DEFINE l == call.token.login
      <4>1. Spend(file, l) \in Tokens /\ Token(l) \in Tokens /\ Token(l).good /\ NoToken \in Tokens
        BY <1>0, TokenFacts
      <4>2. file' \in {Spend(file, l), NoToken, Token(l)} /\ (unsaved' <=> file' # Token(l))
            /\ unsaved' \in BOOLEAN
        BY <2>3 DEF FailedSave
      <4> QED
        BY <4>1, <4>2
    <3> QED
      BY <1>3, <2>1, <2>3, <3>1, <3>2 DEF Answered, SessionTypeOK, CallSet, AsksOwn, Saved
  <2> QED
    BY <1>3, <2>2, <2>3 DEF Answered
<1>4. CASE Refused
  <2>1. call' \in CallSet /\ call'.pc = "denied"
    BY <1>4, CallFacts DEF Refused, Ends
  <2> QED
    BY <1>4, <2>1 DEF Refused, SessionTypeOK, CallSet, AsksOwn, Saved
<1>5. CASE AnswerLost
  <2>1. /\ call' \in CallSet
        /\ call'.pc # "ask"
    BY <1>5, CallFacts DEF AnswerLost, Ends
  <2>2. mem' \in Tokens /\ file' \in Tokens
    BY <1>0, <1>5, TokenFacts DEF AnswerLost
  <2>3. Saved'
    <3>1. CASE UNCHANGED <<mem, file>>
      BY <1>5, <3>1 DEF AnswerLost, Saved
    <3>2. CASE mem' = Spend(mem, call.token.login) /\ file' = Spend(file, call.token.login)
      <4>1. ~mem'.good
        BY <1>0, <1>5, <3>2, TokenFacts DEF AnswerLost, AsksOwn
      <4> QED
        BY <4>1 DEF Saved
    <3> QED
      BY <1>5, <3>1, <3>2 DEF AnswerLost
  <2> QED
    BY <1>5, <2>1, <2>2, <2>3, FaultTyped DEF AnswerLost, SessionTypeOK, CallSet, AsksOwn
<1>6. CASE Calls
  <2>1. /\ call' \in CallSet
        /\ call'.pc # "ask"
    <3>1. [call EXCEPT !.pc = "token", !.retry = TRUE] \in CallSet
      BY <1>c DEF CallSet
    <3> QED
      BY <1>6, <1>c, <3>1, CallFacts DEF Calls, Ends, CallSet
  <2>2. faults' \in 0..MaxFaults
    BY <1>6, FaultTyped DEF Calls
  <2> QED
    BY <1>6, <2>1, <2>2 DEF Calls, SessionTypeOK, CallSet, AsksOwn, Saved
<1> QED
  BY <1>1, <1>2, <1>3, <1>4, <1>5, <1>6 DEF SessionStep

LEMMA OutsideInv ==
    ASSUME SInv, AccessFades \/ LoginOver \/ SubmitCode \/ SubmitStatus \/ SessionRestarts
    PROVE  SInv'
<1> USE SessionAssumption DEF SInv
<1>0. /\ call.token \in Tokens /\ call.token.login \in Logins
      /\ mem \in Tokens /\ file \in Tokens
  BY DEF SessionTypeOK, Tokens
<1>1. CASE AccessFades
  <2>1. mem' \in Tokens /\ mem'.login = mem.login /\ mem'.good = mem.good
    BY <1>0, <1>1 DEF AccessFades, Tokens
  <2> QED
    BY <1>1, <2>1 DEF AccessFades, SessionTypeOK, AsksOwn, Saved
<1>2. CASE LoginOver
  <2>1. mem' \in Tokens /\ mem'.login = mem.login /\ mem'.good = mem.good
    BY <1>0, <1>2 DEF LoginOver, Tokens
  <2>2. alive' \subseteq 1..logins
    BY <1>2 DEF LoginOver, SessionTypeOK
  <2> QED
    BY <1>2, <2>1, <2>2 DEF LoginOver, SessionTypeOK, AsksOwn, Saved
<1>3. CASE SubmitCode
  <2>1. logins \in Logins /\ logins' = logins + 1 /\ logins' \in Logins
    BY <1>3 DEF SubmitCode, SessionTypeOK, Logins
  <2>2. alive' \subseteq 1..logins'
    BY <1>3, <2>1 DEF SubmitCode, SessionTypeOK, Logins
  <2>3. file' \in Tokens /\ (file'.good \/ unsaved' \/ UNCHANGED <<file, unsaved>>)
    <3>1. /\ Token(logins') \in Tokens /\ Token(logins').good
          /\ NoToken \in Tokens /\ unsaved \in BOOLEAN
      BY <2>1, TokenFacts DEF SessionTypeOK
    <3> QED
      BY <1>0, <1>3, <3>1 DEF SubmitCode, FailedSave
  <2>4. /\ submit' \in {"idle", "status", "enqueue"} /\ faults' \in 0..MaxFaults
        /\ unsaved' \in BOOLEAN
    BY <1>3, FaultTyped DEF SubmitCode, SessionTypeOK
  <2> QED
    BY <1>3, <2>1, <2>2, <2>3, <2>4 DEF SubmitCode, SessionTypeOK, AsksOwn, Saved
<1>4. CASE SubmitStatus
  BY <1>4, FaultTyped DEF SubmitStatus, SessionTypeOK, AsksOwn, Saved
<1>5. CASE SessionRestarts
  <2>1. file' \in Tokens
    BY <1>0, <1>5, TokenFacts DEF SessionRestarts, FailedSave
  <2> QED
    BY <1>5, <2>1, TokenFacts, CallFacts, FaultTyped DEF SessionRestarts, CallSet, SessionTypeOK, AsksOwn, Saved
<1> QED
  BY <1>1, <1>2, <1>3, <1>4, <1>5

\* What a job does to the session: it begins a call, or takes its end.
LEMMA JobInv ==
    ASSUME SInv, Claim \/ CallEnds \/ Upsert \/ Download \/ Measure \/ PrefillRaises \/ SubmitEnqueues
    PROVE  SInv'
<1> USE SessionAssumption DEF SInv
<1>1. CASE Claim
  <2>1. call' = call \/ (call' \in CallSet /\ call'.pc = "token")
    BY <1>1, CallFacts DEF Claim
  <2> QED
    BY <1>1, <2>1 DEF Claim, CallSet, SessionTypeOK, AsksOwn, Saved
<1>2. CASE CallEnds
  BY <1>2, CallFacts, FaultTyped DEF CallEnds, CallSet, SessionTypeOK, AsksOwn, Saved
<1>3. CASE Upsert \/ Download \/ Measure \/ PrefillRaises
  <2>1. UNCHANGED <<mem, file, alive, call, submit, auth, logins, unsaved>>
    BY <1>3 DEF Upsert, Download, Measure, PrefillRaises
  <2>2. Fault \/ UNCHANGED faults
    BY <1>3, Zenon DEF Upsert, Download, Measure, PrefillRaises
  <2>3. faults' \in 0..MaxFaults
    BY <2>2, FaultTyped
  <2> QED
    BY <2>1, <2>3 DEF SessionTypeOK, AsksOwn, Saved
<1>4. CASE SubmitEnqueues
  BY <1>4, FaultTyped DEF SubmitEnqueues, SessionTypeOK, AsksOwn, Saved
<1> QED
  BY <1>1, <1>2, <1>3, <1>4

\* The strengthening is inductive: types, whose token is asked with, and the
\* file as good as the memory.
THEOREM SessionInductive == Spec => []SInv
<1>1. Init => SInv
  BY SessionInitInv DEF Init
<1>2. SInv /\ [Next]_vars => SInv'
  <2> SUFFICES ASSUME SInv, [Next]_vars PROVE SInv'
    OBVIOUS
  <2>1. CASE UNCHANGED evars
    BY <2>1 DEF evars, SInv, SessionTypeOK, AsksOwn, Saved
  <2>2. CASE Session \/ Restart
    BY <2>2, TokenStepInv, OutsideInv DEF Session, Restart
  <2>3. CASE Work
    BY <2>1, <2>3, TokenStepInv, JobInv DEF Work, RecordManifest, EnqueueValidate, MarkPrefilled
  <2>4. CASE SubmitEnqueues \/ PrefillRaises
    BY <2>4, JobInv
  <2>5. ASSUME NEW j \in Jobs, Enqueue(j) PROVE SInv'
    BY <2>1, <2>5 DEF Enqueue
  <2>6. ASSUME NEW g \in Games, SchedulePrefill(g) \/ Curate(g) \/ TriggerPrefill(g) \/ Evict(g)
        PROVE  SInv'
    BY <2>1, <2>6 DEF SchedulePrefill, Curate, TriggerPrefill, Evict
  <2>7. CASE UNCHANGED vars
    BY <2>1, <2>7 DEF vars
  <2> QED
    BY <2>2, <2>3, <2>4, <2>5, <2>6, <2>7 DEF Next
<1> QED
  BY <1>1, <1>2, PTL DEF Spec

\* A restart at any moment finds a token in the file that is as good as the one
\* in memory, unless the file could not be written (client.py:75-88).
THEOREM RestartKeepsSessionCorrect == Spec => []RestartKeepsSession
<1>1. SInv => RestartKeepsSession
  BY DEF SInv, Saved, RestartKeepsSession
<1> QED
  BY <1>1, SessionInductive, PTL

-----------------------------------------------------------------------------
(* The library's types.                                                    *)

JobPcs == {"none", "epic", "upsert", "manifest", "download", "enqueue", "mark", "measure"}

\* A prefill or a validate is of a game in the table.
JobOK(j) == j \in Jobs /\ (j.kind # "library_sync" => j.game \in known)

\* The running job: what it is, and where.
RunningOK ==
    /\ job \in [kind : Kinds \cup {"none"}, game : Games \cup {NoGame}, pc : JobPcs]
    /\ job # NoJob => JobOK(Job(job.kind, job.game)) /\ job.pc # "none"
    /\ job.pc \in {"manifest", "download", "enqueue", "mark"} => job.kind = "prefill"
    /\ job.pc = "measure" => job.kind = "validate"

QueueOK == queue \in Seq(Jobs) /\ \A i \in DOMAIN queue : JobOK(queue[i])

DataOK ==
    /\ known \subseteq Games /\ measured \subseteq known
    /\ status \in [Games -> {"unknown", "up_to_date", "validation_failed", "not_downloaded"}]
    /\ block \subseteq Games /\ excl \subseteq Games
    /\ disk \in [Games -> {"cached", "partial", "missing"}]
    /\ ops \in 0..MaxOps

LInv == RunningOK /\ QueueOK /\ DataOK

\* Games are only ever added.
LEMMA KnownGrows ==
    ASSUME QueueOK, known \subseteq known', queue' = queue
    PROVE  QueueOK'
BY DEF QueueOK, JobOK

\* A job that may be queued is queued, once.
LEMMA EnqueuedOK ==
    ASSUME QueueOK, NEW j, JobOK(j), queue' = Enqueued(j), known' = known
    PROVE  QueueOK'
<1>1. CASE queue' = queue
  BY <1>1 DEF QueueOK, JobOK
<1>2. CASE queue' = Append(queue, j)
  BY <1>2 DEF QueueOK, JobOK
<1> QED
  BY <1>1, <1>2 DEF Enqueued

LEMMA NoJobOK ==
    ASSUME job' = NoJob
    PROVE  RunningOK'
BY DEF RunningOK, NoJob, JobPcs

\* The running job goes on.
LEMMA GoesOK ==
    ASSUME RunningOK, job # NoJob, known \subseteq known', NEW pc \in JobPcs \ {"none"},
           job' = [job EXCEPT !.pc = pc],
           pc \in {"manifest", "download", "enqueue", "mark"} => job.kind = "prefill",
           pc = "measure" => job.kind = "validate"
    PROVE  RunningOK'
<1>1. /\ job'.kind = job.kind /\ job'.game = job.game /\ job'.pc = pc
      /\ job' \in [kind : Kinds \cup {"none"}, game : Games \cup {NoGame}, pc : JobPcs]
  BY DEF RunningOK
<1> QED
  BY <1>1 DEF RunningOK, JobOK, Job

\* The worker claims the oldest job.
LEMMA ClaimTyped ==
    ASSUME LInv, Claim
    PROVE  LInv'
<1>1. /\ queue # <<>> /\ queue \in Seq(Jobs) /\ queue' = Tail(queue)
      /\ \A i \in DOMAIN queue : JobOK(queue[i])
      /\ UNCHANGED <<known, status, measured, block, excl, disk, ops>>
  BY DEF Claim, LInv, QueueOK
<1>2. Head(queue) = queue[1] /\ 1 \in DOMAIN queue
  BY <1>1
<1>3. JobOK(Head(queue))
  BY <1>1, <1>2
<1>4. QueueOK'
  <2>1. queue' \in Seq(Jobs) /\ \A i \in DOMAIN queue' : i + 1 \in DOMAIN queue /\ queue'[i] = queue[i + 1]
    BY <1>1
  <2> QED
    BY <1>1, <2>1 DEF QueueOK, JobOK
<1>5. RunningOK'
  <2> DEFINE j == Head(queue)
  <2>1. /\ j.kind \in Kinds /\ j.game \in Games \cup {NoGame} /\ Job(j.kind, j.game) = j
    BY <1>3 DEF JobOK, Jobs, Kinds, Job
  <2>2. job' = [kind |-> j.kind, game |-> j.game,
                pc |-> IF j.kind = "validate" THEN "measure" ELSE "epic"]
    BY DEF Claim
  <2> HIDE DEF j
  <2>3. /\ job'.kind = j.kind /\ job'.game = j.game
        /\ job'.pc = IF j.kind = "validate" THEN "measure" ELSE "epic"
    BY <2>2
  <2>4. j \in Jobs /\ (j.kind # "library_sync" => j.game \in known')
    BY <1>1, <1>3 DEF JobOK, j
  <2>5. Job(job'.kind, job'.game) = j
    BY <2>1, <2>3
  <2>6. job' \in [kind : Kinds \cup {"none"}, game : Games \cup {NoGame}, pc : JobPcs]
    BY <2>1, <2>2 DEF JobPcs
  <2> QED
    BY <2>3, <2>4, <2>5, <2>6 DEF RunningOK, JobOK
<1>6. DataOK'
  BY <1>1 DEF LInv, DataOK
<1> QED
  BY <1>4, <1>5, <1>6 DEF LInv

\* The other steps of the worker.
LEMMA WorkTyped ==
    ASSUME LInv, \/ CallEnds \/ Upsert \/ RecordManifest \/ Download
                 \/ EnqueueValidate \/ MarkPrefilled \/ Measure \/ PrefillRaises
    PROVE  LInv'
<1> USE DEF LInv
<1>0. job.pc = "none" \/ job # NoJob
  BY DEF NoJob
<1>1. CASE CallEnds
  <2>1. RunningOK'
    <3>1. CASE job' = NoJob
      BY <3>1, NoJobOK
    <3>2. CASE job' = [job EXCEPT !.pc = IF job.kind = "prefill" THEN "manifest" ELSE "upsert"]
      <4>1. job # NoJob /\ known' = known
        BY <1>0, <1>1 DEF CallEnds
      <4> QED
        BY <3>2, <4>1, GoesOK DEF JobPcs
    <3> QED
      BY <1>1, <3>1, <3>2 DEF CallEnds
  <2> QED
    BY <1>1, <2>1, KnownGrows DEF CallEnds, DataOK
<1>2. CASE Upsert
  <2>1. known \subseteq known' /\ known' \subseteq Games
    BY <1>2 DEF Upsert, DataOK
  <2> QED
    BY <1>2, <2>1, NoJobOK, KnownGrows DEF Upsert, DataOK
<1>3. CASE MarkPrefilled \/ PrefillRaises
  BY <1>3, NoJobOK, KnownGrows DEF MarkPrefilled, PrefillRaises, DataOK
<1>4. CASE RecordManifest \/ EnqueueValidate \/ (Download /\ Goes("enqueue"))
  <2>1. /\ job # NoJob /\ job.kind = "prefill" /\ known' = known
        /\ \E pc \in {"download", "enqueue", "mark"} : job' = [job EXCEPT !.pc = pc]
    BY <1>0, <1>4 DEF RecordManifest, EnqueueValidate, Download, Goes, RunningOK
  <2>2. RunningOK'
    BY <2>1, GoesOK DEF JobPcs
  <2>3. JobOK(Job("validate", job.game)) /\ job.game \in Games
    BY <2>1 DEF RunningOK, JobOK, Jobs, Job, DataOK
  <2>4. QueueOK'
    BY <1>4, <2>1, <2>3, KnownGrows, EnqueuedOK DEF RecordManifest, EnqueueValidate, Download
  <2>5. DataOK'
    BY <1>4, <2>3 DEF RecordManifest, EnqueueValidate, Download, DataOK
  <2> QED
    BY <2>2, <2>4, <2>5
<1>5. CASE Download /\ job' = NoJob
  <2>1. disk' \in [Games -> {"cached", "partial", "missing"}]
    BY <1>5 DEF Download, DataOK
  <2> QED
    BY <1>5, <2>1, NoJobOK, KnownGrows DEF Download, DataOK
<1>6. CASE Measure
  <2>1. job.game \in known
    BY <1>0, <1>6 DEF Measure, RunningOK, JobOK, Job
  <2>2. StatusOf[disk[job.game]] \in {"up_to_date", "validation_failed", "not_downloaded"}
    BY <2>1 DEF DataOK, StatusOf
  <2>3. DataOK'
    BY <1>6, <2>1, <2>2 DEF Measure, DataOK
  <2> QED
    BY <1>6, <2>3, NoJobOK, KnownGrows DEF Measure
<1> QED
  BY <1>1, <1>2, <1>3, <1>4, <1>5, <1>6 DEF Download

\* What others do beside the worker.
LEMMA OthersTyped ==
    ASSUME LInv, \/ UNCHANGED lvars \/ SubmitEnqueues \/ Restart
                 \/ \E j \in Jobs : j.kind # "prefill" /\ Enqueue(j)
                 \/ \E g \in Games : SchedulePrefill(g) \/ Curate(g) \/ TriggerPrefill(g) \/ Evict(g)
    PROVE  LInv'
<1> USE LibraryAssumption DEF LInv
<1>1. CASE UNCHANGED lvars
  BY <1>1 DEF lvars, RunningOK, QueueOK, DataOK, JobOK
<1>2. CASE Restart
  BY <1>2, NoJobOK, KnownGrows DEF Restart, DataOK
<1>3. ASSUME NEW j, JobOK(j), queue' \in {queue, Enqueued(j)},
             UNCHANGED <<known, status, measured, block, excl, disk, job>>, ops' \in 0..MaxOps
      PROVE  LInv'
  <2>1. QueueOK'
    BY <1>3, KnownGrows, EnqueuedOK
  <2> QED
    BY <1>3, <2>1 DEF RunningOK, DataOK, JobOK
<1>4. CASE SubmitEnqueues
  <2>1. JobOK(Job("library_sync", NoGame))
    BY DEF JobOK, Jobs, Job
  <2> QED
    BY <1>3, <1>4, <2>1 DEF SubmitEnqueues, DataOK
<1>5. ASSUME NEW j \in Jobs, j.kind # "prefill", Enqueue(j)
      PROVE  LInv'
  BY <1>3, <1>5 DEF Enqueue, JobOK, DataOK
<1>6. ASSUME NEW g \in Games, SchedulePrefill(g) \/ TriggerPrefill(g)
      PROVE  LInv'
  <2>1. JobOK(Job("prefill", g))
    BY <1>6 DEF SchedulePrefill, TriggerPrefill, Due, JobOK, Jobs, Job
  <2>2. ops' \in 0..MaxOps
    BY <1>6 DEF SchedulePrefill, TriggerPrefill, Meddle, DataOK
  <2> QED
    BY <1>3, <1>6, <2>1, <2>2 DEF SchedulePrefill, TriggerPrefill
<1>7. ASSUME NEW g \in Games, Curate(g)
      PROVE  LInv'
  <2>1. block' \subseteq Games /\ excl' \subseteq Games /\ ops' \in 0..MaxOps
    BY <1>7 DEF Curate, CreateBlock, DeleteBlock, Exclude, Allow, Meddle, DataOK
  <2> QED
    BY <1>7, <2>1 DEF Curate, RunningOK, QueueOK, DataOK, JobOK
<1>8. ASSUME NEW g \in Games, Evict(g)
      PROVE  LInv'
  <2>1. disk' \in [Games -> {"cached", "partial", "missing"}] /\ ops' \in 0..MaxOps
    BY <1>8 DEF Evict, Meddle, DataOK
  <2> QED
    BY <1>8, <2>1 DEF Evict, RunningOK, QueueOK, DataOK, JobOK
<1> QED
  BY <1>1, <1>2, <1>4, <1>5, <1>6, <1>7, <1>8

\* Every variable of the library and of its session keeps to its type; in
\* particular a queued or running prefill or validate is of a game in the table.
THEOREM LibraryTypeCorrect == Spec => []TypeOK
<1>1. Init => LInv
  <2> SUFFICES ASSUME Init PROVE LInv
    OBVIOUS
  <2>1. RunningOK
    BY DEF Init, RunningOK, NoJob, JobPcs
  <2> QED
    BY <2>1, LibraryAssumption DEF Init, LInv, QueueOK, DataOK
<1>2. LInv /\ [Next]_vars => LInv'
  BY ClaimTyped, WorkTyped, OthersTyped DEF Next, Session, Work, vars
<1>3. SInv /\ LInv => TypeOK
  <2> SUFFICES ASSUME SInv, LInv PROVE TypeOK
    OBVIOUS
  <2>1. DOMAIN StatusOf = {"cached", "partial", "missing"}
    BY DEF StatusOf
  <2> QED
    BY <2>1 DEF SInv, LInv, RunningOK, QueueOK, DataOK, JobOK, JobPcs, TypeOK
<1> QED
  BY <1>1, <1>2, <1>3, SessionInductive, PTL DEF Spec

-----------------------------------------------------------------------------
(* Nothing on the disk is taken for missing for good.                      *)

\* The games whose validate is on its way: queued, running, or about to be
\* enqueued by the prefill that brought them.
Awaited ==
    {g \in Games : \/ \E i \in DOMAIN queue : queue[i] = Job("validate", g)
                   \/ job.kind = "validate" /\ job.game = g
                   \/ job.kind = "prefill" /\ job.game = g /\ job.pc = "enqueue"}

\* Unless something failed, a game that is wholly on the disk is known to be
\* there, or its validate is on its way.
Rechecked ==
    \/ faults > 0
    \/ \A g \in Games : disk[g] = "cached" => status[g] = "up_to_date" \/ g \in Awaited

\* A validate has no other step than its measurement.
ValidateMeasures == job.kind = "validate" => job.pc = "measure"

RInv == Rechecked /\ ValidateMeasures

\* What a fault or a restart leaves, nothing is said of.
LEMMA FaultRechecked ==
    ASSUME SInv, Fault, job' \in {job, NoJob}, ValidateMeasures
    PROVE  RInv'
<1>1. faults' > 0
  BY DEF SInv, SessionTypeOK, Fault
<1> QED
  BY <1>1 DEF RInv, Rechecked, ValidateMeasures, NoJob

\* No more is on the disk, and every validate that was on its way still is.
LEMMA KeepsRechecked ==
    ASSUME RInv, Awaited \subseteq Awaited', faults' = faults, status' = status,
           \A g \in Games : disk'[g] = "cached" => disk[g] = "cached",
           ValidateMeasures'
    PROVE  RInv'
BY DEF RInv, Rechecked

\* The queue only grows, and the job that runs stays.
LEMMA GrowsRechecked ==
    ASSUME RInv, faults' = faults, status' = status, job' = job,
           \A g \in Games : disk'[g] = "cached" => disk[g] = "cached",
           \A i \in DOMAIN queue : i \in DOMAIN queue' /\ queue'[i] = queue[i]
    PROVE  RInv'
<1>1. Awaited \subseteq Awaited'
  BY DEF Awaited
<1> QED
  BY <1>1, KeepsRechecked DEF RInv, ValidateMeasures

\* The same queue, and a job that ends or goes on, none that anybody waits for.
LEMMA EndsRechecked ==
    ASSUME RInv, faults' = faults, status' = status, queue' = queue, disk' = disk,
           job.kind # "validate", job.pc # "enqueue", job'.kind # "validate"
    PROVE  RInv'
<1>1. Awaited \subseteq Awaited'
  BY DEF Awaited
<1> QED
  BY <1>1, KeepsRechecked DEF ValidateMeasures

\* Enqueueing keeps what is queued, and what it is asked for is queued or runs.
LEMMA EnqueuedGrows ==
    ASSUME QueueOK, NEW j, j \in Jobs, queue' = Enqueued(j)
    PROVE  /\ \A i \in DOMAIN queue : i \in DOMAIN queue' /\ queue'[i] = queue[i]
           /\ Job(job.kind, job.game) # j => \E i \in DOMAIN queue' : queue'[i] = j
<1>1. CASE InFlight(j)
  BY <1>1 DEF Enqueued, InFlight
<1>2. CASE ~InFlight(j)
  <2>1. queue' = Append(queue, j) /\ queue \in Seq(Jobs)
    BY <1>2 DEF Enqueued, QueueOK
  <2>2. Len(queue) + 1 \in DOMAIN queue' /\ queue'[Len(queue) + 1] = j
    BY <2>1
  <2> QED
    BY <2>1, <2>2
<1> QED
  BY <1>1, <1>2

\* A job that anybody asks for.
LEMMA AskedRechecked ==
    ASSUME LInv, RInv, NEW j, j \in Jobs, queue' \in {queue, Enqueued(j)},
           faults' = faults, status' = status, job' = job, disk' = disk
    PROVE  RInv'
<1>1. \A i \in DOMAIN queue : i \in DOMAIN queue' /\ queue'[i] = queue[i]
  BY EnqueuedGrows DEF LInv
<1> QED
  BY <1>1, GrowsRechecked

\* A validate that is claimed is measured next; the others stay in the queue.
LEMMA ClaimRechecked ==
    ASSUME LInv, RInv, Claim
    PROVE  RInv'
<1>1. /\ queue # <<>> /\ queue \in Seq(Jobs) /\ queue' = Tail(queue) /\ job = NoJob
      /\ JobOK(queue[1])
      /\ UNCHANGED <<status, disk, faults>>
  BY DEF Claim, LInv, QueueOK
<1>2. /\ job'.kind = queue[1].kind /\ job'.game = queue[1].game
      /\ job'.pc = IF queue[1].kind = "validate" THEN "measure" ELSE "epic"
  BY <1>1 DEF Claim
<1>3. \A i \in DOMAIN queue : i = 1 \/ (i - 1 \in DOMAIN queue' /\ queue'[i - 1] = queue[i])
  BY <1>1
<1>4. Awaited \subseteq Awaited'
  <2> SUFFICES ASSUME NEW g \in Awaited PROVE g \in Awaited'
    OBVIOUS
  <2>1. g \in Games /\ \E i \in DOMAIN queue : queue[i] = Job("validate", g)
    BY <1>1 DEF Awaited, NoJob
  <2>2. PICK i \in DOMAIN queue : queue[i] = Job("validate", g)
    BY <2>1
  <2>3. CASE i = 1
    BY <1>2, <2>1, <2>2, <2>3 DEF Awaited, Job
  <2>4. CASE i # 1
    BY <1>3, <2>1, <2>2, <2>4 DEF Awaited
  <2> QED
    BY <2>3, <2>4
<1> QED
  BY <1>1, <1>2, <1>4, KeepsRechecked DEF ValidateMeasures

\* The other steps of the worker: who brings a game to the disk enqueues its
\* validate, and who measures it tells what is there.
LEMMA WorkRechecked ==
    ASSUME LInv, SInv, RInv,
           \/ CallEnds \/ Upsert \/ RecordManifest \/ Download
           \/ EnqueueValidate \/ MarkPrefilled \/ Measure \/ PrefillRaises
    PROVE  RInv'
<1>0. /\ ValidateMeasures /\ RunningOK /\ DataOK /\ QueueOK
      /\ job \in [kind : Kinds \cup {"none"}, game : Games \cup {NoGame}, pc : JobPcs]
  BY DEF RInv, LInv, RunningOK
<1>1. CASE CallEnds
  <2>1. job.pc = "epic" /\ job.kind # "validate" /\ UNCHANGED <<queue, status, disk>>
    BY <1>0, <1>1 DEF CallEnds, ValidateMeasures
  <2>2. job'.kind # "validate"
    BY <1>0, <1>1, <2>1 DEF CallEnds, NoJob
  <2>3. CASE Fault
    <3>1. faults' > 0
      BY <2>3 DEF SInv, SessionTypeOK, Fault
    <3> QED
      BY <2>2, <3>1 DEF RInv, Rechecked, ValidateMeasures
  <2>4. CASE faults' = faults
    BY <2>1, <2>2, <2>4, EndsRechecked
  <2> QED
    BY <1>1, <2>3, <2>4 DEF CallEnds
<1>2. CASE Upsert
  BY <1>0, <1>2, FaultRechecked, EndsRechecked DEF Upsert, ValidateMeasures, NoJob
<1>3. CASE PrefillRaises
  BY <1>0, <1>3, FaultRechecked DEF PrefillRaises
<1>4. CASE MarkPrefilled
  BY <1>0, <1>4, EndsRechecked DEF MarkPrefilled, ValidateMeasures, NoJob, evars
<1>5. CASE RecordManifest
  BY <1>0, <1>5, EndsRechecked DEF RecordManifest, Goes, ValidateMeasures, evars
<1>6. CASE Download
  <2>1. CASE Fault /\ job' = NoJob
    BY <1>0, <2>1, FaultRechecked
  <2>2. CASE Goes("enqueue") /\ disk' = [disk EXCEPT ![job.game] = "cached"] /\ UNCHANGED faults
    <3>1. /\ job.pc = "download" /\ job.kind = "prefill" /\ UNCHANGED <<queue, status>>
          /\ job'.kind = "prefill" /\ job'.game = job.game /\ job'.pc = "enqueue"
      BY <1>0, <1>6, <2>2 DEF Download, RunningOK, Goes
    <3>2. \A g \in Games : g # job.game => disk'[g] = disk[g]
      BY <1>0, <2>2 DEF DataOK
    <3>3. Awaited \subseteq Awaited'
      BY <3>1 DEF Awaited
    <3>4. job.game \in Games => job.game \in Awaited'
      BY <3>1 DEF Awaited
    <3>5. Rechecked'
      BY <2>2, <3>1, <3>2, <3>3, <3>4 DEF RInv, Rechecked
    <3> QED
      BY <3>1, <3>5 DEF RInv, ValidateMeasures
  <2> QED
    BY <1>6, <2>1, <2>2 DEF Download
<1>7. CASE EnqueueValidate
  <2>1. /\ job.pc = "enqueue" /\ job.kind = "prefill" /\ UNCHANGED <<status, disk, faults>>
        /\ job'.kind = "prefill" /\ job'.game = job.game /\ job'.pc = "mark"
        /\ queue' = Enqueued(Job("validate", job.game))
    BY <1>0, <1>7 DEF EnqueueValidate, RunningOK, Goes, evars
  <2>2. JobOK(Job(job.kind, job.game)) /\ job.game \in Games
    BY <1>0, <2>1 DEF RunningOK, NoJob, JobOK, Jobs, Job, DataOK
  <2>3. Job("validate", job.game) \in Jobs /\ Job(job.kind, job.game) # Job("validate", job.game)
    BY <2>1, <2>2 DEF Jobs, Job
  <2>4. /\ \A i \in DOMAIN queue : i \in DOMAIN queue' /\ queue'[i] = queue[i]
        /\ \E i \in DOMAIN queue' : queue'[i] = Job("validate", job.game)
    BY <1>0, <2>1, <2>3, EnqueuedGrows
  <2>5. Awaited \subseteq Awaited'
    BY <2>1, <2>2, <2>4 DEF Awaited
  <2> QED
    BY <2>1, <2>5, KeepsRechecked DEF ValidateMeasures
<1>8. CASE Measure
  <2>1. job.pc = "measure" /\ job.kind = "validate" /\ job' = NoJob /\ UNCHANGED <<queue, disk>>
    BY <1>0, <1>8 DEF Measure, RunningOK
  <2>2. CASE Fault
    BY <1>0, <2>1, <2>2, FaultRechecked
  <2>3. CASE status' = [status EXCEPT ![job.game] = StatusOf[disk[job.game]]] /\ UNCHANGED faults
    <3>1. \A g \in Games : g # job.game => status'[g] = status[g]
      BY <1>0, <2>3 DEF DataOK
    <3>2. \A g \in Games : g # job.game /\ g \in Awaited => g \in Awaited'
      BY <2>1 DEF Awaited
    <3>3. job.game \in Games /\ disk[job.game] = "cached" => status'[job.game] = "up_to_date"
      BY <1>0, <2>3 DEF DataOK, StatusOf
    <3>4. Rechecked'
      BY <2>1, <2>3, <3>1, <3>2, <3>3 DEF RInv, Rechecked
    <3> QED
      BY <2>1, <3>4 DEF RInv, ValidateMeasures, NoJob
  <2> QED
    BY <1>8, <2>2, <2>3 DEF Measure
<1> QED
  BY <1>1, <1>2, <1>3, <1>4, <1>5, <1>6, <1>7, <1>8

\* A step of the session moves nothing of the library, and one that fails is
\* a fault; so is a restart.
LEMMA SessionRechecked ==
    ASSUME SInv, RInv, (Session \/ (SessionStep /\ UNCHANGED lvars)) \/ Restart
    PROVE  RInv'
<1>0. ValidateMeasures
  BY DEF RInv
<1>1. CASE Restart
  BY <1>0, <1>1, FaultRechecked DEF Restart, SessionRestarts
<1>2. CASE (SessionStep \/ AccessFades \/ LoginOver \/ SubmitCode \/ SubmitStatus) /\ UNCHANGED lvars
  <2>1. Fault \/ UNCHANGED faults
    BY <1>2, Zenon DEF SessionStep, UsesCached, Asks, Answered, Refused, AnswerLost, Calls,
                       AccessFades, LoginOver, SubmitCode, SubmitStatus
  <2>2. UNCHANGED <<status, disk, queue, job>>
    BY <1>2 DEF lvars
  <2> QED
    BY <1>0, <2>1, <2>2, FaultRechecked, GrowsRechecked
<1> QED
  BY <1>1, <1>2 DEF Session

\* Ticks, endpoints, the operator and the cache's eviction.
LEMMA OthersRechecked ==
    ASSUME SInv, LInv, RInv,
           \/ SubmitEnqueues
           \/ \E j \in Jobs : j.kind # "prefill" /\ Enqueue(j)
           \/ \E g \in Games : SchedulePrefill(g) \/ Curate(g) \/ TriggerPrefill(g) \/ Evict(g)
    PROVE  RInv'
<1>1. CASE SubmitEnqueues
  <2>1. Job("library_sync", NoGame) \in Jobs
    BY DEF Jobs
  <2> QED
    BY <1>1, <2>1, AskedRechecked, FaultRechecked DEF SubmitEnqueues, RInv
<1>2. ASSUME NEW j \in Jobs, Enqueue(j) PROVE RInv'
  BY <1>2, AskedRechecked DEF Enqueue, evars
<1>3. ASSUME NEW g \in Games, SchedulePrefill(g) \/ TriggerPrefill(g) PROVE RInv'
  <2>1. Job("prefill", g) \in Jobs
    BY DEF Jobs, Job
  <2> QED
    BY <1>3, <2>1, AskedRechecked DEF SchedulePrefill, TriggerPrefill, evars
<1>4. ASSUME NEW g \in Games, Curate(g) PROVE RInv'
  BY <1>4, GrowsRechecked DEF Curate, evars
<1>5. ASSUME NEW g \in Games, Evict(g) PROVE RInv'
  <2>1. \A h \in Games : disk'[h] = "cached" => disk[h] = "cached"
    BY <1>5 DEF Evict, LInv, DataOK
  <2> QED
    BY <1>5, <2>1, GrowsRechecked DEF Evict, evars
<1> QED
  BY <1>1, <1>2, <1>3, <1>4, <1>5

\* What ends the downloads (DownloadsEnd): unless something failed, a game that is
\* wholly on the disk and not measured so has its validate on its way, whatever was
\* asked, evicted, blocked or scheduled meanwhile (jobs/handlers/prefill.py,
\* scheduler/jobs.py:145-150).
THEOREM RecheckedCorrect == Spec => []Rechecked
<1>1. Init => LInv /\ RInv
  <2> SUFFICES ASSUME Init PROVE LInv /\ RInv
    OBVIOUS
  <2>1. RunningOK
    BY DEF Init, RunningOK, NoJob, JobPcs
  <2>2. LInv
    BY <2>1, LibraryAssumption DEF Init, LInv, QueueOK, DataOK
  <2>3. RInv
    BY DEF Init, RInv, Rechecked, ValidateMeasures, NoJob
  <2> QED
    BY <2>2, <2>3
<1>2. LInv /\ [Next]_vars => LInv'
  BY ClaimTyped, WorkTyped, OthersTyped DEF Next, Session, Work, vars
<1>3. SInv /\ LInv /\ RInv /\ [Next]_vars => RInv'
  <2> SUFFICES ASSUME SInv, LInv, RInv, [Next]_vars PROVE RInv'
    OBVIOUS
  <2>1. CASE UNCHANGED vars
    BY <2>1, GrowsRechecked DEF vars, evars, lvars
  <2>2. CASE Work
    BY <2>2, SessionRechecked, ClaimRechecked, WorkRechecked DEF Work
  <2> QED
    BY <2>1, <2>2, SessionRechecked, WorkRechecked, OthersRechecked DEF Next
<1>4. RInv => Rechecked
  BY DEF RInv
<1> QED
  BY <1>1, <1>2, <1>3, <1>4, SessionInductive, PTL DEF Spec

-----------------------------------------------------------------------------
(* The chunks.                                                             *)

\* Records with the fields of pull and of lookup.
IsPull(p) == p = [pc |-> p.pc, host |-> p.host, base |-> p.base, wait |-> p.wait,
                  tries |-> p.tries, ok |-> p.ok, failed |-> p.failed, lost |-> p.lost]

IsLookup(l) == l = [pc |-> l.pc, base |-> l.base, left |-> l.left, hit |-> l.hit,
                    miss |-> l.miss, sure |-> l.sure]

Found(base, c) == Candidates(base, c) \cap files # {}

\* The row the last prefill stored.
LastRow(f) == rows[f].at = pulls + 1

\* From the first prefill on, the row it stored is the only newest one.
RowsInv ==
    /\ pulls \in Nat
    /\ DOMAIN rows = Formats
    /\ \A f \in Formats : rows[f].at \in Nat /\ rows[f].at <= pulls + 1
    /\ pulls > 0 =>
         /\ \E f \in Formats : LastRow(f)
         /\ \A f, g \in Formats : LastRow(f) /\ LastRow(g) => f = g

\* A pull is of the newest row; what it has fetched is there unless lost.
PullInv ==
    /\ IsPull(pull)
    /\ pull.pc \in {"idle", "pull"}
    /\ pull.pc = "idle" => Busy = {}
    /\ pull.pc = "pull" =>
         /\ pulls > 0
         /\ \E h \in Hosts : pull.host = {h}
         /\ \A f \in Formats : LastRow(f) =>
              rows[f].base = pull.base
              /\ rows[f].chunks \subseteq pull.wait \cup Busy \cup pull.ok \cup pull.failed
         /\ ~pull.lost => \A c \in pull.ok : Found(pull.base, c)

\* After a clean prefill the newest row's chunks are there.
SoundInv ==
    sound => /\ pull.pc = "idle" /\ pulls > 0
             /\ \A f \in Formats : LastRow(f) =>
                  \A c \in rows[f].chunks : Found(rows[f].base, c)

\* A sure validate has missed nothing and will miss nothing.
LookupInv ==
    /\ IsLookup(lookup)
    /\ lookup.sure => lookup.miss = {}
    /\ lookup.sure /\ lookup.pc = "validate" => \A c \in lookup.left : Found(lookup.base, c)

ChunksInv == RowsInv /\ PullInv /\ SoundInv /\ LookupInv

LEMMA ChunksInit == EpicInit => ChunksInv
<1> SUFFICES ASSUME EpicInit PROVE ChunksInv
  OBVIOUS
<1>1. RowsInv
  BY DEF EpicInit, RowsInv, NoManifest
<1>2. IsPull(NoPull) /\ NoPull.pc = "idle" /\ DOMAIN NoPull.tries = {}
  BY DEF IsPull, NoPull
<1>3. IsLookup(NoLookup) /\ ~NoLookup.sure /\ NoLookup.miss = {}
  BY DEF IsLookup, NoLookup
<1>4. PullInv
  BY <1>2 DEF EpicInit, PullInv, Busy
<1> QED
  BY <1>1, <1>3, <1>4 DEF EpicInit, ChunksInv, SoundInv, LookupInv

\* What is found stays found while files only grow.
LEMMA FoundGrows ==
    ASSUME files \subseteq files'
    PROVE  \A base, c : Found(base, c) => Found(base, c)'
BY DEF Found, Candidates

\* What was just cached is found.
LEMMA CachedIsFound ==
    ASSUME NEW h \in Hosts, NEW base, NEW c, CachedAs(h, base, c) \in files'
    PROVE  Found(base, c)'
<1>1. Identifier[h] \in Known
  BY EpicAssumption
<1>2. CachedAs(h, base, c) \in Candidates(base, c)
  BY <1>1 DEF CachedAs, Candidates
<1> QED
  BY <1>2 DEF Found, Candidates

\* The row a lookup takes is the newest.
LEMMA LatestIsLast ==
    ASSUME RowsInv, pulls > 0
    PROVE  \E f \in Formats : LastRow(f) /\ LatestRow = rows[f]
<1> DEFINE Top(f) == f \in Stored /\ \A g \in Stored : rows[f].at >= rows[g].at
<1> DEFINE f0 == CHOOSE f : Top(f)
<1>1. PICK f \in Formats : LastRow(f)
  BY DEF RowsInv
<1>2. Top(f)
  BY <1>1 DEF RowsInv, LastRow, Stored
<1>3. Top(f0)
  BY <1>2, Zenon
<1>4. f0 \in Formats /\ LastRow(f0)
  BY <1>1, <1>2, <1>3 DEF RowsInv, LastRow, Stored
<1>5. LatestRow = rows[f0]
  <2>1. (CHOOSE f1 \in Stored : \A g \in Stored : rows[f1].at >= rows[g].at) = f0
    OBVIOUS
  <2> QED
    BY <2>1 DEF LatestRow
<1> QED
  BY <1>4, <1>5

\* A prefill begins: its row is later than all others.
LEMMA FetchInv ==
    ASSUME ChunksInv, NEW offer \in Offers, NEW h \in Hosts, EpicFetches(offer, h)
    PROVE  ChunksInv'
<1> DEFINE row == [base |-> offer.base, chunks |-> offer.chunks, at |-> pulls + 2]
<1>1. pulls \in Nat /\ pulls' = pulls + 1 /\ offer.format \in Formats
  BY DEF EpicFetches, ChunksInv, RowsInv, Formats
<1>2. /\ DOMAIN rows' = Formats
      /\ \A f \in Formats : rows'[f] = IF f = offer.format THEN row ELSE rows[f]
  BY DEF EpicFetches, ChunksInv, RowsInv
<1>3. \A f \in Formats : LastRow(f)' <=> f = offer.format
  BY <1>1, <1>2 DEF LastRow, ChunksInv, RowsInv
<1>4. RowsInv'
  BY <1>1, <1>2, <1>3 DEF ChunksInv, RowsInv
<1>5. /\ IsPull(pull') /\ pull'.pc = "pull" /\ pull'.host = {h} /\ pull'.base = offer.base
      /\ pull'.wait = offer.chunks /\ pull'.ok = {}
  BY DEF EpicFetches, NoPull, IsPull
<1>6. PullInv'
  BY <1>1, <1>2, <1>3, <1>5 DEF PullInv
<1>7. SoundInv'
  BY DEF EpicFetches, SoundInv
<1>8. LookupInv'
  BY FoundGrows DEF EpicFetches, LookupInv, ChunksInv
<1> QED
  BY <1>4, <1>6, <1>7, <1>8 DEF ChunksInv

\* The pull goes on: the chunks stay accounted for, the files only grow.
LEMMA PullGoesOn ==
    ASSUME ChunksInv, UNCHANGED <<rows, lookup, pulls, sound>>, files \subseteq files',
           IsPull(pull'), pull.pc = "pull", pull'.pc = "pull",
           pull'.host = pull.host, pull'.base = pull.base, pull'.lost = pull.lost,
           pull.wait \cup Busy \cup pull.ok \cup pull.failed
             \subseteq pull'.wait \cup Busy' \cup pull'.ok \cup pull'.failed,
           \A c \in pull'.ok \ pull.ok : Found(pull.base, c)'
    PROVE  ChunksInv'
<1>1. \A f \in Formats : LastRow(f)' <=> LastRow(f)
  BY DEF LastRow
<1>2. RowsInv'
  BY <1>1 DEF ChunksInv, RowsInv
<1>3. PullInv'
  BY <1>1, FoundGrows DEF ChunksInv, PullInv
<1>4. SoundInv'
  BY DEF ChunksInv, SoundInv
<1>5. LookupInv'
  BY FoundGrows DEF ChunksInv, LookupInv
<1> QED
  BY <1>2, <1>3, <1>4, <1>5 DEF ChunksInv

LEMMA RecordedFacts ==
    ASSUME IsPull(pull), NEW c, NEW ok \in BOOLEAN, pull' = Recorded(c, ok)
    PROVE  /\ IsPull(pull') /\ pull'.pc = pull.pc /\ pull'.host = pull.host
           /\ pull'.base = pull.base /\ pull'.lost = pull.lost /\ pull'.wait = pull.wait
           /\ Busy' = Busy \ {c}
           /\ pull'.ok = pull.ok \cup {d \in {c} : ok}
           /\ pull'.failed = pull.failed \cup {d \in {c} : ~ok}
BY DEF IsPull, Recorded, Busy

\* A chunk that failed for good.
LEMMA FailedInv ==
    ASSUME ChunksInv, NEW c \in Busy, pull' = Recorded(c, FALSE),
           UNCHANGED <<rows, files, lookup, sound, pulls>>
    PROVE  ChunksInv'
<1>1. IsPull(pull) /\ pull.pc = "pull"
  BY DEF ChunksInv, PullInv
<1>2. /\ IsPull(pull') /\ pull'.pc = pull.pc /\ pull'.host = pull.host
      /\ pull'.base = pull.base /\ pull'.lost = pull.lost /\ pull'.wait = pull.wait
      /\ Busy' = Busy \ {c}
      /\ pull'.ok = pull.ok \cup {d \in {c} : FALSE}
      /\ pull'.failed = pull.failed \cup {d \in {c} : ~FALSE}
  <2>1. FALSE \in BOOLEAN
    OBVIOUS
  <2> QED
    BY <1>1, <2>1, RecordedFacts
<1>3. pull'.ok = pull.ok /\ pull'.failed = pull.failed \cup {c}
  BY <1>2
<1> QED
  BY <1>1, <1>2, <1>3, PullGoesOn

\* A chunk begins, arrives, is refused or is tried again.
LEMMA ChunkInv ==
    ASSUME ChunksInv, NEW c, ChunkStarts(c) \/ ChunkArrives(c) \/ ChunkRefused(c) \/ ChunkBreaks(c)
    PROVE  ChunksInv'
<1>1. IsPull(pull) /\ (Busy # {} => pull.pc = "pull")
  BY DEF ChunksInv, PullInv
<1>2. CASE ChunkStarts(c)
  <2>1. /\ IsPull(pull') /\ pull'.pc = pull.pc /\ pull'.host = pull.host
        /\ pull'.base = pull.base /\ pull'.lost = pull.lost /\ pull'.wait = pull.wait \ {c}
        /\ Busy' = Busy \cup {c} /\ pull'.ok = pull.ok /\ pull'.failed = pull.failed
    BY <1>1, <1>2 DEF ChunkStarts, IsPull, Busy
  <2> QED
    BY <1>2, <2>1, PullGoesOn DEF ChunkStarts
<1>3. CASE ChunkArrives(c)
  <2>1. PICK h \in Hosts : pull.host = {h}
    BY <1>1, <1>3 DEF ChunkArrives, ChunksInv, PullInv
  <2>2. Found(pull.base, c)'
    <3>1. CachedAs(h, pull.base, c) \in files'
      BY <1>3, <2>1 DEF ChunkArrives
    <3>2. PICK base : base = pull.base
      OBVIOUS
    <3>3. Found(base, c)'
      BY <3>1, <3>2, CachedIsFound
    <3>4. pull'.base = base
      BY <1>1, <1>3, <3>2, RecordedFacts DEF ChunkArrives
    <3> QED
      BY <3>3, <3>4 DEF Found, Candidates
  <2>3. /\ IsPull(pull') /\ pull'.pc = pull.pc /\ pull'.host = pull.host
        /\ pull'.base = pull.base /\ pull'.lost = pull.lost /\ pull'.wait = pull.wait
        /\ Busy' = Busy \ {c}
        /\ pull'.ok = pull.ok \cup {d \in {c} : TRUE}
        /\ pull'.failed = pull.failed \cup {d \in {c} : ~TRUE}
    <3>1. TRUE \in BOOLEAN /\ pull' = Recorded(c, TRUE)
      BY <1>3 DEF ChunkArrives
    <3> QED
      BY <1>1, <3>1, RecordedFacts
  <2>4. pull'.ok = pull.ok \cup {c} /\ pull'.failed = pull.failed
    BY <2>3
  <2>5. /\ c \in Busy /\ pull.pc = "pull" /\ files \subseteq files'
        /\ UNCHANGED <<rows, lookup, sound, pulls>>
    BY <1>1, <1>3 DEF ChunkArrives
  <2> QED
    BY <2>2, <2>3, <2>4, <2>5, PullGoesOn
<1>4. CASE ChunkRefused(c)
  BY <1>4, FailedInv DEF ChunkRefused
<1>5. CASE ChunkBreaks(c)
  <2>1. CASE pull' = Recorded(c, FALSE)
    <3>1. c \in Busy /\ UNCHANGED <<rows, files, lookup, sound, pulls>>
      BY <1>5 DEF ChunkBreaks
    <3> QED
      BY <2>1, <3>1, FailedInv
  <2>2. CASE pull' = [pull EXCEPT !.tries[c] = @ + 1]
    <3>1. /\ IsPull(pull') /\ pull'.pc = pull.pc /\ pull'.host = pull.host
          /\ pull'.base = pull.base /\ pull'.lost = pull.lost /\ pull'.wait = pull.wait
          /\ Busy' = Busy /\ pull'.ok = pull.ok /\ pull'.failed = pull.failed
      BY <1>1, <2>2 DEF IsPull, Busy
    <3>2. /\ pull.pc = "pull" /\ UNCHANGED <<rows, files, lookup, sound, pulls>>
      BY <1>1, <1>5 DEF ChunkBreaks
    <3> QED
      BY <3>1, <3>2, PullGoesOn
  <2> QED
    BY <1>5, <2>1, <2>2 DEF ChunkBreaks
<1> QED
  BY <1>2, <1>3, <1>4, <1>5

\* The pull ends: with a clean tally every chunk of the row was fetched.
LEMMA PullEndInv ==
    ASSUME ChunksInv, PullEnds \/ PullLost
    PROVE  ChunksInv'
<1>1. UNCHANGED <<rows, lookup, pulls>> /\ files \subseteq files' /\ pull.pc = "pull"
  BY DEF PullEnds, PullLost
<1>2. RowsInv' /\ \A f \in Formats : LastRow(f)' <=> LastRow(f)
  BY <1>1 DEF ChunksInv, RowsInv, LastRow
<1>3. IsPull(pull') /\ pull'.pc = "idle" /\ Busy' = {}
  BY DEF PullEnds, PullLost, NoPull, IsPull, Busy
<1>4. PullInv'
  BY <1>3 DEF PullInv
<1>5. LookupInv'
  BY <1>1, FoundGrows DEF ChunksInv, LookupInv
<1>6. SoundInv'
  <2>1. CASE PullLost
    BY <2>1, <1>1 DEF PullLost, ChunksInv, SoundInv
  <2>2. CASE PullEnds
    <3>1. sound' => pull.failed = {} /\ ~pull.lost /\ pull.wait = {} /\ Busy = {}
      BY <2>2 DEF PullEnds
    <3>2. ASSUME sound', NEW f \in Formats, LastRow(f), NEW c \in rows[f].chunks
          PROVE  Found(rows[f].base, c)
      BY <1>1, <3>1, <3>2 DEF ChunksInv, PullInv
    <3>3. files' = files
      BY <2>2 DEF PullEnds
    <3> QED
      BY <1>1, <1>2, <1>3, <3>2, <3>3 DEF SoundInv, Found, Candidates, ChunksInv, PullInv
  <2> QED
    BY <2>1, <2>2
<1> QED
  BY <1>2, <1>4, <1>5, <1>6 DEF ChunksInv

\* A lookup begins with the newest row, goes through its chunks and ends.
LEMMA LookupStepInv ==
    ASSUME ChunksInv,
           \/ \E purpose \in {"validate", "purge"} : LookupBegins(purpose)
           \/ \E c \in EpicChunkIds : EpicStats(c)
           \/ EpicAnswers \/ EpicPurged
    PROVE  ChunksInv'
<1>1. UNCHANGED <<rows, files, pull, sound, pulls>>
  BY DEF LookupBegins, EpicStats, EpicAnswers, EpicPurged
<1>2. RowsInv' /\ PullInv' /\ SoundInv'
  BY <1>1 DEF ChunksInv, RowsInv, PullInv, SoundInv, LastRow, Found, Candidates, Busy
<1>3. \A base, c : Found(base, c)' <=> Found(base, c)
  BY <1>1 DEF Found, Candidates
<1>4. LookupInv'
  <2>1. ASSUME NEW purpose \in {"validate", "purge"}, LookupBegins(purpose) PROVE LookupInv'
    <3>1. CASE lookup' = lookup
      BY <1>3, <3>1 DEF ChunksInv, LookupInv
    <3>2. CASE lookup' = [NoLookup EXCEPT !.pc = purpose, !.base = LatestRow.base,
                            !.left = LatestRow.chunks, !.sure = sound]
      <4>1. /\ IsLookup(lookup') /\ lookup'.miss = {} /\ lookup'.sure = sound
            /\ lookup'.base = LatestRow.base /\ lookup'.left = LatestRow.chunks
        BY <3>2 DEF NoLookup, IsLookup
      <4>2. sound => \A c \in LatestRow.chunks : Found(LatestRow.base, c)
        BY LatestIsLast DEF ChunksInv, SoundInv
      <4> QED
        BY <1>3, <4>1, <4>2 DEF LookupInv
    <3> QED
      BY <2>1, <3>1, <3>2 DEF LookupBegins
  <2>2. ASSUME NEW c \in EpicChunkIds, EpicStats(c) PROVE LookupInv'
    <3>1. IsLookup(lookup)
      BY DEF ChunksInv, LookupInv
    <3>2. CASE Found(lookup.base, c)
      <4>1. /\ IsLookup(lookup') /\ lookup'.miss = lookup.miss /\ lookup'.sure = lookup.sure
            /\ lookup'.base = lookup.base /\ lookup'.left = lookup.left \ {c}
            /\ lookup'.pc = lookup.pc
        BY <2>2, <3>1, <3>2 DEF EpicStats, Found, IsLookup
      <4> QED
        BY <1>3, <4>1 DEF ChunksInv, LookupInv
    <3>3. CASE ~Found(lookup.base, c)
      <4>1. ~lookup.sure
        BY <2>2, <3>3 DEF EpicStats, ChunksInv, LookupInv
      <4>2. IsLookup(lookup') /\ lookup'.sure = lookup.sure
        BY <2>2, <3>1, <3>3 DEF EpicStats, Found, IsLookup
      <4> QED
        BY <4>1, <4>2 DEF LookupInv
    <3> QED
      BY <3>2, <3>3
  <2>3. CASE EpicAnswers \/ EpicPurged
    BY <2>3 DEF EpicAnswers, EpicPurged, NoLookup, LookupInv, IsLookup
  <2> QED
    BY <2>1, <2>2, <2>3
<1> QED
  BY <1>2, <1>4 DEF ChunksInv

\* What takes files away says so: nothing is sound, sure or unlost after it.
LEMMA LossInv ==
    ASSUME ChunksInv,
           \/ \E c \in EpicChunkIds : EpicUnlinks(c)
           \/ \E f \in files : EpicEvicts(f)
    PROVE  ChunksInv'
<1>1. UNCHANGED <<rows, pulls>> /\ ~sound'
      /\ pull' = [pull EXCEPT !.lost = pull.pc = "pull"]
  BY DEF EpicUnlinks, EpicEvicts
<1>2. RowsInv' /\ SoundInv' /\ \A f \in Formats : LastRow(f)' <=> LastRow(f)
  BY <1>1 DEF ChunksInv, RowsInv, SoundInv, LastRow
<1>3. /\ IsPull(pull') /\ pull'.pc = pull.pc /\ pull'.host = pull.host
      /\ pull'.base = pull.base /\ pull'.wait = pull.wait /\ pull'.tries = pull.tries
      /\ pull'.ok = pull.ok /\ pull'.failed = pull.failed
  BY <1>1 DEF ChunksInv, PullInv, IsPull
<1>4. pull.pc = "pull" => pull'.lost
  BY <1>1 DEF ChunksInv, PullInv, IsPull
<1>5. PullInv'
  BY <1>1, <1>2, <1>3, <1>4 DEF ChunksInv, PullInv, Busy
<1>6. LookupInv'
  <2>1. ASSUME NEW c \in EpicChunkIds, EpicUnlinks(c) PROVE LookupInv'
    <3>1. /\ IsLookup(lookup') /\ lookup'.pc = "purge" /\ lookup'.miss = lookup.miss
          /\ lookup'.sure = lookup.sure
      BY <2>1 DEF EpicUnlinks, ChunksInv, LookupInv, IsLookup
    <3> QED
      BY <3>1 DEF ChunksInv, LookupInv
  <2>2. ASSUME NEW f \in files, EpicEvicts(f) PROVE LookupInv'
    <3>1. IsLookup(lookup') /\ ~lookup'.sure
      BY <2>2 DEF EpicEvicts, ChunksInv, LookupInv, IsLookup
    <3> QED
      BY <3>1 DEF LookupInv
  <2> QED
    BY <2>1, <2>2
<1> QED
  BY <1>2, <1>5, <1>6 DEF ChunksInv

LEMMA ChunksInductive == EpicSpec => []ChunksInv
<1>1. ChunksInv /\ [EpicNext]_epicVars => ChunksInv'
  <2> SUFFICES ASSUME ChunksInv, [EpicNext]_epicVars PROVE ChunksInv'
    OBVIOUS
  <2>1. ASSUME NEW offer \in Offers, NEW h \in Hosts, EpicFetches(offer, h) PROVE ChunksInv'
    BY <2>1, FetchInv
  <2>2. ASSUME NEW c \in EpicChunkIds,
               ChunkStarts(c) \/ ChunkArrives(c) \/ ChunkRefused(c) \/ ChunkBreaks(c)
        PROVE  ChunksInv'
    BY <2>2, ChunkInv
  <2>3. CASE PullEnds \/ PullLost
    BY <2>3, PullEndInv
  <2>4. CASE \/ \E purpose \in {"validate", "purge"} : LookupBegins(purpose)
             \/ \E c \in EpicChunkIds : EpicStats(c)
             \/ EpicAnswers \/ EpicPurged
    BY <2>4, LookupStepInv
  <2>5. CASE (\E c \in EpicChunkIds : EpicUnlinks(c)) \/ (\E f \in files : EpicEvicts(f))
    BY <2>5, LossInv
  <2>6. CASE UNCHANGED epicVars
    BY <2>6 DEF epicVars, ChunksInv, RowsInv, PullInv, SoundInv, LookupInv, LastRow,
                Found, Candidates, Busy
  <2> QED
    BY <2>1, <2>2, <2>3, <2>4, <2>5, <2>6 DEF EpicNext
<1> QED
  BY <1>1, ChunksInit, PTL DEF EpicSpec

\* A validate after a clean prefill finds what was pulled, whatever host served
\* it, for any manifests, hosts, identifiers and bounds (prefill.py:134-186,
\* routers/epic.py:56-91, puller.py:97-115).
THEOREM PulledIsFoundCorrect == EpicSpec => []PulledIsFound
<1>1. ChunksInv => PulledIsFound
  BY DEF ChunksInv, LookupInv, PulledIsFound
<1> QED
  BY <1>1, ChunksInductive, PTL

-----------------------------------------------------------------------------
(* The chunks' types.                                                      *)

RowSet == [base : Bases \cup {NoBase}, chunks : SUBSET EpicChunkIds, at : 0..(MaxPulls + 1)]

LookupSet == [pc : {"idle", "validate", "purge"}, base : Bases \cup {NoBase},
              left : SUBSET EpicChunkIds, hit : SUBSET EpicChunkIds,
              miss : SUBSET EpicChunkIds, sure : BOOLEAN]

StoreOK ==
    /\ rows \in [Formats -> RowSet]
    /\ files \subseteq {<<i, b, c>> : i \in Known, b \in Bases, c \in EpicChunkIds}

\* The semaphore admits no more than its slots.
PullOK ==
    /\ pull.pc = "pull" => pull.base \in Bases
    /\ pull.host \subseteq Hosts /\ pull.wait \subseteq EpicChunkIds /\ Busy \subseteq EpicChunkIds
    /\ IsFiniteSet(Busy) /\ Cardinality(Busy) <= Slots
    /\ \A c \in Busy : pull.tries[c] \in Nat /\ pull.tries[c] < Attempts

RestOK ==
    /\ lookup \in LookupSet
    /\ told \in {"none", "cached", "missing", "partial", "error"}
    /\ sound \in BOOLEAN /\ pulls \in 0..MaxPulls /\ mishaps \in 0..MaxMishaps

ChunksTyped == StoreOK /\ PullOK /\ RestOK

LEMMA OfferFacts ==
    ASSUME NEW o \in Offers
    PROVE  o.format \in Formats /\ o.base \in Bases /\ o.chunks \subseteq EpicChunkIds
BY DEF Formats, Bases, EpicChunkIds

LEMMA IdleOK ==
    ASSUME pull' = NoPull
    PROVE  PullOK'
<1>1. Busy' = {} /\ pull'.pc = "idle" /\ pull'.host = {} /\ pull'.wait = {}
  BY DEF Busy, NoPull
<1> QED
  BY <1>1, FS_EmptySet, EpicAssumption DEF PullOK

\* A prefill begins, or a chunk takes a slot, goes on or leaves it.
LEMMA PullTyped ==
    ASSUME ChunksInv, ChunksTyped,
           \/ \E offer \in Offers, h \in Hosts : EpicFetches(offer, h)
           \/ \E c \in EpicChunkIds : ChunkStarts(c) \/ ChunkArrives(c) \/ ChunkRefused(c)
                                      \/ ChunkBreaks(c)
           \/ PullEnds \/ PullLost
    PROVE  ChunksTyped'
<1> USE DEF ChunksTyped
<1>n. /\ MaxPulls \in Nat /\ MaxMishaps \in Nat /\ Slots \in Nat /\ Attempts \in Nat
      /\ Attempts > 0 /\ Identifier \in [Hosts -> Known]
  BY EpicAssumption
<1>0. /\ IsPull(pull) /\ \A c \in Busy : pull.pc = "pull"
      /\ \A h \in pull.host, c \in EpicChunkIds :
           pull.pc = "pull" => CachedAs(h, pull.base, c)
                                 \in {<<i, b, d>> : i \in Known, b \in Bases, d \in EpicChunkIds}
  BY <1>n DEF ChunksInv, PullInv, PullOK, CachedAs
<1>1. ASSUME NEW offer \in Offers, NEW h \in Hosts, EpicFetches(offer, h)
      PROVE  ChunksTyped'
  <2>1. [base |-> offer.base, chunks |-> offer.chunks, at |-> pulls + 2] \in RowSet
    <3>1. pulls \in 0..MaxPulls /\ pulls < MaxPulls
      BY <1>1 DEF EpicFetches, RestOK
    <3>2. pulls + 2 \in 0..(MaxPulls + 1)
      BY <1>n, <3>1
    <3> QED
      BY <3>2, OfferFacts DEF RowSet
  <2>2. StoreOK'
    <3>1. offer.format \in Formats
      BY OfferFacts
    <3>2. /\ rows' = [rows EXCEPT ![offer.format] =
                        [base |-> offer.base, chunks |-> offer.chunks, at |-> pulls + 2]]
          /\ files' = files
      BY <1>1 DEF EpicFetches
    <3>3. rows' \in [Formats -> RowSet]
      BY <2>1, <3>1, <3>2 DEF StoreOK
    <3> QED
      BY <3>2, <3>3 DEF StoreOK
  <2>3. /\ Busy' = {} /\ pull'.host = {h} /\ pull'.base = offer.base
        /\ pull'.wait = offer.chunks
    BY <1>1 DEF EpicFetches, NoPull, Busy
  <2>4. PullOK'
    BY <1>n, <2>3, OfferFacts, FS_EmptySet DEF PullOK
  <2>5. RestOK'
    <3>1. pulls \in 0..MaxPulls /\ pulls < MaxPulls /\ pulls' = pulls + 1
      BY <1>1 DEF EpicFetches, RestOK
    <3>2. pulls' \in 0..MaxPulls
      BY <1>n, <3>1
    <3> QED
      BY <1>1, <3>2 DEF EpicFetches, RestOK
  <2> QED
    BY <2>2, <2>4, <2>5
<1>2. ASSUME NEW c \in EpicChunkIds, ChunkStarts(c)
      PROVE  ChunksTyped'
  <2>1. /\ pull'.pc = pull.pc /\ pull'.base = pull.base /\ pull'.host = pull.host
        /\ pull'.wait = pull.wait \ {c} /\ Busy' = Busy \cup {c}
        /\ \A d \in Busy \cup {c} : pull'.tries[d] = IF d = c THEN 0 ELSE pull.tries[d]
    BY <1>0, <1>2 DEF ChunkStarts, IsPull, Busy
  <2>2. Cardinality(Busy) < Slots /\ Cardinality(Busy) \in Nat
    BY <1>2, FS_CardinalityType DEF ChunkStarts, PullOK
  <2>3. IsFiniteSet(Busy') /\ Cardinality(Busy') <= Slots
    <3>1. /\ IsFiniteSet(Busy \cup {c})
          /\ Cardinality(Busy \cup {c}) = IF c \in Busy THEN Cardinality(Busy) ELSE Cardinality(Busy) + 1
      BY FS_AddElement DEF PullOK
    <3> QED
      BY <1>n, <2>1, <2>2, <3>1
  <2>4. PullOK'
    BY <1>n, <2>1, <2>3 DEF PullOK
  <2> QED
    <3>1. UNCHANGED <<rows, files, lookup, told, sound, pulls, mishaps>>
      BY <1>2 DEF ChunkStarts
    <3> QED
      BY <2>4, <3>1 DEF StoreOK, RestOK
<1>3. ASSUME NEW c \in Busy, NEW ok \in BOOLEAN, pull' = Recorded(c, ok)
      PROVE  PullOK'
  <2>1. /\ pull'.pc = pull.pc /\ pull'.base = pull.base /\ pull'.host = pull.host
        /\ pull'.wait = pull.wait /\ Busy' = Busy \ {c}
        /\ \A d \in Busy \ {c} : pull'.tries[d] = pull.tries[d]
    BY <1>0, <1>3 DEF Recorded, IsPull, Busy
  <2>2. IsFiniteSet(Busy') /\ Cardinality(Busy') <= Cardinality(Busy)
    <3>1. /\ IsFiniteSet(Busy \ {c}) /\ Cardinality(Busy) \in Nat
          /\ Cardinality(Busy \ {c}) = IF c \in Busy THEN Cardinality(Busy) - 1 ELSE Cardinality(Busy)
      BY FS_RemoveElement, FS_CardinalityType DEF PullOK
    <3> QED
      BY <2>1, <3>1
  <2>3. Cardinality(Busy') \in Nat /\ Cardinality(Busy) \in Nat
    BY <2>2, FS_CardinalityType DEF PullOK
  <2> QED
    BY <1>n, <2>1, <2>2, <2>3 DEF PullOK
<1>4. ASSUME NEW c \in EpicChunkIds, ChunkArrives(c)
      PROVE  ChunksTyped'
  <2>1. PullOK'
    BY <1>3, <1>4 DEF ChunkArrives
  <2>2. StoreOK'
    BY <1>0, <1>4 DEF ChunkArrives, StoreOK
  <2> QED
    BY <1>4, <2>1, <2>2 DEF ChunkArrives, RestOK
<1>5. ASSUME NEW c \in EpicChunkIds, ChunkRefused(c)
      PROVE  ChunksTyped'
  <2>1. PullOK'
    BY <1>3, <1>5 DEF ChunkRefused
  <2> QED
    BY <1>n, <1>5, <2>1 DEF ChunkRefused, Mishap, StoreOK, RestOK
<1>6. ASSUME NEW c \in EpicChunkIds, ChunkBreaks(c)
      PROVE  ChunksTyped'
  <2>1. ASSUME pull.tries[c] + 1 < Attempts, pull' = [pull EXCEPT !.tries[c] = @ + 1]
        PROVE  PullOK'
    <3>1. /\ pull'.pc = pull.pc /\ pull'.base = pull.base /\ pull'.host = pull.host
          /\ pull'.wait = pull.wait /\ Busy' = Busy
          /\ \A d \in Busy : pull'.tries[d] = IF d = c THEN pull.tries[c] + 1 ELSE pull.tries[d]
      BY <1>0, <1>6, <2>1 DEF ChunkBreaks, IsPull, Busy
    <3>2. PullOK'
      BY <1>n, <1>6, <2>1, <3>1 DEF ChunkBreaks, PullOK
    <3> QED
      BY <3>2
  <2>2. ASSUME pull' = Recorded(c, FALSE)
        PROVE  PullOK'
    BY <1>3, <1>6, <2>2 DEF ChunkBreaks
  <2>4. StoreOK' /\ RestOK'
    BY <1>n, <1>6 DEF ChunkBreaks, Mishap, StoreOK, RestOK
  <2> QED
    BY <1>6, <2>1, <2>2, <2>4 DEF ChunkBreaks
<1>7. CASE PullEnds
  BY <1>7, IdleOK DEF PullEnds, StoreOK, RestOK
<1>8. CASE PullLost
  <2>1. StoreOK'
    BY <1>0, <1>8 DEF PullLost, StoreOK, PullOK
  <2> QED
    BY <1>n, <1>8, <2>1, IdleOK DEF PullLost, Mishap, RestOK
<1> QED
  BY <1>1, <1>2, <1>4, <1>5, <1>6, <1>7, <1>8

\* A row that a lookup can use was stored by a prefill.
LEMMA UsableRow ==
    ASSUME ChunksInv, ChunksTyped, Usable
    PROVE  LatestRow \in RowSet
<1>1. \E f \in Stored : LatestRow = rows[f]
  <2>1. CASE pulls > 0
    <3>1. PICK f \in Formats : LastRow(f) /\ LatestRow = rows[f]
      BY <2>1, LatestIsLast DEF ChunksInv
    <3>2. f \in Stored
      BY <2>1, <3>1 DEF LastRow, Stored, ChunksInv, RowsInv
    <3> QED
      BY <3>1, <3>2
  <2>2. CASE ~(pulls > 0)
    <3>1. \A f \in Stored : rows[f].at = 1
      BY <2>2 DEF ChunksInv, RowsInv, Stored
    <3>2. \E f \in Stored : \A g \in Stored : rows[f].at >= rows[g].at
      BY <3>1 DEF Usable
    <3> DEFINE f0 == CHOOSE f \in Stored : \A g \in Stored : rows[f].at >= rows[g].at
    <3>3. f0 \in Stored
      BY <3>2
    <3> QED
      BY <3>3 DEF LatestRow
  <2> QED
    BY <2>1, <2>2
<1> QED
  BY <1>1 DEF ChunksTyped, StoreOK, Stored

\* A lookup begins, goes on and ends, or files are lost.
LEMMA LookupTyped ==
    ASSUME ChunksInv, ChunksTyped,
           \/ \E purpose \in {"validate", "purge"} : LookupBegins(purpose)
           \/ \E c \in EpicChunkIds : EpicStats(c) \/ EpicUnlinks(c)
           \/ EpicAnswers \/ EpicPurged
           \/ \E f \in files : EpicEvicts(f)
    PROVE  ChunksTyped'
<1> USE DEF ChunksTyped
<1>n. MaxMishaps \in Nat
  BY EpicAssumption
<1>0. NoLookup \in LookupSet
  BY DEF NoLookup, LookupSet
<1>1. ASSUME UNCHANGED <<rows, files, pull, sound, pulls, mishaps>>, lookup' \in LookupSet,
             told' \in {told, "cached", "missing", "partial", "error"}
      PROVE  ChunksTyped'
  <2>1. StoreOK' /\ PullOK'
    BY <1>1 DEF StoreOK, PullOK, Busy
  <2> QED
    BY <1>1, <2>1 DEF RestOK
<1>2. ASSUME NEW purpose \in {"validate", "purge"}, LookupBegins(purpose)
      PROVE  ChunksTyped'
  <2>1. CASE Usable
    <3>1. lookup' \in LookupSet
      BY <1>2, <2>1, UsableRow DEF LookupBegins, NoLookup, RowSet, LookupSet, RestOK
    <3> QED
      BY <1>1, <1>2, <2>1, <3>1 DEF LookupBegins
  <2>2. CASE ~Usable
    BY <1>1, <1>2, <2>2 DEF LookupBegins, RestOK
  <2> QED
    BY <2>1, <2>2
<1>3. ASSUME NEW c \in EpicChunkIds, EpicStats(c)
      PROVE  ChunksTyped'
  <2>1. lookup' \in LookupSet
    BY <1>3 DEF EpicStats, RestOK, LookupSet
  <2> QED
    BY <1>1, <1>3, <2>1 DEF EpicStats
<1>4. CASE EpicAnswers \/ EpicPurged
  BY <1>0, <1>1, <1>4 DEF EpicAnswers, EpicPurged, EpicClassify
<1>5. ASSUME UNCHANGED <<rows, told, pulls>>, files' \subseteq files,
             pull' = [pull EXCEPT !.lost = pull.pc = "pull"], ~sound', sound' \in BOOLEAN,
             lookup' \in LookupSet, mishaps' \in 0..MaxMishaps
      PROVE  ChunksTyped'
  <2>1. /\ pull'.pc = pull.pc /\ pull'.base = pull.base /\ pull'.host = pull.host
        /\ pull'.wait = pull.wait /\ pull'.tries = pull.tries /\ Busy' = Busy
    BY <1>5 DEF ChunksInv, PullInv, IsPull, Busy
  <2>2. PullOK'
    BY <2>1 DEF PullOK
  <2>3. StoreOK'
    BY <1>5 DEF StoreOK
  <2> QED
    BY <1>5, <2>2, <2>3 DEF RestOK
<1>6. ASSUME NEW c \in EpicChunkIds, EpicUnlinks(c)
      PROVE  ChunksTyped'
  <2>1. lookup' \in LookupSet
    BY <1>6 DEF EpicUnlinks, RestOK, LookupSet
  <2>2. mishaps' \in 0..MaxMishaps
    BY <1>n, <1>6 DEF EpicUnlinks, Mishap, RestOK
  <2> QED
    BY <1>5, <1>6, <2>1, <2>2 DEF EpicUnlinks
<1>7. ASSUME NEW f \in files, EpicEvicts(f)
      PROVE  ChunksTyped'
  <2>1. lookup' \in LookupSet
    BY <1>7 DEF EpicEvicts, RestOK, LookupSet
  <2>2. mishaps' \in 0..MaxMishaps
    BY <1>n, <1>7 DEF EpicEvicts, Mishap, RestOK
  <2> QED
    BY <1>5, <1>7, <2>1, <2>2 DEF EpicEvicts
<1> QED
  BY <1>2, <1>3, <1>4, <1>6, <1>7

\* Every variable of the chunks keeps to its type: in particular no more requests
\* than slots are under way, no chunk is tried more often than allowed, and a
\* lookup never takes a row without a base (puller.py:97-115, epic.py:56-91).
THEOREM EpicTypeCorrect == EpicSpec => []EpicTypeOK
<1>1. EpicInit => ChunksTyped
  <2> SUFFICES ASSUME EpicInit PROVE ChunksTyped
    OBVIOUS
  <2>1. /\ MaxPulls \in Nat /\ MaxMishaps \in Nat /\ Slots \in Nat /\ Slots > 0
    BY EpicAssumption
  <2>2. NoManifest \in RowSet /\ [NoManifest EXCEPT !.at = 1] \in RowSet
    BY <2>1 DEF NoManifest, RowSet
  <2>3. StoreOK
    BY <2>2 DEF EpicInit, StoreOK
  <2>4. Busy = {} /\ pull.pc = "idle" /\ pull.host = {} /\ pull.wait = {}
    BY DEF EpicInit, NoPull, Busy
  <2>5. PullOK
    BY <2>1, <2>4, FS_EmptySet DEF PullOK
  <2>6. RestOK
    <3>1. NoLookup \in LookupSet
      BY DEF NoLookup, LookupSet
    <3>2. lookup = NoLookup /\ told = "none" /\ sound = FALSE /\ pulls = 0 /\ mishaps = 0
      BY DEF EpicInit
    <3>3. sound \in BOOLEAN
      BY <3>2, Zenon
    <3>4. pulls \in 0..MaxPulls /\ mishaps \in 0..MaxMishaps
      BY <2>1, <3>2
    <3> QED
      BY <3>1, <3>2, <3>3, <3>4 DEF RestOK
  <2> QED
    BY <2>3, <2>5, <2>6 DEF ChunksTyped
<1>2. ChunksInv /\ ChunksTyped /\ [EpicNext]_epicVars => ChunksTyped'
  <2> SUFFICES ASSUME ChunksInv, ChunksTyped, [EpicNext]_epicVars PROVE ChunksTyped'
    OBVIOUS
  <2>1. CASE UNCHANGED epicVars
    BY <2>1 DEF epicVars, ChunksTyped, StoreOK, PullOK, RestOK, Busy
  <2> QED
    BY <2>1, PullTyped, LookupTyped, Zenon DEF EpicNext
<1>3. ChunksInv /\ ChunksTyped => EpicTypeOK
  BY DEF ChunksInv, PullInv, ChunksTyped, StoreOK, PullOK, RestOK, RowSet, LookupSet, EpicTypeOK
<1> QED
  BY <1>1, <1>2, <1>3, ChunksInductive, PTL DEF EpicSpec
=============================================================================
