---------------------------- MODULE EpicSession ----------------------------
(***************************************************************************)
(* The Epic session (platform/epic/client.py, oauth.py): EpicClient keeps  *)
(* its tokens in memory and the refresh token in a file that the operator's *)
(* login (api/routers/epic_auth.py) writes as well.  A refresh token is    *)
(* spent by its use.  The one worker makes the only calls, so nobody ever  *)
(* waits for _refresh_lock.  Access tokens are worth what Epic says.       *)
(***************************************************************************)
EXTENDS Naturals

CONSTANTS
    MaxLogins, \* bound: codes the operator submits
    MaxFaults  \* bound: requests, writes and processes that fail

ASSUME SessionAssumption == MaxLogins \in Nat /\ MaxFaults \in Nat

VARIABLES
    mem,      \* EpicClient._tokens, or NoToken
    file,     \* epic_session_path, or NoToken
    alive,    \* the logins that Epic honours
    call,     \* the worker's call: where it is, whether it was retried, its token
    submit,   \* where POST /platforms/epic/auth is
    auth,     \* platforms.auth_status of Epic
    logins,   \* logins so far
    unsaved,  \* history: a failed save has lost a token to the memory, or both
    faults

evars == <<mem, file, alive, call, submit, auth, logins, unsaved, faults>>

\* `login`: the login a token descends from; `good`: it has not been spent.
\* `access`: the access token beside it, "good", "near" its expiry or "bad".
NoToken == [login |-> 0, good |-> FALSE, access |-> "none"]

NoCall == [pc |-> "idle", retry |-> FALSE, token |-> NoToken]

Fault == faults < MaxFaults /\ faults' = faults + 1

SessionInit ==
    /\ mem = NoToken /\ file = NoToken /\ alive = {}
    /\ call = NoCall /\ submit = "idle" /\ auth = "never"
    /\ logins = 0 /\ unsaved = FALSE /\ faults = 0

Token(l) == [login |-> l, good |-> TRUE, access |-> "good"]

Accepted(t) == t.good /\ t.login \in alive

\* Epic rotated the token: every copy of it is spent.
Spend(t, l) == IF t.login = l THEN [t EXCEPT !.good = FALSE] ELSE t

\* What a failed save_refresh_token leaves of the file: it could not be opened,
\* was truncated and not written, or was written before the chmod failed.
FailedSave(old, l) == {old, NoToken, Token(l)}

Ends(how) == call' = [NoCall EXCEPT !.pc = how]

-----------------------------------------------------------------------------
\* _access_token: the cached one unless forced or near its expiry ...
UsesCached ==
    /\ call.pc = "token" /\ ~call.retry /\ mem # NoToken /\ mem.access # "near"
    /\ call' = [call EXCEPT !.pc = "call"]
    /\ UNCHANGED <<mem, file, alive, submit, auth, logins, unsaved, faults>>

\* ... and otherwise a refresh with the token in memory, or else in the file.
Asks ==
    /\ call.pc = "token" /\ (call.retry \/ mem = NoToken \/ mem.access = "near")
    /\ LET rt == IF mem # NoToken THEN mem ELSE file
       IN IF rt = NoToken
          THEN Ends("denied")
          ELSE call' = [call EXCEPT !.pc = "ask", !.token = rt]
    /\ UNCHANGED <<mem, file, alive, submit, auth, logins, unsaved, faults>>

\* Mutant of Answered: the rotated token stays in memory.
AnsweredUnsaved ==
    LET l == call.token.login
    IN /\ call.pc = "ask" /\ Accepted(call.token)
       /\ mem' = Token(l)
       /\ file' = Spend(file, l)
       /\ call' = [call EXCEPT !.pc = "call"]
       /\ UNCHANGED <<unsaved, faults>>
       /\ UNCHANGED <<alive, submit, auth, logins>>

\* The grant: the rotated token is kept in memory and written over the file,
\* whatever login is in it by now; a save that fails escapes to the job.
Answered ==
    LET l == call.token.login
    IN /\ call.pc = "ask" /\ Accepted(call.token)
       /\ mem' = Token(l)
       /\ \/ /\ file' = Token(l) /\ call' = [call EXCEPT !.pc = "call"]
             /\ unsaved' = FALSE /\ UNCHANGED faults
          \/ /\ Fault /\ file' \in FailedSave(Spend(file, l), l) /\ Ends("failed")
             /\ unsaved' = (file' # Token(l))
       /\ UNCHANGED <<alive, submit, auth, logins>>

\* Epic refuses a token that was spent or whose login is over.
Refused ==
    /\ call.pc = "ask" /\ ~Accepted(call.token)
    /\ Ends("denied")
    /\ UNCHANGED <<mem, file, alive, submit, auth, logins, unsaved, faults>>

\* The answer is lost or garbled: before Epic rotated the token, or after.
AnswerLost ==
    /\ call.pc = "ask" /\ Fault
    /\ Ends("failed") \/ Ends("denied")
    /\ LET l == call.token.login
       IN \/ UNCHANGED <<mem, file>>
          \/ Accepted(call.token) /\ mem' = Spend(mem, l) /\ file' = Spend(file, l)
    /\ UNCHANGED <<alive, submit, auth, logins, unsaved>>

\* _call_with_401_refresh: one forced refresh on a 401, and one retry.
Calls ==
    /\ call.pc = "call"
    /\ \/ mem.access # "bad" /\ Ends("ok") /\ UNCHANGED faults
       \/ mem.access = "bad" /\ ~call.retry
          /\ call' = [call EXCEPT !.pc = "token", !.retry = TRUE] /\ UNCHANGED faults
       \/ mem.access = "bad" /\ call.retry /\ Ends("failed") /\ UNCHANGED faults
       \/ Fault /\ Ends("failed")
    /\ UNCHANGED <<mem, file, alive, submit, auth, logins, unsaved>>

SessionStep == UsesCached \/ Asks \/ Answered \/ Refused \/ AnswerLost \/ Calls

-----------------------------------------------------------------------------
\* Time passes, and Epic may end a login or an access token before its time.
AccessFades ==
    /\ mem.access = "good"
    /\ \E worth \in {"near", "bad"} : mem' = [mem EXCEPT !.access = worth]
    /\ UNCHANGED <<file, alive, call, submit, auth, logins, unsaved, faults>>

LoginOver ==
    /\ \E l \in alive : alive' = alive \ {l}
                     /\ mem' = IF mem.login = l THEN [mem EXCEPT !.access = "bad"] ELSE mem
    /\ UNCHANGED <<file, call, submit, auth, logins, unsaved, faults>>

\* submit_epic_auth: the code is exchanged and the token saved, or the save fails
\* (503): the code is gone, and the token of the session so far may be, too ...
SubmitCode ==
    /\ submit = "idle" /\ logins < MaxLogins /\ logins' = logins + 1
    /\ alive' = alive \cup {logins'}
    /\ \/ file' = Token(logins') /\ submit' = "status" /\ unsaved' = FALSE /\ UNCHANGED faults
       \/ /\ Fault /\ file' \in FailedSave(file, logins') /\ UNCHANGED submit
          /\ unsaved' = ((unsaved \/ file' = NoToken) /\ file' # Token(logins'))
    /\ UNCHANGED <<mem, call, auth>>

\* ... then the platforms row; the library_sync is the caller's.
SubmitStatus ==
    /\ submit = "status"
    /\ \/ submit' = "enqueue" /\ auth' = "ok" /\ UNCHANGED faults
       \/ Fault /\ submit' = "idle" /\ UNCHANGED auth
    /\ UNCHANGED <<mem, file, alive, call, logins, unsaved>>

\* A new process has no tokens in memory; what Epic was asked it may have done,
\* and the process may have died in the middle of saving the answer.
SessionRestarts ==
    /\ Fault
    /\ mem' = NoToken /\ call' = NoCall /\ submit' = "idle"
    /\ LET l == call.token.login
       IN \/ UNCHANGED file
          \/ /\ call.pc = "ask" /\ Accepted(call.token)
             /\ file' \in FailedSave(Spend(file, l), l)
    /\ UNCHANGED <<alive, auth, logins, unsaved>>

-----------------------------------------------------------------------------
Logins == 0..MaxLogins

Tokens == [login : Logins, good : BOOLEAN, access : {"none", "good", "near", "bad"}]

SessionTypeOK ==
    /\ mem \in Tokens /\ file \in Tokens
    /\ alive \subseteq 1..logins /\ logins \in Logins
    /\ call \in [pc : {"idle", "token", "ask", "call", "ok", "denied", "failed"},
                 retry : BOOLEAN, token : Tokens]
    /\ submit \in {"idle", "status", "enqueue"}
    /\ auth \in {"never", "ok", "expired"}
    /\ unsaved \in BOOLEAN /\ faults \in 0..MaxFaults

\* A restart keeps the session: outside a refresh the file holds an unspent token
\* whenever the memory does, however refreshes, retries and logins interleave.
\* Only a failed save undoes it, until the next one that succeeds: a refreshed
\* token stays in memory alone, or a login that could not be saved has emptied
\* the file of the token that the client goes on with (client.py:75-88,
\* oauth.py:105-108).
RestartKeepsSession ==
    call.pc # "ask" /\ mem.good /\ ~unsaved => file.good

\* What the operator logs in with is what the client uses: no refresh is asked
\* with a token that Epic refuses while the file holds one that it accepts
\* (client.py:3-5).
LoginLands ==
    [][call.pc = "token" /\ call'.pc = "ask" /\ Accepted(file) => Accepted(call'.token)]_evars
=============================================================================
