---------------------------- MODULE AgentSteamMC ----------------------------
(* Instances of AgentSteam for TLC.                                        *)
EXTENDS AgentSteam

CONSTANTS a, b

MCApps == {a, b}
MCWorks == {[app |-> a, force |-> FALSE], [app |-> a, force |-> TRUE]}

\* One verdict that changes the library as well as a run's list of one app.
MCVerdicts == {[exclude |-> {a}, restore |-> {b}]}

\* The ceiling of a call may be met at any time.
MCPoll == [prefill |-> 0, fetch |-> 0, pull |-> 0]
=============================================================================
