------------------------------- MODULE Archive -------------------------------
(***************************************************************************)
(* The agent's manifest archive (agent/manifest_archive.py).  SteamPrefill *)
(* keeps the manifests it writes for a while only; two callers copy them   *)
(* into the archive that cache validation reads: the background loop,      *)
(* which leaves files alone until they have settled, and the capture after *)
(* a prefill (agent/routers/steam.py), which does not.  Both may be under  *)
(* way at once, on the same file, and the process may die at any point.    *)
(***************************************************************************)
EXTENDS Naturals

CONSTANTS
    Manifests,  \* names of manifest files: {app}_{group}_{depot}_{gid}.bin
    MaxIO       \* bound: failing file operations and deaths of the agent

ASSUME ArchiveAssumption == MaxIO \in Nat

Syncers == {"loop", "capture"}

VARIABLES
    live,     \* SteamPrefill's cache: what each file holds
    settled,  \* live files last written more than settle_seconds ago
    arch,     \* the archive, by final name
    fresh,    \* archived files that carry the time of the copy, not the source's
    temps,    \* the .partial files
    copies,   \* the sync_manifests_to_archive calls under way
    ioFaults

archiveVars == <<live, settled, arch, fresh, temps, copies, ioFaults>>

\* Mutant of TempName: one name per manifest.
TempOfManifest(s, f) == <<"loop", f>>

\* A name of its own per attempt (process id and uuid): two callers never share.
TempName(s, f) == <<s, f>>

Temps == {TempName(s, f) : s \in Syncers, f \in Manifests}

NoCopy == [pc |-> "idle", todo |-> {}, file |-> {}, src |-> "absent"]

ArchiveInit ==
    /\ live = [f \in Manifests |-> "absent"] /\ settled = {}
    /\ arch \in [Manifests -> {"absent", "empty"}] \* empty: an older copy was cut short
    /\ fresh = {}
    /\ temps = [t \in Temps |-> "absent"]
    /\ copies = [s \in Syncers |-> NoCopy]
    /\ ioFaults = 0

IOFault == ioFaults < MaxIO /\ ioFaults' = ioFaults + 1

-----------------------------------------------------------------------------
(* SteamPrefill: run by the agent or by the host's cron.                   *)

HostBegins(f) ==
    /\ live[f] = "absent" /\ live' = [live EXCEPT ![f] = "half"]
    /\ UNCHANGED <<settled, arch, fresh, temps, copies, ioFaults>>

HostCompletes(f) ==
    /\ live[f] = "half" /\ live' = [live EXCEPT ![f] = "whole"]
    /\ settled' = settled \ {f}
    /\ UNCHANGED <<arch, fresh, temps, copies, ioFaults>>

Settles(f) ==
    /\ live[f] # "absent" /\ f \notin settled
    /\ settled' = settled \cup {f}
    /\ UNCHANGED <<live, arch, fresh, temps, copies, ioFaults>>

\* Saved manifests are temporary to SteamPrefill.
HostDrops(f) ==
    /\ live[f] = "whole" /\ live' = [live EXCEPT ![f] = "absent"]
    /\ settled' = settled \ {f}
    /\ UNCHANGED <<arch, fresh, temps, copies, ioFaults>>

-----------------------------------------------------------------------------
(* sync_manifests_to_archive.                                              *)

\* Mutant of Archived: an empty entry counts.
ArchivedByName(f) == arch[f] # "absent"

\* A zero-byte entry is not one.
Archived(f) == arch[f] \notin {"absent", "empty"}

InUse(t) == \E s \in Syncers, f \in Manifests :
                f \in copies[s].file /\ t = TempName(s, f)

\* The names at hand and those already archived, both read once; .partial
\* files that nobody has written for a minute go.
Begins(s) ==
    /\ copies[s].pc = "idle"
    /\ copies' = [copies EXCEPT ![s] = [NoCopy EXCEPT !.pc = "pick",
                    !.todo = {f \in Manifests : live[f] # "absent" /\ ~Archived(f)}]]
    /\ \E old \in SUBSET {t \in Temps : ~InUse(t)} :
         temps' = [t \in Temps |-> IF t \in old THEN "absent" ELSE temps[t]]
    /\ UNCHANGED <<live, settled, arch, fresh, ioFaults>>

Leave(s, f) == [NoCopy EXCEPT !.pc = "pick", !.todo = copies[s].todo \ {f}]

\* The loop leaves a file that is too young; one that has gone is an error
\* of that file only.
Picks(s, f) ==
    /\ copies[s].pc = "pick" /\ f \in copies[s].todo
    /\ copies' = [copies EXCEPT ![s] =
         IF live[f] = "absent" \/ (s = "loop" /\ f \notin settled) THEN Leave(s, f)
         ELSE [@ EXCEPT !.pc = "open", !.file = {f}]]
    /\ UNCHANGED <<live, settled, arch, fresh, temps, ioFaults>>

\* copyfile: the source is opened, the target truncated ...
Opens(s, f) ==
    /\ copies[s].pc = "open" /\ f \in copies[s].file
    /\ IF live[f] = "absent"
       THEN copies' = [copies EXCEPT ![s] = Leave(s, f)] /\ UNCHANGED temps
       ELSE /\ copies' = [copies EXCEPT ![s].pc = "fill", ![s].src = live[f]]
            /\ temps' = [temps EXCEPT ![TempName(s, f)] = "torn"]
    /\ UNCHANGED <<live, settled, arch, fresh, ioFaults>>

\* ... and filled with what the source holds by then.
Fills(s, f) ==
    /\ copies[s].pc = "fill" /\ f \in copies[s].file
    /\ temps' = [temps EXCEPT ![TempName(s, f)] =
                    IF live[f] = "absent" THEN copies[s].src ELSE live[f]]
    /\ copies' = [copies EXCEPT ![s].pc = "publish"]
    /\ UNCHANGED <<live, settled, arch, fresh, ioFaults>>

\* os.replace, atomic.
Publishes(s, f) ==
    /\ copies[s].pc = "publish" /\ f \in copies[s].file
    /\ temps[TempName(s, f)] # "absent"
    /\ arch' = [arch EXCEPT ![f] = temps[TempName(s, f)]]
    /\ fresh' = fresh \cup {f}
    /\ temps' = [temps EXCEPT ![TempName(s, f)] = "absent"]
    /\ copies' = [copies EXCEPT ![s].pc = "stamp"]
    /\ UNCHANGED <<live, settled, ioFaults>>

\* os.utime restores the source's time; a failure is logged.
Stamps(s, f) ==
    /\ copies[s].pc = "stamp" /\ f \in copies[s].file
    /\ \/ fresh' = fresh \ {f} /\ UNCHANGED ioFaults
       \/ IOFault /\ UNCHANGED fresh
    /\ copies' = [copies EXCEPT ![s] = Leave(s, f)]
    /\ UNCHANGED <<live, settled, arch, temps>>

\* An error on the way: the stub is removed and the next cycle tries again.
CopyFails(s, f) ==
    /\ copies[s].pc \in {"fill", "publish"} /\ f \in copies[s].file
    /\ IOFault
    /\ temps' = [temps EXCEPT ![TempName(s, f)] = "absent"]
    /\ copies' = [copies EXCEPT ![s] = Leave(s, f)]
    /\ UNCHANGED <<live, settled, arch, fresh>>

Finishes(s) ==
    /\ copies[s].pc = "pick" /\ copies[s].todo = {}
    /\ copies' = [copies EXCEPT ![s] = NoCopy]
    /\ UNCHANGED <<live, settled, arch, fresh, temps, ioFaults>>

\* The container restarts: the copies die where they are, and SteamPrefill's
\* cache may go with it.
AgentRestarts ==
    /\ IOFault
    /\ copies' = [s \in Syncers |-> NoCopy]
    /\ \/ UNCHANGED <<live, settled>>
       \/ live' = [f \in Manifests |-> "absent"] /\ settled' = {}
    /\ UNCHANGED <<arch, fresh, temps>>

-----------------------------------------------------------------------------
SyncStep(s) ==
    \/ Begins(s) \/ Finishes(s)
    \/ \E f \in Manifests :
         Picks(s, f) \/ Opens(s, f) \/ Fills(s, f) \/ Publishes(s, f) \/ Stamps(s, f)

ArchiveNext ==
    \/ \E s \in Syncers : SyncStep(s) \/ (\E f \in Manifests : CopyFails(s, f))
    \/ \E f \in Manifests :
         HostBegins(f) \/ HostCompletes(f) \/ Settles(f) \/ HostDrops(f)
    \/ AgentRestarts

ArchiveSpec == ArchiveInit /\ [][ArchiveNext]_archiveVars

-----------------------------------------------------------------------------
Texts == {"absent", "half", "whole"}

ArchiveTypeOK ==
    /\ live \in [Manifests -> Texts] /\ settled \subseteq Manifests
    /\ arch \in [Manifests -> Texts \cup {"empty", "torn"}] /\ fresh \subseteq Manifests
    /\ temps \in [Temps -> Texts \cup {"torn"}]
    /\ copies \in [Syncers -> [pc : {"idle", "pick", "open", "fill", "publish", "stamp"},
                               todo : SUBSET Manifests, file : SUBSET Manifests,
                               src : Texts]]
    /\ ioFaults \in 0..MaxIO

\* The final name only ever refers to a copy that was finished: neither a
\* second caller at work on the same manifest nor a death in the middle of a
\* copy publishes a truncated one (manifest_archive.py:86-92, 98-101).
ArchiveWhole == \A f \in Manifests : arch[f] # "torn"

\* A manifest that stays in SteamPrefill's cache and has settled gets into the
\* archive, also where an earlier copy left an empty file under its name
\* (manifest_archive.py:60-66).
ArchiveCatchesUp ==
    \A f \in Manifests :
        <>[](live[f] = "whole" /\ f \in settled) => <>[](arch[f] \in {"half", "whole"})
=============================================================================
