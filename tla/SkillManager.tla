----------------------------- MODULE SkillManager -----------------------------
(***************************************************************************)
(* internal/tools/skills/manager.go: the registry of one skill and the     *)
(* directories its versions are installed in.                              *)
(*                                                                         *)
(* The lock guards the registry only.  Installing an archive deletes,      *)
(* moves, writes and loads directories without it, and removing a skill    *)
(* deletes one after the lock has been given back.  An archive is the      *)
(* number of its upload; what is in it either can be prepared for          *)
(* execution or cannot.                                                    *)
(***************************************************************************)
EXTENDS Naturals, FiniteSets

CONSTANTS
    SkillRequests,  \* the requests the manager serves at a time
    SkillVersions,  \* the versions the manifests of the archives may name
    MaxArchives,    \* bound: archives uploaded
    MaxRestarts     \* bound: restarts of the program

ASSUME SkillAssumption ==
    /\ IsFiniteSet(SkillRequests) /\ SkillVersions # {}
    /\ MaxArchives \in Nat /\ MaxRestarts \in Nat

VARIABLES
    package,        \* the directory of each version
    entry,          \* m.skills[id]
    spc,            \* the stage of a request
    task,           \* what it carries: its version and archive
    archives, restarts, stamps,
    clashed,        \* history: versions two requests worked on at once
    lost,           \* history: versions a failed installation deleted
    switchedOff     \* history: a user has disabled the skill, and not removed it

skillBounds == <<archives, restarts, stamps>>
skillHistory == <<clashed, lost, switchedOff>>
skillVars == <<package, entry, spc, task, skillBounds, skillHistory>>

Archives == 1..MaxArchives
\* What is in a directory, whether it can be prepared, and .skill-package.json:
\* when it was written, 0 if it is not there.
Packages == [archive : 0..MaxArchives, sound : BOOLEAN, stamp : 0..MaxArchives]
NoPackage == [archive |-> 0, sound |-> FALSE, stamp |-> 0]
Sources == {"none", "zip", "path"}
Entries == [source : Sources, version : SkillVersions, archive : 0..MaxArchives,
            enabled : BOOLEAN]
NoEntry == [source |-> "none", version |-> CHOOSE v \in SkillVersions : TRUE,
            archive |-> 0, enabled |-> FALSE]
Tasks == [version : SkillVersions, archive : 0..MaxArchives,
          sound : BOOLEAN, force : BOOLEAN]
NoTask == [version |-> NoEntry.version, archive |-> 0, sound |-> FALSE, force |-> FALSE]

SkillTypeOK ==
    /\ package \in [SkillVersions -> Packages]
    /\ entry \in Entries
    /\ spc \in [SkillRequests -> {"idle", "stat", "removeAll", "rename", "info", "load",
                                  "store", "storePath", "delete"}]
    /\ task \in [SkillRequests -> Tasks]
    /\ archives \in 0..MaxArchives /\ restarts \in 0..MaxRestarts
    /\ stamps \in 0..MaxArchives
    /\ clashed \subseteq SkillVersions /\ lost \subseteq SkillVersions
    /\ switchedOff \in BOOLEAN

SkillInit ==
    /\ package = [v \in SkillVersions |-> NoPackage]
    /\ entry = NoEntry
    /\ spc = [s \in SkillRequests |-> "idle"]
    /\ task = [s \in SkillRequests |-> NoTask]
    /\ archives = 0 /\ restarts = 0 /\ stamps = 0
    /\ clashed = {} /\ lost = {} /\ switchedOff = FALSE

SkillAt(s, stage) == spc[s] = stage
SkillEnds(s) == spc' = [spc EXCEPT ![s] = "idle"] /\ task' = [task EXCEPT ![s] = NoTask]
SkillGoes(s, stage) == spc' = [spc EXCEPT ![s] = stage] /\ UNCHANGED task

\* The requests that are about to change the directory of v.
Working(v) == {s \in SkillRequests :
    spc[s] \in {"stat", "removeAll", "rename", "info", "load", "store", "delete"}
        /\ task[s].version = v}
Clash(v) == clashed' = IF Working(v) = {} THEN clashed ELSE clashed \cup {v}

-----------------------------------------------------------------------------
(* InstallZip *)

\* The archive is unpacked and its manifest read; one without a valid manifest
\* is refused here.
InstallZip(s) ==
    /\ SkillAt(s, "idle") /\ archives < MaxArchives
    /\ archives' = archives + 1
    /\ \E v \in SkillVersions, sound \in BOOLEAN, force \in BOOLEAN :
         /\ task' = [task EXCEPT ![s] =
                [version |-> v, archive |-> archives', sound |-> sound, force |-> force]]
         /\ Clash(v)
    /\ spc' = [spc EXCEPT ![s] = "stat"]
    /\ UNCHANGED <<package, entry, restarts, stamps, lost, switchedOff>>

\* A version that is there is an error, unless it is to be replaced.
StatTarget(s) ==
    /\ SkillAt(s, "stat")
    /\ IF package[task[s].version] = NoPackage THEN SkillGoes(s, "rename")
       ELSE IF task[s].force THEN SkillGoes(s, "removeAll") ELSE SkillEnds(s)
    /\ UNCHANGED <<package, entry, skillBounds, skillHistory>>

Delete(v) == package' = [package EXCEPT ![v] = NoPackage]

\* The version that is replaced is deleted first.
RemoveTarget(s) ==
    /\ SkillAt(s, "removeAll")
    /\ Delete(task[s].version)
    /\ SkillGoes(s, "rename")
    /\ UNCHANGED <<entry, skillBounds, skillHistory>>

\* The unpacked directory is moved in place.  That fails when another request
\* has put one there, or the disk refuses; then what was there stays deleted.
Rename(s) ==
    /\ SkillAt(s, "rename")
    /\ LET v == task[s].version
       IN  \/ /\ package[v] = NoPackage
              /\ package' = [package EXCEPT ![v] =
                     [archive |-> task[s].archive, sound |-> task[s].sound, stamp |-> 0]]
              /\ SkillGoes(s, "info")
              /\ UNCHANGED lost
           \/ /\ lost' = IF package[v] = NoPackage THEN lost \cup {v} ELSE lost
              /\ SkillEnds(s)
              /\ UNCHANGED package
    /\ UNCHANGED <<entry, skillBounds, clashed, switchedOff>>

\* .skill-package.json is written, or the directory is deleted again.
WritePackageInfo(s) ==
    /\ SkillAt(s, "info")
    /\ LET v == task[s].version
       IN  \/ /\ package[v] # NoPackage
              /\ stamps' = stamps + 1
              /\ package' = [package EXCEPT ![v].stamp = stamps']
              /\ SkillGoes(s, "load")
              /\ UNCHANGED lost
           \/ /\ Delete(v)
              /\ lost' = lost \cup {v}
              /\ SkillEnds(s)
              /\ UNCHANGED stamps
    /\ UNCHANGED <<entry, archives, restarts, clashed, switchedOff>>

\* A mutant: a package that cannot be prepared is stored all the same.
LoadAnyEntry(s) ==
    /\ SkillAt(s, "load")
    /\ SkillGoes(s, "store")
    /\ UNCHANGED <<package, entry, skillBounds, skillHistory>>

\* loadEntry: what is in the directory by now is read and prepared for a run
\* without arguments; if that fails the directory is deleted.
LoadEntry(s) ==
    /\ SkillAt(s, "load")
    /\ LET v == task[s].version
       IN  IF package[v].sound
           THEN /\ task' = [task EXCEPT ![s].archive = package[v].archive]
                /\ spc' = [spc EXCEPT ![s] = "store"]
                /\ UNCHANGED <<package, lost>>
           ELSE /\ Delete(v)
                /\ lost' = lost \cup {v}
                /\ SkillEnds(s)
    /\ UNCHANGED <<entry, skillBounds, clashed, switchedOff>>

\* A mutant: the entry is stored as it was loaded.
StoreEnabled(s) ==
    /\ spc[s] \in {"store", "storePath"}
    /\ entry' = [source |-> IF SkillAt(s, "store") THEN "zip" ELSE "path",
                 version |-> task[s].version, archive |-> task[s].archive,
                 enabled |-> TRUE]
    /\ lost' = IF SkillAt(s, "store") THEN lost \ {task[s].version} ELSE lost
    /\ SkillEnds(s)
    /\ UNCHANGED <<package, skillBounds, clashed, switchedOff>>

\* store: under the lock; a skill that was disabled stays disabled.
Store(s) ==
    /\ spc[s] \in {"store", "storePath"}
    /\ entry' = [source |-> IF SkillAt(s, "store") THEN "zip" ELSE "path",
                 version |-> task[s].version, archive |-> task[s].archive,
                 enabled |-> entry.source = "none" \/ entry.enabled]
    /\ lost' = IF SkillAt(s, "store") THEN lost \ {task[s].version} ELSE lost
    /\ SkillEnds(s)
    /\ UNCHANGED <<package, skillBounds, clashed, switchedOff>>

\* Upload loads a directory of the user's, which is not managed.
Upload(s) ==
    /\ SkillAt(s, "idle")
    /\ \E v \in SkillVersions : task' = [task EXCEPT ![s] = [NoTask EXCEPT !.version = v]]
    /\ spc' = [spc EXCEPT ![s] = "storePath"]
    /\ UNCHANGED <<package, entry, skillBounds, skillHistory>>

-----------------------------------------------------------------------------
(* The other operations *)

SetEnabled(enabled) ==
    /\ entry.source # "none"
    /\ entry' = [entry EXCEPT !.enabled = enabled]
    /\ switchedOff' = ~enabled
    /\ UNCHANGED <<package, spc, task, skillBounds, clashed, lost>>

\* Remove: the entry goes under the lock ...
RemoveSkill(s) ==
    /\ SkillAt(s, "idle") /\ entry.source # "none"
    /\ entry' = NoEntry
    /\ switchedOff' = FALSE
    /\ IF entry.source = "zip"
       THEN /\ task' = [task EXCEPT ![s] = [NoTask EXCEPT !.version = entry.version]]
            /\ spc' = [spc EXCEPT ![s] = "delete"]
            /\ Clash(entry.version)
       ELSE UNCHANGED <<spc, task, clashed>>
    /\ UNCHANGED <<package, skillBounds, lost>>

\* ... and the directory of its version after it.  Other versions stay.
RemovePackage(s) ==
    /\ SkillAt(s, "delete")
    /\ Delete(task[s].version)
    /\ SkillEnds(s)
    /\ UNCHANGED <<entry, skillBounds, skillHistory>>

\* NewManager: what has a .skill-package.json and can be loaded is registered,
\* the latest of them, and enabled.
SkillRestart ==
    /\ restarts < MaxRestarts /\ restarts' = restarts + 1
    /\ LET found == {v \in SkillVersions : package[v].sound /\ package[v].stamp > 0}
       IN  IF found = {} THEN entry' = NoEntry
           ELSE \E v \in found :
                  /\ \A w \in found : package[w].stamp <= package[v].stamp
                  /\ entry' = [source |-> "zip", version |-> v,
                               archive |-> package[v].archive, enabled |-> TRUE]
    /\ spc' = [s \in SkillRequests |-> "idle"]
    /\ task' = [s \in SkillRequests |-> NoTask]
    /\ switchedOff' = FALSE
    /\ clashed' = clashed \ {v \in SkillVersions : package[v] = NoPackage}
    /\ lost' = {}
    /\ UNCHANGED <<package, archives, stamps>>

SkillNext ==
    \/ \E s \in SkillRequests :
         \/ InstallZip(s) \/ StatTarget(s) \/ RemoveTarget(s) \/ Rename(s)
         \/ WritePackageInfo(s) \/ LoadEntry(s) \/ Store(s)
         \/ Upload(s) \/ RemoveSkill(s) \/ RemovePackage(s)
    \/ \E enabled \in BOOLEAN : SetEnabled(enabled)
    \/ SkillRestart

SkillSpec == SkillInit /\ [][SkillNext]_skillVars

-----------------------------------------------------------------------------
(* Properties *)

\* A registered package is there, and is the one that was registered, unless a
\* request is just replacing or removing that version, two requests have
\* worked on it at the same time, or an installation over it has failed: then
\* the skill stays registered without its files.
RegisteredIsThere ==
    entry.source = "zip" =>
        \/ package[entry.version].archive = entry.archive /\ package[entry.version].sound
        \/ entry.version \in clashed \cup lost \/ Working(entry.version) # {}

\* A skill the user has disabled is not enabled by an update, a reinstallation
\* or a race with them: only by the user, by removing it, or by a restart of
\* the program.
StaysDisabled == switchedOff => entry.source # "none" /\ ~entry.enabled

\* Both, of the skill that several requests install, switch and remove.
SkillsAreKept == RegisteredIsThere /\ StaysDisabled

=============================================================================
