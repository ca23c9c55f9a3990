---------------------------- MODULE Stores_proofs -----------------------------
(***************************************************************************)
(* What is proved of the modules that keep something on disk or in a       *)
(* vector database: SkillManager, MemoryStore, Startup, Retrieval,         *)
(* VectorBackends and RunStore, each for any number of requests, runs,     *)
(* items, versions, scopes and configurations.  The modules share nothing; *)
(* each has an inductive invariant, a lemma per action or conjunct, and    *)
(* the theorems that follow from it.                                       *)
(***************************************************************************)
EXTENDS SkillManager, MemoryStore, Startup, Retrieval, VectorBackends, RunStore, FiniteSetTheorems, TLAPS

(* The skill manager *)

\* The requests whose archive is not yet stamped.
Unstamped == {s \in SkillRequests : spc[s] \in {"stat", "removeAll", "rename", "info"}}

\* Each archive is stamped at most once.
StampPerArchive == stamps + Cardinality(Unstamped) <= archives

\* A version on which no two requests have clashed is worked on by one at most.
SoleWorker ==
    \A v \in SkillVersions \ clashed : \A s, t \in Working(v) : s = t

\* What the request that works on such a version may rely on.
WorkerSees ==
    \A s \in SkillRequests :
        LET v == task[s].version
        IN  v \notin clashed =>
              /\ spc[s] = "rename" => package[v] = NoPackage
              /\ spc[s] = "store" => package[v].sound /\ package[v].archive = task[s].archive
              /\ spc[s] = "delete" => ~(entry.source = "zip" /\ entry.version = v)

\* The requests that have begun to replace the files of v, or are to delete
\* them.  One that only looks whether they are there has not.
Changing(v) == {s \in Working(v) : spc[s] \notin {"stat", "delete"}}

\* A registered package is there as it was registered until a request begins to
\* change it.
ThereUntilChanged ==
    entry.source = "zip" =>
        \/ package[entry.version].archive = entry.archive /\ package[entry.version].sound
        \/ entry.version \in clashed \cup lost \/ Changing(entry.version) # {}

SkillInv ==
    SkillTypeOK /\ StampPerArchive /\ SoleWorker /\ WorkerSees /\ ThereUntilChanged
        /\ StaysDisabled

\* The version of no entry is among the versions.
LEMMA SomeVersion == NoEntry.version \in SkillVersions
  BY SkillAssumption DEF NoEntry

\* The bounds are natural numbers, and the requests are finitely many.
LEMMA SkillConstants ==
    /\ NoEntry \in Entries /\ NoTask \in Tasks /\ NoPackage \in Packages
    /\ MaxArchives \in Nat /\ MaxRestarts \in Nat
  BY SomeVersion, SkillAssumption DEF NoEntry, NoTask, NoPackage, Entries, Tasks, Packages, Sources

\* The unstamped requests grow by one with an archive and shrink by one with a
\* stamp.
LEMMA StampCount ==
    ASSUME SkillTypeOK
    PROVE  /\ IsFiniteSet(Unstamped) /\ Cardinality(Unstamped) \in Nat
           /\ \A s \in SkillRequests :
                /\ Unstamped' = Unstamped \cup {s} /\ s \notin Unstamped =>
                      Cardinality(Unstamped') = Cardinality(Unstamped) + 1
                /\ Unstamped' = Unstamped \ {s} /\ s \in Unstamped =>
                      Cardinality(Unstamped') = Cardinality(Unstamped) - 1
                /\ Unstamped' = Unstamped \ {s} /\ s \notin Unstamped =>
                      Cardinality(Unstamped') = Cardinality(Unstamped)
<1>1. Unstamped \subseteq SkillRequests
  BY DEF Unstamped
<1>2. IsFiniteSet(Unstamped) /\ Cardinality(Unstamped) \in Nat
  BY <1>1, SkillAssumption, FS_Subset, FS_CardinalityType
<1>3. \A s \in SkillRequests :
         /\ s \notin Unstamped => Cardinality(Unstamped \cup {s}) = Cardinality(Unstamped) + 1
         /\ s \in Unstamped => Cardinality(Unstamped \ {s}) = Cardinality(Unstamped) - 1
         /\ s \notin Unstamped => Cardinality(Unstamped \ {s}) = Cardinality(Unstamped)
  BY <1>2, FS_AddElement, FS_RemoveElement
<1> QED  BY <1>2, <1>3

\* The stamp of a package stays within the bound: no archive is stamped twice.
LEMMA SkillStamps ==
    ASSUME SkillTypeOK, StampPerArchive, SkillNext
    PROVE  StampPerArchive' /\ stamps' \in 0..MaxArchives
<1> USE SkillConstants DEF SkillTypeOK, SkillAt, SkillEnds, SkillGoes, skillBounds, skillHistory
<1>0. /\ archives \in Nat /\ stamps \in Nat /\ Cardinality(Unstamped) \in Nat
  BY StampCount
<1>1. ASSUME NEW s \in SkillRequests, InstallZip(s) PROVE StampPerArchive' /\ stamps' \in 0..MaxArchives
  <2>1. s \notin Unstamped /\ Unstamped' = Unstamped \cup {s}
    BY <1>1 DEF InstallZip, Unstamped
  <2>2. archives' = archives + 1 /\ stamps' = stamps
    BY <1>1 DEF InstallZip
  <2> HIDE DEF Unstamped
  <2>3. Cardinality(Unstamped') = Cardinality(Unstamped) + 1
    BY <2>1, StampCount
  <2>4. stamps + Cardinality(Unstamped) <= archives
    BY DEF StampPerArchive
  <2> QED  BY <1>0, <2>2, <2>3, <2>4 DEF StampPerArchive
<1>2. ASSUME NEW s \in SkillRequests, StatTarget(s) \/ RemoveTarget(s) \/ Rename(s)
      PROVE  StampPerArchive' /\ stamps' \in 0..MaxArchives
  <2>1. s \in Unstamped /\ (Unstamped' = Unstamped \/ Unstamped' = Unstamped \ {s})
    BY <1>2 DEF StatTarget, RemoveTarget, Rename, Unstamped
  <2>2. archives' = archives /\ stamps' = stamps
    BY <1>2 DEF StatTarget, RemoveTarget, Rename
  <2> QED  BY <1>0, <2>1, <2>2, StampCount DEF StampPerArchive
<1>3. ASSUME NEW s \in SkillRequests, WritePackageInfo(s) PROVE StampPerArchive' /\ stamps' \in 0..MaxArchives
  <2>1. s \in Unstamped /\ Unstamped' = Unstamped \ {s}
    BY <1>3 DEF WritePackageInfo, Unstamped
  <2>2. archives' = archives /\ stamps' \in {stamps, stamps + 1}
    BY <1>3 DEF WritePackageInfo
  <2> HIDE DEF Unstamped
  <2>3. Cardinality(Unstamped') = Cardinality(Unstamped) - 1 /\ Cardinality(Unstamped') \in Nat
    <3>1. Cardinality(Unstamped) # 0
      BY <2>1, StampCount, FS_EmptySet
    <3>2. Cardinality(Unstamped') = Cardinality(Unstamped) - 1
      BY <2>1, StampCount
    <3> QED  BY <1>0, <3>1, <3>2
  <2> QED  BY <1>0, <2>2, <2>3 DEF StampPerArchive
<1>4. ASSUME NEW s \in SkillRequests,
             LoadEntry(s) \/ Store(s) \/ Upload(s) \/ RemoveSkill(s) \/ RemovePackage(s)
      PROVE  StampPerArchive' /\ stamps' \in 0..MaxArchives
  <2>1. Unstamped' = Unstamped
    BY <1>4 DEF LoadEntry, Store, Upload, RemoveSkill, RemovePackage, Unstamped
  <2>2. archives' = archives /\ stamps' = stamps
    BY <1>4 DEF LoadEntry, Store, Upload, RemoveSkill, RemovePackage
  <2> QED  BY <1>0, <2>1, <2>2 DEF StampPerArchive
<1>5. ASSUME NEW enabled \in BOOLEAN, SetEnabled(enabled) PROVE StampPerArchive' /\ stamps' \in 0..MaxArchives
  BY <1>0, <1>5 DEF SetEnabled, StampPerArchive, Unstamped
<1>6. CASE SkillRestart
  <2>1. Unstamped' = {}
    BY <1>6 DEF SkillRestart, Unstamped
  <2> QED  BY <1>0, <1>6, <2>1, FS_EmptySet DEF SkillRestart, StampPerArchive
<1> QED  BY <1>1, <1>2, <1>3, <1>4, <1>5, <1>6 DEF SkillNext

SkillStages == {"idle", "stat", "removeAll", "rename", "info", "load",
                "store", "storePath", "delete"}

\* A request that moves on stays one of its kind, with a version.
LEMMA SkillMoves ==
    ASSUME SkillTypeOK, NEW s \in SkillRequests
    PROVE  /\ SkillEnds(s) => spc' \in [SkillRequests -> SkillStages] /\ task' \in [SkillRequests -> Tasks]
           /\ \A stage \in SkillStages : SkillGoes(s, stage) =>
                 spc' \in [SkillRequests -> SkillStages] /\ task' \in [SkillRequests -> Tasks]
           /\ task[s] \in Tasks /\ task[s].version \in SkillVersions /\ task[s].archive \in 0..MaxArchives
           /\ task[s].sound \in BOOLEAN
           /\ \A v \in SkillVersions :
                /\ package[v] \in Packages
                /\ Delete(v) => package' \in [SkillVersions -> Packages]
<1>1. /\ spc \in [SkillRequests -> SkillStages] /\ task \in [SkillRequests -> Tasks]
      /\ package \in [SkillVersions -> Packages] /\ "idle" \in SkillStages
  BY DEF SkillTypeOK, SkillStages
<1>2. /\ SkillEnds(s) => spc' \in [SkillRequests -> SkillStages] /\ task' \in [SkillRequests -> Tasks]
      /\ \A stage \in SkillStages : SkillGoes(s, stage) =>
            spc' \in [SkillRequests -> SkillStages] /\ task' \in [SkillRequests -> Tasks]
  BY <1>1, SkillConstants DEF SkillEnds, SkillGoes
<1>3. task[s] \in Tasks
  BY <1>1
<1>4. /\ task[s].version \in SkillVersions /\ task[s].archive \in 0..MaxArchives
      /\ task[s].sound \in BOOLEAN
  BY <1>3 DEF Tasks
<1>5. \A v \in SkillVersions :
         package[v] \in Packages /\ (Delete(v) => package' \in [SkillVersions -> Packages])
  BY <1>1, SkillConstants DEF Delete
<1> QED  BY <1>2, <1>3, <1>4, <1>5

\* The variables of the skill manager keep their types.
LEMMA SkillTypes ==
    ASSUME SkillTypeOK, StampPerArchive, SkillNext
    PROVE  SkillTypeOK'
<1>1. stamps' \in 0..MaxArchives
  BY SkillStamps
<1> USE SkillConstants
<1>2. ASSUME NEW s \in SkillRequests, InstallZip(s) PROVE SkillTypeOK'
  BY <1>2 DEF InstallZip, Clash, SkillTypeOK, Tasks
<1>3. ASSUME NEW s \in SkillRequests, StatTarget(s) PROVE SkillTypeOK'
  BY <1>3, SkillMoves DEF StatTarget, SkillTypeOK, skillBounds, skillHistory, SkillStages
<1>4. ASSUME NEW s \in SkillRequests, RemoveTarget(s) \/ RemovePackage(s) PROVE SkillTypeOK'
  BY <1>4, SkillMoves DEF RemoveTarget, RemovePackage, SkillTypeOK, skillBounds, skillHistory, SkillStages
<1>5. ASSUME NEW s \in SkillRequests, Rename(s) PROVE SkillTypeOK'
  <2>1. [archive |-> task[s].archive, sound |-> task[s].sound, stamp |-> 0] \in Packages
    BY SkillMoves DEF Packages
  <2>2. package' \in [SkillVersions -> Packages]
    BY <1>5, <2>1 DEF Rename, SkillTypeOK
  <2> QED  BY <1>5, <2>2, SkillMoves DEF Rename, SkillTypeOK, skillBounds, SkillStages
<1>6. ASSUME NEW s \in SkillRequests, WritePackageInfo(s) PROVE SkillTypeOK'
  <2>1. package' \in [SkillVersions -> Packages]
    <3>1. CASE package' = [package EXCEPT ![task[s].version].stamp = stamps']
      BY <1>1, <3>1 DEF SkillTypeOK, Packages
    <3> QED  BY <1>6, <3>1, SkillMoves DEF WritePackageInfo
  <2> QED  BY <1>1, <1>6, <2>1, SkillMoves DEF WritePackageInfo, SkillTypeOK, SkillStages
<1>7. ASSUME NEW s \in SkillRequests, LoadEntry(s) PROVE SkillTypeOK'
  <2>1. package[task[s].version].archive \in 0..MaxArchives
    BY SkillMoves DEF Packages
  <2>2. task' \in [SkillRequests -> Tasks]
    BY <1>7, <2>1, SkillMoves DEF LoadEntry, SkillTypeOK, Tasks
  <2>3. spc' \in [SkillRequests -> SkillStages]
    BY <1>7, SkillMoves DEF LoadEntry, SkillTypeOK, SkillStages
  <2> QED  BY <1>7, <2>2, <2>3, SkillMoves DEF LoadEntry, SkillTypeOK, skillBounds, SkillStages
<1>8. ASSUME NEW s \in SkillRequests, Store(s) PROVE SkillTypeOK'
  BY <1>8, SkillMoves DEF Store, SkillTypeOK, skillBounds, Entries, Sources, SkillStages
<1>9. ASSUME NEW s \in SkillRequests, Upload(s) PROVE SkillTypeOK'
  BY <1>9 DEF Upload, SkillTypeOK, skillBounds, skillHistory, Tasks
<1>10. ASSUME NEW s \in SkillRequests, RemoveSkill(s) PROVE SkillTypeOK'
  <2>1. entry.version \in SkillVersions
    BY DEF SkillTypeOK, Entries
  <2>2. [NoTask EXCEPT !.version = entry.version] \in Tasks
    BY <2>1 DEF Tasks
  <2> HIDE SkillConstants
  <2>3. NoEntry \in Entries
    BY SkillConstants
  <2> QED  BY <1>10, <2>1, <2>2, <2>3 DEF RemoveSkill, Clash, SkillTypeOK, skillBounds
<1>11. ASSUME NEW enabled \in BOOLEAN, SetEnabled(enabled) PROVE SkillTypeOK'
  BY <1>11 DEF SetEnabled, SkillTypeOK, skillBounds, Entries
<1>12. CASE SkillRestart
  <2>1. ASSUME NEW v \in SkillVersions
        PROVE  [source |-> "zip", version |-> v, archive |-> package[v].archive,
                enabled |-> TRUE] \in Entries
    <3>1. package[v] \in Packages
      BY DEF SkillTypeOK
    <3>2. package[v].archive \in 0..MaxArchives
      BY <3>1 DEF Packages
    <3> QED  BY <3>2 DEF Entries, Sources
  <2>2. entry' \in Entries
    BY <1>12, <2>1 DEF SkillRestart
  <2>3. restarts' \in 0..MaxRestarts
    BY <1>12 DEF SkillRestart, SkillTypeOK
  <2> QED  BY <1>12, <2>2, <2>3 DEF SkillRestart, SkillTypeOK
<1> QED  BY <1>2, <1>3, <1>4, <1>5, <1>6, <1>7, <1>8, <1>9, <1>10, <1>11, <1>12 DEF SkillNext

-----------------------------------------------------------------------------


\* What a request's step does to the workers on a version: at most one joins,
\* and if there was one the version counts as clashed.
LEMMA WorkersMove ==
    ASSUME SkillTypeOK, SkillNext
    PROVE  \A v \in SkillVersions \ clashed' :
              \/ Working(v)' \subseteq Working(v)
              \/ Working(v) = {} /\ \E s \in SkillRequests : Working(v)' \subseteq {s}
<1> SUFFICES ASSUME NEW v \in SkillVersions, v \notin clashed'
             PROVE  \/ Working(v)' \subseteq Working(v)
                    \/ Working(v) = {} /\ \E s \in SkillRequests : Working(v)' \subseteq {s}
  OBVIOUS
<1> USE DEF SkillTypeOK
<1>1. ASSUME NEW s \in SkillRequests, InstallZip(s) \/ RemoveSkill(s)
      PROVE  \/ Working(v)' \subseteq Working(v)
             \/ Working(v) = {} /\ Working(v)' \subseteq {s}
  <2>1. \A t \in SkillRequests \ {s} : spc'[t] = spc[t] /\ task'[t] = task[t]
    BY <1>1 DEF InstallZip, RemoveSkill
  <2>2. Working(v)' \subseteq Working(v) \cup {s}
    BY <2>1 DEF Working
  <2>3. CASE s \in Working(v)'
    <3>1. CASE InstallZip(s)
      <4>1. task'[s].version = v
        BY <2>3 DEF Working
      <4>2. PICK w \in SkillVersions, sound \in BOOLEAN, force \in BOOLEAN :
               /\ task' = [task EXCEPT ![s] =
                      [version |-> w, archive |-> archives', sound |-> sound, force |-> force]]
               /\ Clash(w)
        BY <3>1 DEF InstallZip
      <4>3. w = v
        BY <4>1, <4>2
      <4>4. Working(v) = {}
        BY <4>2, <4>3 DEF Clash
      <4> QED  BY <2>2, <4>4
    <3>2. CASE RemoveSkill(s)
      <4>1. entry.source = "zip" /\ entry.version = v
        <5>1. entry.source = "zip"
          BY <2>3, <3>2 DEF RemoveSkill, Working, SkillAt
        <5> QED  BY <2>3, <3>2, <5>1 DEF RemoveSkill, Working, NoTask
      <4>2. Working(v) = {}
        BY <3>2, <4>1 DEF RemoveSkill, Clash
      <4> QED  BY <2>2, <4>2
    <3> QED  BY <1>1, <3>1, <3>2
  <2> QED  BY <2>2, <2>3
<1>2. ASSUME NEW s \in SkillRequests,
             \/ StatTarget(s) \/ RemoveTarget(s) \/ Rename(s) \/ WritePackageInfo(s)
             \/ Store(s) \/ Upload(s) \/ RemovePackage(s)
      PROVE  Working(v)' \subseteq Working(v)
  BY <1>2 DEF StatTarget, RemoveTarget, Rename, WritePackageInfo, Store, Upload, RemovePackage,
              Working, SkillAt, SkillEnds, SkillGoes
<1>3. ASSUME NEW s \in SkillRequests, LoadEntry(s) PROVE Working(v)' \subseteq Working(v)
  <2>1. \A t \in SkillRequests :
           \/ spc'[t] = spc[t] /\ task'[t].version = task[t].version
           \/ t = s /\ (spc'[t] = "idle" \/ task'[t].version = task[t].version)
    BY <1>3, SkillMoves DEF LoadEntry, SkillEnds, Tasks
  <2> QED  BY <1>3, <2>1 DEF LoadEntry, Working, SkillAt
<1>4. ASSUME NEW enabled \in BOOLEAN, SetEnabled(enabled) PROVE Working(v)' \subseteq Working(v)
  BY <1>4 DEF SetEnabled, Working
<1>5. CASE SkillRestart
  BY <1>5 DEF SkillRestart, Working
<1> QED  BY <1>1, <1>2, <1>3, <1>4, <1>5 DEF SkillNext

\* So a version without a clash has one worker at most.
LEMMA SoleWorkerStep ==
    ASSUME SkillTypeOK, SoleWorker, SkillNext PROVE SoleWorker'
<1> SUFFICES ASSUME NEW v \in SkillVersions, v \notin clashed'
             PROVE  \A s, t \in Working(v)' : s = t
  BY DEF SoleWorker
<1>1. v \in clashed => SkillRestart /\ Working(v)' = {}
  BY DEF SkillNext, InstallZip, StatTarget, RemoveTarget, Rename, WritePackageInfo, LoadEntry,
         Store, Upload, RemoveSkill, RemovePackage, SetEnabled, SkillRestart, Clash, Working,
         skillHistory
<1> QED  BY <1>1, WorkersMove DEF SoleWorker

\* What the user has disabled stays disabled.
LEMMA DisabledStep ==
    ASSUME SkillTypeOK, StaysDisabled, SkillNext PROVE StaysDisabled'
<1> USE DEF StaysDisabled, SkillTypeOK, skillHistory, skillBounds
<1>1. ASSUME NEW s \in SkillRequests, Store(s) PROVE StaysDisabled'
  BY <1>1 DEF Store
<1>2. ASSUME NEW enabled \in BOOLEAN, SetEnabled(enabled) PROVE StaysDisabled'
  BY <1>2 DEF SetEnabled, Entries
<1>3. ASSUME NEW s \in SkillRequests,
             \/ InstallZip(s) \/ StatTarget(s) \/ RemoveTarget(s) \/ Rename(s)
             \/ WritePackageInfo(s) \/ LoadEntry(s) \/ Upload(s) \/ RemovePackage(s)
      PROVE  StaysDisabled'
  BY <1>3 DEF InstallZip, StatTarget, RemoveTarget, Rename, WritePackageInfo, LoadEntry, Upload,
              RemovePackage
<1>4. ASSUME NEW s \in SkillRequests, RemoveSkill(s) PROVE StaysDisabled'
  BY <1>4 DEF RemoveSkill
<1>5. CASE SkillRestart
  BY <1>5 DEF SkillRestart
<1> QED  BY <1>1, <1>2, <1>3, <1>4, <1>5 DEF SkillNext

\* A request that works alone on a version finds its files as they were, and
\* the skill is not registered with them behind its back.
LEMMA OthersUndisturbed ==
    ASSUME SkillTypeOK, SoleWorker, NEW s \in SkillRequests, NEW t \in SkillRequests, s # t,
           spc[t] \in {"rename", "store", "delete"}, task[t].version \notin clashed,
           \/ InstallZip(s) \/ StatTarget(s) \/ RemoveTarget(s) \/ Rename(s) \/ WritePackageInfo(s)
           \/ LoadEntry(s) \/ Store(s) \/ Upload(s) \/ RemoveSkill(s) \/ RemovePackage(s)
    PROVE  /\ spc'[t] = spc[t] /\ task'[t] = task[t]
           /\ package'[task[t].version] = package[task[t].version]
           /\ entry'.source = "zip" /\ entry'.version = task[t].version =>
                 entry.source = "zip" /\ entry.version = task[t].version
<1> DEFINE v == task[t].version
<1>1. v \in SkillVersions /\ t \in Working(v)
  BY SkillMoves DEF Working
<1>2. s \notin Working(v)
  BY <1>1 DEF SoleWorker
<1>3. spc'[t] = spc[t] /\ task'[t] = task[t]
  BY DEF SkillTypeOK, InstallZip, StatTarget, RemoveTarget, Rename, WritePackageInfo, LoadEntry,
         Store, Upload, RemoveSkill, RemovePackage, SkillEnds, SkillGoes
<1>4. package'[v] = package[v]
  <2>1. CASE RemoveTarget(s) \/ Rename(s) \/ WritePackageInfo(s) \/ LoadEntry(s) \/ RemovePackage(s)
    <3>1. task[s].version # v
      BY <1>2, <2>1 DEF Working, RemoveTarget, Rename, WritePackageInfo, LoadEntry, RemovePackage,
                        SkillAt
    <3> QED  BY <1>1, <2>1, <3>1, SkillMoves
             DEF SkillTypeOK, RemoveTarget, Rename, WritePackageInfo, LoadEntry, RemovePackage, Delete
  <2> QED  BY <2>1 DEF InstallZip, StatTarget, Store, Upload, RemoveSkill
<1>5. ASSUME entry'.source = "zip", entry'.version = v PROVE entry.source = "zip" /\ entry.version = v
  <2>1. CASE Store(s)
    <3>1. SkillAt(s, "store") /\ task[s].version = v
      BY <1>5, <2>1 DEF Store
    <3> QED  BY <1>2, <3>1 DEF Working, SkillAt
  <2>2. ~RemoveSkill(s)
    BY <1>5 DEF RemoveSkill, NoEntry
  <2> QED  BY <1>5, <2>1, <2>2 DEF InstallZip, StatTarget, RemoveTarget, Rename, WritePackageInfo,
              LoadEntry, Upload, RemovePackage
<1> QED  BY <1>3, <1>4, <1>5

\* What the only worker on a version has seen of it stays as it saw it.
LEMMA WorkerSeesStep ==
    ASSUME SkillTypeOK, SoleWorker, WorkerSees, SkillNext PROVE WorkerSees'
<1> DEFINE Sees(t) ==
      LET v == task[t].version
      IN  v \notin clashed =>
            /\ spc[t] = "rename" => package[v] = NoPackage
            /\ spc[t] = "store" => package[v].sound /\ package[v].archive = task[t].archive
            /\ spc[t] = "delete" => ~(entry.source = "zip" /\ entry.version = v)
<1>0. \A t \in SkillRequests : Sees(t)
  BY DEF WorkerSees
<1> SUFFICES ASSUME NEW t \in SkillRequests PROVE Sees(t)'
  BY DEF WorkerSees
<1>1. ASSUME NEW s \in SkillRequests, s # t,
             \/ InstallZip(s) \/ StatTarget(s) \/ RemoveTarget(s) \/ Rename(s) \/ WritePackageInfo(s)
             \/ LoadEntry(s) \/ Store(s) \/ Upload(s) \/ RemoveSkill(s) \/ RemovePackage(s)
      PROVE  Sees(t)'
  <2>1. clashed \subseteq clashed' /\ spc'[t] = spc[t] /\ task'[t] = task[t]
    BY <1>1 DEF SkillTypeOK, InstallZip, StatTarget, RemoveTarget, Rename, WritePackageInfo,
         LoadEntry, Store, Upload, RemoveSkill, RemovePackage, SkillEnds, SkillGoes, Clash,
         skillHistory
  <2> QED  BY <1>0, <1>1, <2>1, OthersUndisturbed
<1>2. CASE InstallZip(t) \/ WritePackageInfo(t) \/ Upload(t)
  BY <1>2 DEF SkillTypeOK, InstallZip, WritePackageInfo, Upload, SkillEnds, SkillGoes
<1>3. CASE Store(t) \/ RemovePackage(t)
  BY <1>3 DEF SkillTypeOK, Store, RemovePackage, SkillEnds
<1>4. CASE StatTarget(t) \/ Rename(t)
  BY <1>4 DEF SkillTypeOK, StatTarget, Rename, SkillEnds, SkillGoes
<1>5. CASE RemoveTarget(t)
  BY <1>5, SkillMoves DEF SkillTypeOK, RemoveTarget, Delete, SkillGoes
<1>6. CASE LoadEntry(t)
  BY <1>6, SkillMoves DEF SkillTypeOK, LoadEntry, SkillEnds, Tasks
<1>7. CASE RemoveSkill(t)
  BY <1>7 DEF SkillTypeOK, RemoveSkill, NoEntry, SkillAt
<1>8. ASSUME NEW enabled \in BOOLEAN, SetEnabled(enabled) PROVE Sees(t)'
  BY <1>0, <1>8 DEF SetEnabled, SkillTypeOK, Entries
<1>9. CASE SkillRestart
  BY <1>9 DEF SkillRestart
<1> QED  BY <1>1, <1>2, <1>3, <1>4, <1>5, <1>6, <1>7, <1>8, <1>9 DEF SkillNext

\* A registered package stays on the disk as long as nobody works on its version.
LEMMA ThereStep ==
    ASSUME SkillInv, SkillNext PROVE ThereUntilChanged'
<1> USE DEF SkillInv
<1> SUFFICES ASSUME NEW v \in SkillVersions, entry'.source = "zip", entry'.version = v,
                    v \notin clashed', v \notin lost', Changing(v)' = {}
             PROVE  package'[v].archive = entry'.archive /\ package'[v].sound
  <2>1. entry'.version \in SkillVersions
    BY SkillTypes DEF SkillTypeOK, Entries
  <2> QED  BY <2>1 DEF ThereUntilChanged, Changing, Working
<1> DEFINE There == package[v].archive = entry.archive /\ package[v].sound
<1>0. entry.version \in SkillVersions
  BY DEF SkillTypeOK, Entries
<1>1. ASSUME entry.source = "zip", entry.version = v, entry'.archive = entry.archive,
             v \notin clashed, v \notin lost, package'[v] = package[v],
             Changing(v) \subseteq Changing(v)'
      PROVE  There'
  BY <1>1 DEF ThereUntilChanged
<1>2. ASSUME NEW s \in SkillRequests, InstallZip(s) PROVE There'
  <2>1. Changing(v) \subseteq Changing(v)'
    BY <1>2 DEF InstallZip, SkillTypeOK, SkillAt, Changing, Working
  <2>2. clashed \subseteq clashed'
    BY <1>2 DEF InstallZip, Clash
  <2> QED  BY <1>1, <1>2, <2>1, <2>2 DEF InstallZip
<1>3. ASSUME NEW s \in SkillRequests, StatTarget(s) PROVE There'
  <2>1. Changing(v) \subseteq Changing(v)'
    BY <1>3 DEF StatTarget, SkillTypeOK, SkillAt, Changing, Working, SkillGoes, SkillEnds
  <2> QED  BY <1>1, <1>3, <2>1 DEF StatTarget, skillHistory
<1>4. ASSUME NEW s \in SkillRequests, Upload(s) PROVE There'
  <2>1. Changing(v) \subseteq Changing(v)'
    BY <1>4 DEF Upload, SkillTypeOK, SkillAt, Changing, Working
  <2> QED  BY <1>1, <1>4, <2>1 DEF Upload, skillHistory
<1>5. ASSUME NEW s \in SkillRequests,
             RemoveTarget(s) \/ Rename(s) \/ WritePackageInfo(s) \/ LoadEntry(s)
      PROVE  There'
  <2> DEFINE u == task[s].version
  <2>1. /\ entry' = entry /\ clashed' = clashed
        /\ \A w \in SkillVersions \ {u} : package'[w] = package[w]
        /\ lost \subseteq lost'
    BY <1>5, SkillMoves DEF SkillTypeOK, RemoveTarget, Rename, WritePackageInfo, LoadEntry, Delete,
            skillHistory
  <2>2. u # v
    <3> SUFFICES ASSUME u = v PROVE FALSE
      OBVIOUS
    <3>1. CASE spc'[s] = "idle"
      <4>1. Rename(s) => package[u] = NoPackage
        BY <1>5, <2>1, <3>1 DEF WorkerSees, SkillAt, Rename
      <4>2. v \in lost'
        BY <1>5, <3>1, <4>1 DEF SkillTypeOK, RemoveTarget, Rename, WritePackageInfo, LoadEntry,
                                SkillGoes, SkillEnds
      <4> QED  BY <4>2
    <3>2. CASE spc'[s] # "idle"
      <4>1. spc'[s] \in {"rename", "info", "load", "store"} /\ task'[s].version = u
        BY <1>5, <3>2, SkillMoves DEF SkillTypeOK, RemoveTarget, Rename, WritePackageInfo, LoadEntry,
                                SkillGoes, SkillEnds, Tasks
      <4>2. s \in Changing(v)'
        BY <4>1 DEF Changing, Working
      <4> QED  BY <4>2
    <3> QED  BY <3>1, <3>2
  <2>3. Changing(v) \subseteq Changing(v)'
    BY <1>5, <2>2 DEF SkillTypeOK, RemoveTarget, Rename, WritePackageInfo, LoadEntry, SkillGoes,
                      SkillEnds, Changing, Working
  <2> QED  BY <1>0, <1>1, <2>1, <2>2, <2>3
<1>6. ASSUME NEW s \in SkillRequests, Store(s) PROVE There'
  <2>1. SkillAt(s, "store") /\ v = task[s].version /\ entry'.archive = task[s].archive
    BY <1>6 DEF Store
  <2>2. clashed' = clashed /\ package' = package
    BY <1>6 DEF Store
  <2> QED  BY <2>1, <2>2 DEF WorkerSees, SkillAt
<1>7. ASSUME NEW s \in SkillRequests, RemoveSkill(s) PROVE There'
  BY <1>7 DEF RemoveSkill, NoEntry
<1>8. ASSUME NEW s \in SkillRequests, RemovePackage(s) PROVE There'
  <2>1. entry' = entry /\ clashed' = clashed /\ lost' = lost /\ task[s].version # v
    BY <1>8 DEF RemovePackage, skillHistory, WorkerSees, SkillAt
  <2>2. Changing(v) \subseteq Changing(v)' /\ package'[v] = package[v]
    BY <1>0, <1>8, <2>1 DEF RemovePackage, Delete, SkillTypeOK, SkillAt, SkillEnds, Changing, Working
  <2> QED  BY <1>1, <2>1, <2>2
<1>9. ASSUME NEW enabled \in BOOLEAN, SetEnabled(enabled) PROVE There'
  <2>1. entry.source = "zip" /\ entry.version = v /\ entry'.archive = entry.archive
    BY <1>9 DEF SetEnabled, SkillTypeOK, Entries
  <2> QED  BY <1>1, <1>9, <2>1 DEF SetEnabled, Changing, Working
<1>10. CASE SkillRestart
  <2>1. entry' # NoEntry
    BY DEF NoEntry
  <2>2. PICK w \in SkillVersions : /\ package[w].sound
          /\ entry' = [source |-> "zip", version |-> w, archive |-> package[w].archive, enabled |-> TRUE]
    BY <1>10, <2>1 DEF SkillRestart
  <2> QED  BY <1>10, <2>2 DEF SkillRestart
<1> QED  BY <1>2, <1>3, <1>4, <1>5, <1>6, <1>7, <1>8, <1>9, <1>10 DEF SkillNext

\* Nothing is registered and nobody is at work to begin with.
LEMMA SkillInitially == SkillInit => SkillInv
<1> SUFFICES ASSUME SkillInit PROVE SkillInv
  OBVIOUS
<1>1. SkillTypeOK
  <2>1. /\ 0 \in 0..MaxArchives /\ 0 \in 0..MaxRestarts
    BY SkillConstants
  <2> QED  BY <2>1, SkillConstants DEF SkillInit, SkillTypeOK
<1>2. Unstamped = {} /\ \A v \in SkillVersions : Working(v) = {}
  BY DEF SkillInit, Unstamped, Working
<1>3. StampPerArchive
  BY <1>2, FS_EmptySet DEF SkillInit, StampPerArchive
<1>4. WorkerSees /\ ThereUntilChanged /\ StaysDisabled
  BY DEF SkillInit, WorkerSees, ThereUntilChanged, StaysDisabled, NoEntry
<1> QED  BY <1>1, <1>2, <1>3, <1>4 DEF SkillInv, SoleWorker

\* The inductive invariant of the skill manager, for any requests, versions
\* and archives.
THEOREM SkillInvariant == SkillSpec => []SkillInv
<1>1. SkillInv /\ [SkillNext]_skillVars => SkillInv'
  <2>1. CASE SkillNext
    BY <2>1, SkillStamps, SkillTypes, SoleWorkerStep, WorkerSeesStep, ThereStep, DisabledStep
       DEF SkillInv
  <2>2. CASE UNCHANGED skillVars
    BY <2>2 DEF skillVars, skillBounds, skillHistory, SkillInv, SkillTypeOK, StampPerArchive,
       SoleWorker, WorkerSees, ThereUntilChanged, StaysDisabled, Unstamped, Working, Changing
  <2> QED  BY <2>1, <2>2
<1> QED  BY <1>1, SkillInitially, PTL DEF SkillSpec

\* 
THEOREM SkillsKept == SkillSpec => []SkillsAreKept
<1>1. SkillInv => SkillsAreKept
  <2> SUFFICES ASSUME SkillInv PROVE RegisteredIsThere
    BY DEF SkillInv, SkillsAreKept
  <2>1. Changing(entry.version) \subseteq Working(entry.version)
    BY DEF Changing
  <2> QED  BY <2>1 DEF SkillInv, ThereUntilChanged, RegisteredIsThere
<1> QED  BY <1>1, SkillInvariant, PTL

-----------------------------------------------------------------------------
(* The memory store *)

ItemKinds == {"create", "archive", "restore", "delete"}

\* What a request that is at a stage has been asked to do.
JobsFit ==
    /\ \A r \in MemRequests :
         /\ mempc[r] = "idle" => job[r] = NoJob
         /\ mempc[r] \in {"read", "truncate", "fill"} => job[r].kind \in ItemKinds
         /\ mempc[r] = "read" /\ job[r].kind # "create" => job[r].item \in MemItems
         /\ mempc[r] \in {"truncate", "fill"} => job[r].item \in MemItems
         /\ mempc[r] = "reindex" => job[r].kind \in ItemKinds \cup {"reindex"}
         /\ mempc[r] = "review" => job[r].review # NoReview
         /\ job[r].review # NoReview => job[r].kind \in {"create", "reject"}
         /\ job[r].kind = "reject" => mempc[r] = "review"
    /\ \A i \in MemItems : i > memItems => origin[i] = NoReview

\* As long as requests have not overlapped, one at most has the file in its
\* hands; its copy is the file as it was meant with its own change, and the
\* file is empty while it writes and as it was meant otherwise.
FileInHand ==
    ~disturbed =>
        /\ \A r, t \in Holding : r = t
        /\ \A r \in Holding :
             doc[r] = [last EXCEPT !.item[job[r].item] = Becomes(job[r].kind)]
        /\ \A r \in MemRequests : mempc[r] = "fill" => file = EmptyFile

Made(v) == {i \in MemItems : origin[i] = v}

\* A decision on a candidate that nobody else decides on, and what it has made.
DecisionsKept ==
    \A v \in MemReviews \ muddled :
        /\ \A r, t \in DecidingOn(v) : r = t
        /\ \A r \in DecidingOn(v) :
             /\ job[r].kind = "create" => reviews[v] = "pending"
             /\ job[r].kind = "create" /\ mempc[r] = "read" => Made(v) = {}
             /\ job[r].kind = "create" /\ mempc[r] # "read" => Made(v) = {job[r].item}
             /\ job[r].kind = "reject" => Made(v) = {} /\ reviews[v] \in {"pending", "rejected"}
        /\ DecidingOn(v) = {} => (reviews[v] # "applied" => Made(v) = {})
        /\ reviews[v] = "applied" => \E i \in MemItems : Made(v) = {i}

MemInv ==
    MemTypeOK /\ JobsFit /\ FileInHand /\ DecisionsKept /\ OneAfterTheOther /\ IndexHasActive

\* The bounds are natural numbers.
LEMMA MemConstants ==
    /\ EmptyFile \in Documents /\ NoJob \in Jobs /\ NoReview \notin MemReviews
    /\ MaxMemItems \in Nat /\ MaxMemOps \in Nat /\ MaxMemFaults \in Nat /\ MemItems \subseteq Nat
    /\ \A k \in ItemKinds : Becomes(k) \in ItemStatus
  BY MemAssumption DEF EmptyFile, Documents, ItemStatus, NoJob, Jobs, NoReview, MemItems, ItemKinds,
     Becomes

\* The files agree with each other to begin with.
LEMMA MemInitially == MemInit => MemInv
<1> SUFFICES ASSUME MemInit PROVE MemInv
  OBVIOUS
<1>1. file \in Documents
  BY MemConstants DEF MemInit, EmptyFile, Documents
<1>2. MemTypeOK
  <2>1. 0 \in 0..MaxMemItems /\ 0 \in 0..MaxMemOps /\ 0 \in 0..MaxMemFaults
    BY MemConstants
  <2>2. last \in Documents
    BY <1>1 DEF MemInit
  <2>3. origin \in [MemItems -> MemReviews \cup {NoReview}]
    BY DEF MemInit
  <2> QED  BY <1>1, <2>1, <2>2, <2>3, MemConstants DEF MemInit, MemTypeOK
<1>3. JobsFit
  BY DEF MemInit, JobsFit, NoJob
<1>4. Holding = {} /\ \A v \in MemReviews : DecidingOn(v) = {} /\ Made(v) = {}
  BY MemConstants DEF MemInit, Holding, DecidingOn, Made
<1>5. FileInHand /\ OneAfterTheOther
  BY <1>4 DEF MemInit, FileInHand, OneAfterTheOther
<1>6. DecisionsKept
  BY <1>4 DEF MemInit, DecisionsKept
<1>7. IndexHasActive
  BY DEF MemInit, IndexHasActive, Active, EmptyFile
<1> QED  BY <1>2, <1>3, <1>5, <1>6, <1>7 DEF MemInv

-----------------------------------------------------------------------------

\* The copy of an item is a document again.
LEMMA Changes ==
    ASSUME NEW d \in Documents, NEW i \in MemItems, NEW s \in ItemStatus
    PROVE  /\ [d EXCEPT !.item[i] = s] \in Documents
           /\ [d EXCEPT !.item[i] = s].legacy = d.legacy
           /\ [d EXCEPT !.item[i] = s].item = [d.item EXCEPT ![i] = s]
  BY DEF Documents

\* The variables of the memory store keep their types.
LEMMA MemTypes == ASSUME MemTypeOK, JobsFit, MemNext PROVE MemTypeOK'
<1> USE MemConstants DEF MemTypeOK, MemGoto, memFiles, memLocal, memBounds, memHistory
<1>1. ASSUME NEW v \in MemReviews, CreateReview(v) PROVE MemTypeOK'
  BY <1>1 DEF CreateReview
<1>2. ASSUME NEW r \in MemRequests, NEW v \in MemReviews, ApproveReview(r, v) \/ RejectReview(r, v)
      PROVE  MemTypeOK'
  <2>1. Job("create", 0, v) \in Jobs /\ Job("reject", 0, v) \in Jobs
    BY DEF Job, Jobs
  <2>2. job' \in [MemRequests -> Jobs]
    BY <1>2, <2>1 DEF ApproveReview, RejectReview, Begin
  <2>3. memOps' \in 0..MaxMemOps
    BY <1>2 DEF ApproveReview, RejectReview, Begin
  <2>4. muddled' \subseteq MemReviews
    BY <1>2 DEF ApproveReview, RejectReview
  <2> QED  BY <1>2, <2>2, <2>3, <2>4 DEF ApproveReview, RejectReview, Begin
<1>3. ASSUME NEW r \in MemRequests, BeginItem(r) PROVE MemTypeOK'
  <2>1. /\ Job("create", 0, NoReview) \in Jobs /\ Job("reindex", 0, NoReview) \in Jobs
        /\ \A i \in MemItems, k \in {"archive", "restore", "delete"} : Job(k, i, NoReview) \in Jobs
    BY DEF Job, Jobs, MemItems
  <2>2. \E j \in Jobs, stage \in {"read", "reindex"} : Begin(r, j, stage)
    BY <1>3, <2>1, Zenon DEF BeginItem
  <2>3. UNCHANGED <<memFiles, doc, memItems, memFaults, memHistory>>
    BY <1>3 DEF BeginItem
  <2> QED  BY <2>2, <2>3 DEF Begin
<1>4. ASSUME NEW r \in MemRequests, ReadItem(r) PROVE MemTypeOK'
  <2> DEFINE i == IF job[r].kind = "create" THEN memItems + 1 ELSE job[r].item
  <2>1. CASE mempc'[r] = "idle"
    BY <1>4, <2>1 DEF ReadItem
  <2>2. CASE mempc'[r] # "idle"
    <3>1. i \in MemItems /\ job[r].kind \in ItemKinds /\ job[r].review \in MemReviews \cup {NoReview}
      BY <1>4, <2>2 DEF ReadItem, JobsFit, MemItems, Jobs
    <3>2. [file EXCEPT !.item[i] = Becomes(job[r].kind)] \in Documents
      BY <3>1, Changes
    <3>3. [job[r] EXCEPT !.item = i] \in Jobs
      BY <3>1 DEF Jobs, MemItems
    <3>4. /\ doc' = [doc EXCEPT ![r] = [file EXCEPT !.item[i] = Becomes(job[r].kind)]]
          /\ job' = [job EXCEPT ![r] = [job[r] EXCEPT !.item = i]]
          /\ memItems' = IF job[r].kind = "create" THEN i ELSE memItems
          /\ origin' = [origin EXCEPT ![i] = IF job[r].kind = "create" THEN job[r].review ELSE @]
          /\ mempc' = [mempc EXCEPT ![r] = "truncate"] /\ disturbed' \in BOOLEAN
      BY <1>4, <2>2 DEF ReadItem
    <3>5. memItems' \in 0..MaxMemItems
      BY <3>1, <3>4 DEF MemItems
    <3>6. origin' \in [MemItems -> MemReviews \cup {NoReview}]
      BY <3>1, <3>4
    <3> QED  BY <1>4, <3>2, <3>3, <3>4, <3>5, <3>6 DEF ReadItem
  <2> QED  BY <2>1, <2>2
<1>5. ASSUME NEW r \in MemRequests, Truncate(r) PROVE MemTypeOK'
  BY <1>5 DEF Truncate
<1>6. ASSUME NEW r \in MemRequests, Fill(r) PROVE MemTypeOK'
  <2>1. last' \in Documents
    <3>1. job[r].item \in MemItems /\ Becomes(job[r].kind) \in ItemStatus
      BY <1>6 DEF Fill, JobsFit
    <3> QED  BY <1>6, <3>1, Changes DEF Fill
  <2>2. file' \in Documents
    <3>1. doc[r] \in Documents
      OBVIOUS
    <3> QED  BY <1>6, <3>1 DEF Fill, Documents
  <2> QED  BY <1>6, <2>1, <2>2 DEF Fill
<1>7. ASSUME NEW r \in MemRequests, Reindex(r) PROVE MemTypeOK'
  BY <1>7 DEF Reindex, Active
<1>8. ASSUME NEW r \in MemRequests, ReindexFails(r) PROVE MemTypeOK'
  <2>1. job[r].review \in MemReviews \cup {NoReview}
    BY DEF Jobs
  <2> QED  BY <1>8, <2>1 DEF ReindexFails
<1>9. ASSUME NEW r \in MemRequests, WriteReview(r) PROVE MemTypeOK'
  BY <1>9 DEF WriteReview
<1>10. CASE MemCrash
  <2>1. {job[r].review : r \in MemRequests} \subseteq MemReviews \cup {NoReview}
    BY DEF Jobs
  <2> QED  BY <1>10, <2>1 DEF MemCrash
<1> QED  BY <1>1, <1>2, <1>3, <1>4, <1>5, <1>6, <1>7, <1>8, <1>9, <1>10 DEF MemNext

\* A request stays one of the kind it was made as.
LEMMA JobsStep == ASSUME MemTypeOK, JobsFit, MemNext PROVE JobsFit'
<1> USE MemConstants DEF MemTypeOK, JobsFit, MemGoto, memFiles, memLocal, memBounds, memHistory, ItemKinds
<1>1. ASSUME NEW v \in MemReviews, CreateReview(v) PROVE JobsFit'
  BY <1>1 DEF CreateReview
<1>2. ASSUME NEW r \in MemRequests, NEW v \in MemReviews, ApproveReview(r, v) \/ RejectReview(r, v)
      PROVE  JobsFit'
  BY <1>2 DEF ApproveReview, RejectReview, Begin, Job, NoJob
<1>3. ASSUME NEW r \in MemRequests, BeginItem(r) PROVE JobsFit'
  BY <1>3 DEF BeginItem, Begin, Job, NoJob
<1>4. ASSUME NEW r \in MemRequests, ReadItem(r) PROVE JobsFit'
  <2> DEFINE i == IF job[r].kind = "create" THEN memItems + 1 ELSE job[r].item
  <2>1. CASE mempc'[r] = "idle"
    BY <1>4, <2>1 DEF ReadItem, NoJob
  <2>2. CASE mempc'[r] # "idle"
    <3>1. i \in MemItems /\ job[r] \in Jobs
      BY <1>4, <2>2 DEF ReadItem, MemItems, Jobs
    <3>2. /\ job' = [job EXCEPT ![r] = [job[r] EXCEPT !.item = i]]
          /\ memItems' = IF job[r].kind = "create" THEN i ELSE memItems
          /\ origin' = [origin EXCEPT ![i] = IF job[r].kind = "create" THEN job[r].review ELSE @]
          /\ mempc' = [mempc EXCEPT ![r] = "truncate"]
          /\ mempc[r] = "read"
      BY <1>4, <2>2 DEF ReadItem
    <3>3. \A j \in MemItems : j > memItems' => origin'[j] = NoReview
      BY <3>1, <3>2 DEF MemItems
    <3> QED  BY <3>1, <3>2, <3>3 DEF Jobs
  <2> QED  BY <2>1, <2>2
<1>5. ASSUME NEW r \in MemRequests, Truncate(r) PROVE JobsFit'
  BY <1>5 DEF Truncate
<1>6. ASSUME NEW r \in MemRequests, Fill(r) PROVE JobsFit'
  BY <1>6 DEF Fill
<1>7. ASSUME NEW r \in MemRequests, Reindex(r) PROVE JobsFit'
  BY <1>7 DEF Reindex, NoJob
<1>8. ASSUME NEW r \in MemRequests, ReindexFails(r) PROVE JobsFit'
  BY <1>8 DEF ReindexFails, NoJob
<1>9. ASSUME NEW r \in MemRequests, WriteReview(r) PROVE JobsFit'
  BY <1>9 DEF WriteReview, NoJob
<1>10. CASE MemCrash
  BY <1>10 DEF MemCrash, NoJob
<1> QED  BY <1>1, <1>2, <1>3, <1>4, <1>5, <1>6, <1>7, <1>8, <1>9, <1>10 DEF MemNext

\* Requests whose turns do not overlap find the file as the one before left it.
LEMMA FileStep == ASSUME MemInv, MemNext PROVE FileInHand' /\ OneAfterTheOther'
<1> USE DEF MemInv, MemTypeOK, MemGoto, memFiles, memLocal, memBounds, memHistory
<1> SUFFICES ASSUME ~disturbed' PROVE FileInHand' /\ OneAfterTheOther'
  BY DEF FileInHand, OneAfterTheOther
<1>1. ASSUME NEW v \in MemReviews, CreateReview(v) PROVE FileInHand' /\ OneAfterTheOther'
  BY <1>1 DEF CreateReview, FileInHand, OneAfterTheOther, Holding
<1>2. ASSUME NEW r \in MemRequests, NEW v \in MemReviews, ApproveReview(r, v) \/ RejectReview(r, v)
      PROVE  FileInHand' /\ OneAfterTheOther'
  BY <1>2 DEF ApproveReview, RejectReview, Begin, FileInHand, OneAfterTheOther, Holding
<1>3. ASSUME NEW r \in MemRequests, BeginItem(r) PROVE FileInHand' /\ OneAfterTheOther'
  <2>1. /\ mempc[r] = "idle" /\ mempc' \in {[mempc EXCEPT ![r] = "read"], [mempc EXCEPT ![r] = "reindex"]}
        /\ \E j \in Jobs \cup {job'[r]} : job' = [job EXCEPT ![r] = j]
        /\ UNCHANGED <<file, last, doc, disturbed>>
    BY <1>3 DEF BeginItem, Begin
  <2> QED  BY <2>1 DEF FileInHand, OneAfterTheOther, Holding
<1>4. ASSUME NEW r \in MemRequests, ReadItem(r) PROVE FileInHand' /\ OneAfterTheOther'
  <2> DEFINE i == IF job[r].kind = "create" THEN memItems + 1 ELSE job[r].item
  <2>1. UNCHANGED <<file, last>> /\ ~disturbed /\ mempc[r] = "read"
    BY <1>4 DEF ReadItem
  <2>2. CASE mempc'[r] = "idle"
    BY <1>4, <2>1, <2>2 DEF ReadItem, FileInHand, OneAfterTheOther, Holding
  <2>3. CASE mempc'[r] # "idle"
    <3>1. /\ Holding = {}
          /\ doc' = [doc EXCEPT ![r] = [file EXCEPT !.item[i] = Becomes(job[r].kind)]]
          /\ job' = [job EXCEPT ![r] = [job[r] EXCEPT !.item = i]]
          /\ mempc' = [mempc EXCEPT ![r] = "truncate"]
      BY <1>4, <2>3 DEF ReadItem
    <3>2. job[r] \in Jobs
      OBVIOUS
    <3>3. job'[r].item = i /\ job'[r].kind = job[r].kind
      BY <3>1, <3>2 DEF Jobs
    <3>4. \A t \in MemRequests : mempc[t] # "fill"
      BY <3>1 DEF Holding
    <3>5. file = last
      BY <2>1, <3>4 DEF OneAfterTheOther
    <3>6. Holding' = {r}
      BY <3>1 DEF Holding
    <3>7. doc'[r] = [last EXCEPT !.item[job'[r].item] = Becomes(job'[r].kind)]
      BY <3>1, <3>3, <3>5
    <3>8. \A t \in MemRequests : mempc'[t] # "fill"
      BY <3>1, <3>4
    <3>9. OneAfterTheOther'
      BY <2>1, <3>5 DEF OneAfterTheOther
    <3>10. FileInHand'
      BY <2>1, <3>6, <3>7, <3>8 DEF FileInHand
    <3> QED  BY <3>9, <3>10
  <2> QED  BY <2>2, <2>3
<1>5. ASSUME NEW r \in MemRequests, Truncate(r) PROVE FileInHand' /\ OneAfterTheOther'
  <2>1. Holding' = Holding /\ mempc'[r] = "fill"
    BY <1>5 DEF Truncate, Holding
  <2>2. OneAfterTheOther'
    BY <2>1 DEF OneAfterTheOther
  <2> QED  BY <1>5, <2>1, <2>2 DEF Truncate, FileInHand
<1>6. ASSUME NEW r \in MemRequests, Fill(r) PROVE FileInHand' /\ OneAfterTheOther'
  <2>1. ~disturbed /\ r \in Holding /\ doc[r] \in Documents /\ file = EmptyFile
    BY <1>6 DEF Fill, FileInHand, Holding
  <2>2. Holding' = {}
    BY <1>6, <2>1 DEF Fill, FileInHand, Holding
  <2>3. {i \in MemItems : file.item[i] # "none"} = {}
    BY <2>1 DEF EmptyFile
  <2>4. file' = [legacy |-> doc[r].legacy, item |-> [i \in MemItems |-> doc[r].item[i]]]
    BY <1>6, <2>3 DEF Fill
  <2>5. file' = doc[r]
    BY <2>1, <2>4 DEF Documents
  <2>6. last' = doc[r]
    BY <1>6, <2>1 DEF Fill, FileInHand
  <2> QED  BY <2>2, <2>5, <2>6 DEF FileInHand, OneAfterTheOther, Holding
<1>7. ASSUME NEW r \in MemRequests, Reindex(r) \/ ReindexFails(r) \/ WriteReview(r)
      PROVE  FileInHand' /\ OneAfterTheOther'
  BY <1>7 DEF Reindex, ReindexFails, WriteReview, FileInHand, OneAfterTheOther, Holding
<1>8. CASE MemCrash
  <2>1. ~disturbed /\ \A r \in MemRequests : mempc[r] # "fill"
    BY <1>8 DEF MemCrash
  <2> QED  BY <1>8, <2>1 DEF MemCrash, FileInHand, OneAfterTheOther, Holding
<1> QED  BY <1>1, <1>2, <1>3, <1>4, <1>5, <1>6, <1>7, <1>8 DEF MemNext

\* Whoever writes the file indexes it afterwards.
LEMMA IndexStep == ASSUME MemInv, MemNext PROVE IndexHasActive'
<1> USE DEF MemInv, MemTypeOK, MemGoto, memFiles, memLocal, memBounds, memHistory, IndexHasActive, Active
<1>1. ASSUME NEW v \in MemReviews, CreateReview(v) PROVE IndexHasActive'
  BY <1>1 DEF CreateReview
<1>2. ASSUME NEW r \in MemRequests, NEW v \in MemReviews, ApproveReview(r, v) \/ RejectReview(r, v)
      PROVE  IndexHasActive'
  BY <1>2 DEF ApproveReview, RejectReview, Begin
<1>3. ASSUME NEW r \in MemRequests, BeginItem(r) PROVE IndexHasActive'
  <2>1. /\ mempc[r] = "idle" /\ mempc' \in {[mempc EXCEPT ![r] = "read"], [mempc EXCEPT ![r] = "reindex"]}
        /\ UNCHANGED <<file, vectors, unindexed>>
    BY <1>3 DEF BeginItem, Begin
  <2> QED  BY <2>1
<1>4. ASSUME NEW r \in MemRequests, ReadItem(r) PROVE IndexHasActive'
  <2>1. /\ mempc[r] = "read" /\ mempc' \in {[mempc EXCEPT ![r] = "truncate"], [mempc EXCEPT ![r] = "idle"]}
        /\ UNCHANGED <<file, vectors, unindexed>>
    BY <1>4 DEF ReadItem
  <2> QED  BY <2>1
<1>5. ASSUME NEW r \in MemRequests, Truncate(r) \/ Fill(r) PROVE IndexHasActive'
  <2>1. mempc'[r] \in {"fill", "reindex"}
    BY <1>5 DEF Truncate, Fill
  <2> QED  BY <2>1
<1>6. ASSUME NEW r \in MemRequests, Reindex(r) \/ ReindexFails(r) \/ WriteReview(r)
      PROVE  IndexHasActive'
  BY <1>6 DEF Reindex, ReindexFails, WriteReview
<1>7. CASE MemCrash
  BY <1>7 DEF MemCrash
<1> QED  BY <1>1, <1>2, <1>3, <1>4, <1>5, <1>6, <1>7 DEF MemNext


\* A decision on a candidate goes step by step, unless a second one begins,
\* and then the candidate is muddled.
LEMMA DecisionsStep == ASSUME MemInv, MemNext PROVE DecisionsKept'
<1> DEFINE Decided(v) ==
        /\ \A r, t \in DecidingOn(v) : r = t
        /\ \A r \in DecidingOn(v) :
             /\ job[r].kind = "create" => reviews[v] = "pending"
             /\ job[r].kind = "create" /\ mempc[r] = "read" => Made(v) = {}
             /\ job[r].kind = "create" /\ mempc[r] # "read" => Made(v) = {job[r].item}
             /\ job[r].kind = "reject" => Made(v) = {} /\ reviews[v] \in {"pending", "rejected"}
        /\ DecidingOn(v) = {} => (reviews[v] # "applied" => Made(v) = {})
        /\ reviews[v] = "applied" => \E i \in MemItems : Made(v) = {i}
<1> USE MemConstants DEF MemInv, MemTypeOK, MemGoto, memFiles, memLocal, memBounds, memHistory
<1> SUFFICES ASSUME NEW v \in MemReviews, v \notin muddled' PROVE Decided(v)'
  BY DEF DecisionsKept
<1>0. v \notin muddled /\ Decided(v) /\ v # NoReview
  <2>1. muddled \subseteq muddled'
    BY DEF MemNext, CreateReview, ApproveReview, RejectReview, BeginItem, ReadItem, Truncate, Fill,
           Reindex, ReindexFails, WriteReview, MemCrash
  <2> QED  BY <2>1 DEF DecisionsKept
<1>a. \A r \in DecidingOn(v) : job[r].kind \in {"create", "reject"}
  BY <1>0 DEF DecidingOn, JobsFit
<1>b. ASSUME DecidingOn(v)' = DecidingOn(v), Made(v)' = Made(v), reviews'[v] = reviews[v],
             \A t \in DecidingOn(v) : job'[t] = job[t] /\ (mempc'[t] = "read") = (mempc[t] = "read")
      PROVE  Decided(v)'
  BY <1>0, <1>b
<1>c. DecidingOn(v) \subseteq MemRequests
  BY DEF DecidingOn
<1>1. ASSUME NEW w \in MemReviews, CreateReview(w) PROVE Decided(v)'
  <2>1. DecidingOn(v)' = DecidingOn(v) /\ Made(v)' = Made(v) /\ UNCHANGED <<job, mempc>>
    BY <1>1 DEF CreateReview, DecidingOn, Made
  <2>2. CASE w = v
    <3>1. DecidingOn(v) = {} /\ Made(v) = {}
      BY <1>0, <1>1, <1>a, <2>2 DEF CreateReview
    <3> QED  BY <1>1, <2>1, <2>2, <3>1 DEF CreateReview
  <2>3. CASE w # v
    BY <1>0, <1>1, <2>1, <2>3 DEF CreateReview
  <2> QED  BY <2>2, <2>3
<1>2. ASSUME NEW r \in MemRequests, NEW w \in MemReviews, ApproveReview(r, w) \/ RejectReview(r, w)
      PROVE  Decided(v)'
  <2>1. /\ Made(v)' = Made(v) /\ UNCHANGED reviews /\ mempc[r] = "idle"
        /\ \A t \in MemRequests \ {r} : job'[t] = job[t] /\ mempc'[t] = mempc[t]
        /\ r \notin DecidingOn(v)
    BY <1>2 DEF ApproveReview, RejectReview, Begin, DecidingOn, Made
  <2>2. CASE w = v
    <3>1. DecidingOn(v) = {} /\ DecidingOn(v)' = {r}
      BY <1>0, <1>2, <2>2 DEF ApproveReview, RejectReview, Begin, Job, DecidingOn
    <3>2. CASE ApproveReview(r, w)
      <4>1. reviews[v] = "pending" /\ job'[r].kind = "create" /\ mempc'[r] = "read"
        BY <2>2, <3>2 DEF ApproveReview, Begin, Job
      <4> QED  BY <1>0, <2>1, <3>1, <4>1
    <3>3. CASE RejectReview(r, w)
      <4>1. reviews[v] \in {"pending", "rejected"} /\ job'[r].kind = "reject"
        BY <2>2, <3>3 DEF RejectReview, Begin, Job
      <4> QED  BY <1>0, <2>1, <3>1, <4>1
    <3> QED  BY <1>2, <3>2, <3>3
  <2>3. CASE w # v
    <3>1. DecidingOn(v)' = DecidingOn(v)
      BY <1>2, <2>1, <2>3 DEF ApproveReview, RejectReview, Begin, Job, DecidingOn
    <3> QED  BY <1>b, <1>c, <2>1, <3>1
  <2> QED  BY <2>2, <2>3
<1>3. ASSUME NEW r \in MemRequests, BeginItem(r) PROVE Decided(v)'
  <2>1. /\ Made(v)' = Made(v) /\ UNCHANGED reviews /\ mempc[r] = "idle" /\ job'[r].review = NoReview
        /\ \A t \in MemRequests \ {r} : job'[t] = job[t] /\ mempc'[t] = mempc[t]
    BY <1>3 DEF BeginItem, Begin, Job, Made
  <2>2. DecidingOn(v)' = DecidingOn(v) /\ r \notin DecidingOn(v)
    BY <1>0, <2>1 DEF DecidingOn
  <2> QED  BY <1>b, <1>c, <2>1, <2>2
<1>4. ASSUME NEW r \in MemRequests, ReadItem(r) PROVE Decided(v)'
  <2> DEFINE i == IF job[r].kind = "create" THEN memItems + 1 ELSE job[r].item
  <2>1. /\ UNCHANGED reviews /\ mempc[r] = "read" /\ job[r] \in Jobs
        /\ \A t \in MemRequests \ {r} : job'[t] = job[t] /\ mempc'[t] = mempc[t]
    BY <1>4 DEF ReadItem
  <2>2. CASE mempc'[r] = "idle"
    <3>1. r \notin DecidingOn(v)
      BY <1>0, <1>4, <2>1, <2>2, <1>a DEF ReadItem, JobsFit, DecidingOn
    <3>2. DecidingOn(v)' = DecidingOn(v) /\ Made(v)' = Made(v)
      BY <1>4, <2>1, <2>2, <3>1 DEF ReadItem, DecidingOn, Made
    <3> QED  BY <1>b, <1>c, <2>1, <3>1, <3>2
  <2>3. CASE mempc'[r] # "idle"
    <3>1. /\ i \in MemItems
          /\ job' = [job EXCEPT ![r] = [job[r] EXCEPT !.item = i]]
          /\ origin' = [origin EXCEPT ![i] = IF job[r].kind = "create" THEN job[r].review ELSE @]
          /\ mempc' = [mempc EXCEPT ![r] = "truncate"]
      BY <1>4, <2>1, <2>3 DEF ReadItem, MemItems, JobsFit
    <3>2. job'[r].item = i /\ job'[r].kind = job[r].kind /\ job'[r].review = job[r].review
      BY <2>1, <3>1 DEF Jobs
    <3>3. DecidingOn(v)' = DecidingOn(v)
      BY <2>1, <3>1, <3>2 DEF DecidingOn
    <3>4. CASE job[r].kind # "create"
      <4>1. Made(v)' = Made(v)
        BY <3>1, <3>4 DEF Made
      <4>2. r \notin DecidingOn(v)
        BY <2>1, <3>4, <1>a DEF JobsFit
      <4> QED  BY <1>b, <1>c, <2>1, <3>3, <4>1, <4>2
    <3>5. CASE job[r].kind = "create" /\ job[r].review = v
      <4>1. r \in DecidingOn(v)
        BY <2>1, <3>5 DEF DecidingOn
      <4>2. Made(v) = {} /\ reviews[v] = "pending"
        BY <1>0, <2>1, <3>5, <4>1
      <4>3. Made(v)' = {i}
        BY <3>1, <3>5, <4>2 DEF Made
      <4>4. \A t \in DecidingOn(v) : t = r
        BY <1>0, <4>1
      <4> QED  BY <1>0, <2>1, <3>1, <3>2, <3>3, <3>5, <4>1, <4>2, <4>3, <4>4
    <3>6. CASE job[r].kind = "create" /\ job[r].review # v
      <4>1. origin[i] = NoReview
        BY <3>1, <3>6 DEF JobsFit, MemItems
      <4>2. Made(v)' = Made(v)
        BY <1>0, <3>1, <3>6, <4>1 DEF Made
      <4>3. r \notin DecidingOn(v)
        BY <3>6 DEF DecidingOn
      <4> QED  BY <1>b, <1>c, <2>1, <3>3, <4>2, <4>3
    <3> QED  BY <3>4, <3>5, <3>6
  <2> QED  BY <2>2, <2>3
<1>5. ASSUME NEW r \in MemRequests, Truncate(r) \/ Fill(r) PROVE Decided(v)'
  <2>1. /\ UNCHANGED <<reviews, job>> /\ Made(v)' = Made(v) /\ DecidingOn(v)' = DecidingOn(v)
        /\ \A t \in MemRequests : (mempc'[t] = "read") = (mempc[t] = "read")
    BY <1>5 DEF Truncate, Fill, Made, DecidingOn
  <2> QED  BY <1>b, <1>c, <2>1
<1>6. ASSUME NEW r \in MemRequests, Reindex(r) PROVE Decided(v)'
  <2>1. /\ UNCHANGED reviews /\ Made(v)' = Made(v)
        /\ \A t \in MemRequests : (mempc'[t] = "read") = (mempc[t] = "read")
        /\ \A t \in MemRequests \ {r} : job'[t] = job[t] /\ mempc'[t] = mempc[t]
    BY <1>6 DEF Reindex, Made
  <2>2. DecidingOn(v)' = DecidingOn(v)
    BY <1>0, <1>6, <2>1 DEF Reindex, DecidingOn, NoJob
  <2>3. \A t \in DecidingOn(v) : job'[t] = job[t]
    BY <1>0, <1>6, <2>1 DEF Reindex, DecidingOn
  <2> QED  BY <1>b, <1>c, <2>1, <2>2, <2>3
<1>7. ASSUME NEW r \in MemRequests, ReindexFails(r) PROVE Decided(v)'
  <2>1. /\ UNCHANGED reviews /\ Made(v)' = Made(v) /\ r \notin DecidingOn(v)
        /\ \A t \in MemRequests \ {r} : job'[t] = job[t] /\ mempc'[t] = mempc[t]
        /\ mempc'[r] = "idle"
    BY <1>0, <1>7 DEF ReindexFails, Made, DecidingOn
  <2>2. DecidingOn(v)' = DecidingOn(v)
    BY <2>1 DEF DecidingOn
  <2> QED  BY <1>b, <1>c, <2>1, <2>2
<1>8. ASSUME NEW r \in MemRequests, WriteReview(r) PROVE Decided(v)'
  <2>1. /\ mempc[r] = "review" /\ mempc'[r] = "idle" /\ Made(v)' = Made(v)
        /\ \A t \in MemRequests \ {r} : job'[t] = job[t] /\ mempc'[t] = mempc[t]
        /\ job[r].review \in MemReviews
    BY <1>8 DEF WriteReview, Made, JobsFit, Jobs
  <2>2. CASE job[r].review # v
    <3>1. reviews'[v] = reviews[v]
      BY <1>8, <2>1, <2>2 DEF WriteReview
    <3>2. DecidingOn(v)' = DecidingOn(v) /\ r \notin DecidingOn(v)
      BY <2>1, <2>2 DEF DecidingOn
    <3> QED  BY <1>b, <1>c, <2>1, <3>1, <3>2
  <2>3. CASE job[r].review = v
    <3>1. r \in DecidingOn(v) /\ DecidingOn(v)' = {}
      BY <1>0, <2>1, <2>3 DEF DecidingOn
    <3>2. CASE job[r].kind = "reject"
      <4>1. reviews'[v] = "rejected"
        BY <1>8, <2>3, <3>2 DEF WriteReview
      <4> QED  BY <1>0, <2>1, <3>1, <3>2, <4>1
    <3>3. CASE job[r].kind = "create"
      <4>1. reviews'[v] = "applied"
        BY <1>8, <2>3, <3>3 DEF WriteReview
      <4>2. Made(v) = {job[r].item}
        BY <1>0, <2>1, <3>1, <3>3
      <4>3. job[r].item \in MemItems
        BY <4>2 DEF Made
      <4> QED  BY <2>1, <3>1, <4>1, <4>2, <4>3
    <3> QED  BY <3>1, <3>2, <3>3, <1>a
  <2> QED  BY <2>2, <2>3
<1>9. CASE MemCrash
  <2>1. /\ UNCHANGED reviews /\ Made(v)' = Made(v) /\ DecidingOn(v)' = {} /\ DecidingOn(v) = {}
    BY <1>0, <1>9 DEF MemCrash, Made, DecidingOn
  <2> QED  BY <1>0, <2>1
<1> QED  BY <1>1, <1>2, <1>3, <1>4, <1>5, <1>6, <1>7, <1>8, <1>9 DEF MemNext

\* The inductive invariant of the memory store.
THEOREM MemInvariant == MemSpec => []MemInv
<1>1. MemInv /\ [MemNext]_memVars => MemInv'
  <2>1. CASE MemNext
    BY <2>1, MemTypes, JobsStep, FileStep, IndexStep, DecisionsStep DEF MemInv
  <2>2. CASE UNCHANGED memVars
    BY <2>2 DEF memVars, memFiles, memLocal, memBounds, memHistory, MemInv, MemTypeOK, JobsFit,
       FileInHand, DecisionsKept, OneAfterTheOther, IndexHasActive, Active, Holding, DecidingOn, Made
  <2> QED  BY <2>1, <2>2
<1> QED  BY <1>1, MemInitially, PTL DEF MemSpec

\* A candidate becomes one item at most, and only by an approval, as long as
\* the decisions on it do not overlap and none fails half-way.
LEMMA DecidedOnceHolds == MemInv => DecidedOnce
<1> SUFFICES ASSUME MemInv, NEW v \in MemReviews \ muddled
             PROVE  /\ Cardinality(Made(v)) <= 1
                    /\ reviews[v] \in {"none", "rejected"} => Made(v) = {}
                    /\ reviews[v] = "applied" => Made(v) # {}
                    /\ reviews[v] = "pending" /\ DecidingOn(v) = {} => Made(v) = {}
  BY DEF DecidedOnce, Made
<1>1. \A r \in DecidingOn(v) : job[r].kind \in {"create", "reject"}
  BY MemConstants DEF DecidingOn, MemInv, JobsFit
<1>2. Made(v) = {} \/ \E i : Made(v) = {i}
  BY <1>1 DEF MemInv, DecisionsKept
<1>3. Cardinality(Made(v)) \in {0, 1}
  BY <1>2, FS_EmptySet, FS_Singleton
<1> QED  BY <1>1, <1>3 DEF MemInv, DecisionsKept

\* Whatever is done to the memories, the file keeps what nobody meant to
\* change, the index follows it, and each decision is what became of its candidate.
THEOREM MemoryKept == MemSpec => []MemoryIsKept
<1>1. MemInv => MemoryIsKept
  BY DecidedOnceHolds DEF MemInv, MemoryIsKept
<1> QED  BY <1>1, MemInvariant, PTL

-----------------------------------------------------------------------------
(* The start of the server *)

\* The server is starting or up.
Running == startpc \notin {"off", "refused"}

\* It has a configuration that was validated.
Configured == cfg \in File /\ cfg.backend \in Backends /\ ValidateRuntime(cfg)

\* How far the index of a role is opened, and what has been found of its
\* collections by then.
Opening ==
    /\ startpc = "health" => Backend \in {"qdrant", "pinecone"}
    /\ startpc = "ensure" => Backend \in {"qdrant", "openai"}
    /\ startpc \in {"drop", "create"} =>
          Backend = "qdrant" /\ cur \in toEnsure /\ remote[cur].size # cfg.size
    /\ startpc = "drop" => cfg.recreate \/ ~remote[cur].points
    /\ startpc \in {"health", "ensure", "drop", "create"} /\ Backend = "qdrant" =>
          \A s \in Scopes \ toEnsure : remote[s].size = cfg.size

\* Which of the two indexes are open, and as what.
OpenedSoFar ==
    /\ role = "memory" => opened["kb"] = "none"
    /\ role = "memory" /\ startpc \notin {"reindex", "serving"} => opened["memory"] = "none"
    /\ role = "kb" => cfg.kb
    /\ startpc = "reindex" => role = "memory"
    /\ role = "memory" /\ startpc = "serving" => ~cfg.kb
    /\ role = "kb" => opened["kb"] = IF startpc = "serving" THEN cfg.provider ELSE "none"
    /\ role = "kb" \/ startpc \in {"reindex", "serving"} =>
          opened["memory"] = cfg.backend \/ (opened["memory"] = "memory" /\ cfg.fallback)

\* A Qdrant that is in use has collections of the configured size ...
Fits ==
    \A r \in Roles : opened[r] = "qdrant" => \A s \in Scopes : remote[s].size = cfg.size

\* ... and the memory is in it once it has been indexed.
IndexKept ==
    role = "kb" \/ startpc = "serving" =>
        (opened["memory"] = "qdrant" /\ ~troubled => remote["memory"].points)

StartInv ==
    /\ StartTypeOK /\ wiped = {} /\ RefusedForAReason
    /\ Running => Configured /\ Opening /\ OpenedSoFar /\ Fits /\ IndexKept

\* What is loaded has the type of a configuration, and names a backend.
LEMMA Loads ==
    ASSUME NEW raw \in RawConfig
    PROVE  Load(raw) \in File /\ Load(raw).backend \in Backends
<1>0. raw.file \in File /\ raw.env \in Environment
  BY DEF RawConfig
<1>1. ASSUME NEW flag \in Flag, NEW value \in BOOLEAN PROVE Over(flag, value) \in BOOLEAN
  BY <1>1 DEF Over
<1>2. applyEnv(raw.file, raw.env) \in File
  <2> DEFINE kb == Over(raw.env.kb, raw.file.kb)
             recreate == Over(raw.env.recreate, raw.file.recreate)
             provider == IF raw.env.provider = "unset" THEN raw.file.provider ELSE raw.env.provider
             key == IF raw.env.pineconeKey = "unset" THEN raw.file.pineconeKey
                    ELSE raw.env.pineconeKey = "set"
             stores == raw.file.stores \cup raw.env.stores
  <2>1. kb \in BOOLEAN /\ recreate \in BOOLEAN /\ key \in BOOLEAN
    BY <1>0, <1>1 DEF File, Environment
  <2>2. provider \in {""} \cup Backends /\ stores \in SUBSET Scopes
    BY <1>0 DEF File, Environment
  <2>3. applyEnv(raw.file, raw.env) =
           [raw.file EXCEPT !.kb = kb, !.recreate = recreate, !.provider = provider,
                            !.pineconeKey = key, !.stores = stores]
    BY Zenon DEF applyEnv
  <2> HIDE DEF kb, recreate, provider, key, stores
  <2> QED  BY <1>0, <2>1, <2>2, <2>3 DEF File
<1>3. ASSUME NEW p \in Provider, NEW default \in {"mock", "fake"} PROVE withName(p, default) \in Provider
  BY <1>3 DEF withName, Provider
<1>4. ASSUME NEW c \in File PROVE normalizeModelProviders(c) \in File
  <2> DEFINE llm == [withName(c.llm, "mock") EXCEPT
                   !.url = @ \/ withName(c.llm, "mock").name \in {"ollama", "openai_compatible"}]
             emb == withName(c.embeddings, "fake")
             new == CASE emb.name = "ollama" -> [emb EXCEPT !.url = TRUE]
                    [] emb.name = "openai_compatible" ->
                          [emb EXCEPT !.url = @ \/ llm.url, !.key = @ \/ llm.key]
                    [] OTHER -> emb
  <2>1. withName(c.llm, "mock") \in Provider /\ emb \in Provider
    BY <1>3, <1>4 DEF File
  <2>2. llm \in Provider
    BY <2>1 DEF Provider
  <2> HIDE DEF llm, emb
  <2>3. new \in Provider
    <3>1. CASE emb.name = "ollama"
      BY <2>1, <3>1 DEF Provider
    <3>2. CASE emb.name = "openai_compatible"
      BY <2>1, <2>2, <3>2 DEF Provider
    <3>3. CASE emb.name \notin {"ollama", "openai_compatible"}
      BY <2>1, <3>3
    <3> QED  BY <3>1, <3>2, <3>3
  <2>4. normalizeModelProviders(c) = [c EXCEPT !.llm = llm, !.embeddings = new]
    BY DEF normalizeModelProviders, llm, emb
  <2> HIDE DEF new
  <2> QED  BY <1>4, <2>2, <2>3, <2>4 DEF File
<1>5. ASSUME NEW c \in File PROVE normalizeKnowledgeProviders(c) \in File
  BY <1>5 DEF normalizeKnowledgeProviders, File, Provider
<1>6. normalizeKnowledgeProviders(normalizeModelProviders(applyEnv(raw.file, raw.env))) \in File
  BY <1>2, <1>4, <1>5
<1> QED  BY <1>6 DEF Load, File, Backends

\* What is validated has an embedder, and all that its backends are made with,
\* but for the address of the memory's Qdrant.
LEMMA Validated ==
    ASSUME NEW c \in File, ValidateRuntime(c)
    PROVE  /\ NewEmbedder(c)
           /\ c.kb => c.provider \in Backends \ {"memory"}
           /\ c.backend = "pinecone" => c.pineconeHost /\ c.pineconeKey
           /\ c.backend = "openai" => c.openaiKey
           /\ c.kb /\ c.provider = "qdrant" => c.qdrantURL
           /\ c.kb /\ c.provider = "pinecone" => c.pineconeHost /\ c.pineconeKey
           /\ c.kb /\ c.provider = "openai" => c.openaiKey
<1>1. NewEmbedder(c)
  BY DEF ValidateRuntime, ValidateModelProviders, NewEmbedder
<1>2. c.kb => c.provider \in Backends \ {"memory"}
  BY DEF ValidateRuntime, ValidateKnowledgeBase, Backends
<1>3. /\ c.backend = "pinecone" => c.pineconeHost /\ c.pineconeKey
      /\ c.backend = "openai" => c.openaiKey
  BY DEF ValidateRuntime, validateVector
<1>4. /\ c.kb /\ c.provider = "qdrant" => c.qdrantURL
      /\ c.kb /\ c.provider = "pinecone" => c.pineconeHost /\ c.pineconeKey
      /\ c.kb /\ c.provider = "openai" => c.openaiKey
  BY DEF ValidateRuntime, ValidateKnowledgeBase
<1> QED  BY <1>1, <1>2, <1>3, <1>4

\* Nothing has been started to begin with.
LEMMA StartStart == StartInit => StartInv
<1> SUFFICES ASSUME StartInit PROVE StartInv
  OBVIOUS
<1>1. remote \in [Scopes -> Collection]
  BY StartupAssumption DEF StartInit
<1>2. startpc = "off" /\ refusal = "none" /\ wiped = {}
  BY DEF StartInit
<1>3. StartTypeOK
  <2>1. opened \in [Roles -> {"none"} \cup Backends] /\ role \in Roles
    BY DEF StartInit, Roles, Unopened
  <2>2. 0 \in 0..MaxStarts /\ 0 \in 0..MaxStartFaults
    BY StartupAssumption
  <2> QED  BY <1>1, <2>1, <2>2 DEF StartInit, StartTypeOK
<1> QED  BY <1>2, <1>3 DEF StartInv, RefusedForAReason, Running

Stages == {"off", "refused", "construct", "health", "ensure", "drop", "create", "reindex", "serving"}
Refusals == {"none", "config", "embedder", "constructor", "request", "unknown", "dimension"}

\* What a step is to leave behind, the other types apart.
Sound ==
    /\ startpc \in Stages /\ refusal \in Refusals /\ opened \in [Roles -> {"none"} \cup Backends]
    /\ RefusedForAReason
    /\ Running => Configured /\ Opening /\ OpenedSoFar /\ Fits /\ IndexKept

\* The backend of the index that is opened is one there is.
LEMMA BackendIsOne ==
    ASSUME StartInv, Running
    PROVE  /\ Backend \in Backends /\ cfg \in File /\ role \in Roles
           /\ role = "kb" => Backend # "memory"
<1>1. Configured /\ OpenedSoFar /\ role \in Roles
  BY DEF StartInv, StartTypeOK
<1>2. cfg.kb => cfg.provider \in Backends \ {"memory"}
  BY <1>1, Validated DEF Configured
<1> QED  BY <1>1, <1>2 DEF Configured, OpenedSoFar, Backend, Roles

\* An index is opened as what was configured, or in the process if the
\* operator agreed: over collections that fit.
LEMMA IndexOpens ==
    ASSUME StartInv, Running, startpc \notin {"reindex", "serving"}, NEW index, OpenedAs(index),
           UNCHANGED <<cfg, role>>,
           index = Backend \/ (index = "memory" /\ role = "memory" /\ cfg.fallback),
           index = "qdrant" => \A s \in Scopes : remote'[s].size = cfg.size,
           (\E r \in Roles : opened[r] = "qdrant") => remote' = remote,
           troubled => troubled'
    PROVE  Sound'
<1>1. Configured /\ OpenedSoFar /\ Fits /\ IndexKept /\ role \in Roles /\ refusal \in Refusals
      /\ opened \in [Roles -> {"none"} \cup Backends]
  BY DEF StartInv, StartTypeOK, Refusals
<1>2. /\ opened' = [opened EXCEPT ![role] = index]
      /\ startpc' = IF role = "memory" THEN "reindex" ELSE "serving"
      /\ refusal' = refusal
  BY DEF OpenedAs
<1>3. index \in Backends
  BY BackendIsOne DEF Backends
<1>4. opened' \in [Roles -> {"none"} \cup Backends] /\ opened'[role] = index
  BY <1>1, <1>2, <1>3
<1>5. startpc' \in Stages /\ RefusedForAReason' /\ Configured'
  BY <1>1, <1>2 DEF RefusedForAReason, Configured, Stages
<1>6. Opening'
  BY <1>2 DEF Opening
<1>7. CASE role = "memory"
  <2>1. opened'["kb"] = "none" /\ opened'["memory"] = index /\ startpc' = "reindex" /\ role' = "memory"
    BY <1>1, <1>2, <1>7 DEF OpenedSoFar, Roles
  <2>2. OpenedSoFar'
    BY <1>7, <2>1 DEF OpenedSoFar, Backend
  <2>3. Fits' /\ IndexKept'
    BY <2>1 DEF Fits, IndexKept, Roles
  <2> QED  BY <1>1, <1>2, <1>4, <1>5, <1>6, <2>2, <2>3 DEF Sound
<1>8. CASE role = "kb"
  <2>1. /\ opened'["kb"] = index /\ opened'["memory"] = opened["memory"] /\ startpc' = "serving"
        /\ role' = "kb" /\ index = cfg.provider
    BY <1>1, <1>2, <1>8 DEF Roles, Backend
  <2>2. OpenedSoFar'
    BY <1>1, <1>8, <2>1 DEF OpenedSoFar
  <2>3. Fits'
    BY <1>1, <2>1 DEF Fits, Roles
  <2>4. IndexKept'
    BY <1>1, <1>8, <2>1 DEF IndexKept, Roles
  <2> QED  BY <1>1, <1>2, <1>4, <1>5, <1>6, <2>2, <2>3, <2>4 DEF Sound
<1> QED  BY <1>1, <1>7, <1>8 DEF Roles

\* What may be the reason for which an index is not there.
Reason(why) ==
    /\ why \in {"constructor", "request", "unknown", "dimension"}
    /\ why = "constructor" => ~Constructs(Backend)
    /\ why = "request" => troubled'
    /\ why \in {"unknown", "dimension"} => Backend = "qdrant"

\* An index that is not there is replaced by the process's memory, or the start
\* is refused for a reason.
LEMMA IndexUnavailable ==
    ASSUME StartInv, Running, startpc \notin {"reindex", "serving"}, NEW why, Unavailable(why),
           UNCHANGED <<cfg, role>>, Reason(why),
           (\E r \in Roles : opened[r] = "qdrant") => remote' = remote,
           troubled => troubled'
    PROVE  Sound'
<1>1. CASE OpenedAs("memory") /\ role = "memory" /\ cfg.fallback
  BY <1>1, IndexOpens
<1>2. CASE RefuseStart(why) /\ UNCHANGED opened
  <2>1. startpc' = "refused" /\ refusal' = why
    BY <1>2 DEF RefuseStart
  <2>2. Configured /\ OpenedSoFar /\ role \in Roles /\ opened \in [Roles -> {"none"} \cup Backends]
    BY DEF StartInv, StartTypeOK
  <2>3. why = "constructor" => role = "memory" /\ cfg.backend = "qdrant" /\ ~cfg.qdrantURL
    BY <2>2, Validated DEF Reason, Constructs, Backend, Configured, OpenedSoFar, Roles, Backends
  <2>4. RefusedForAReason'
    BY <2>1, <2>2, <2>3 DEF RefusedForAReason, Reason, Backend
  <2> QED  BY <1>2, <2>1, <2>2, <2>4 DEF Sound, Running, Stages, Refusals, Reason
<1> QED  BY <1>1, <1>2 DEF Unavailable

\* A step from a configuration that stays leaves it validated.
LEMMA RunningParts ==
    ASSUME StartInv, Running
    PROVE  /\ Configured /\ Opening /\ OpenedSoFar /\ Fits /\ IndexKept
           /\ remote \in [Scopes -> Collection] /\ role \in Roles /\ refusal \in Refusals
           /\ opened \in [Roles -> {"none"} \cup Backends] /\ toEnsure \subseteq Scopes
           /\ troubled \in BOOLEAN
  BY DEF StartInv, StartTypeOK, Refusals

\* A configuration that was validated is refused for nothing else.
LEMMA ProcessStarts == ASSUME StartInv, NEW raw \in StartConfigs, StartProcess(raw) PROVE Sound'
<1>1. raw \in RawConfig
  BY StartupAssumption
<1>2. /\ opened' = Unopened /\ role' = "memory" /\ remote' = remote
      /\ opened' \in [Roles -> {"none"} \cup Backends]
      /\ opened'["kb"] = "none" /\ opened'["memory"] = "none"
  BY DEF StartProcess, Unopened, Roles
<1>3. CASE startpc' = "refused" /\ refusal' = "config"
  BY <1>2, <1>3 DEF Sound, RefusedForAReason, Running, Stages, Refusals
<1>4. CASE ~(startpc' = "refused" /\ refusal' = "config")
  <2>1. cfg' = Load(raw) /\ ValidateRuntime(cfg')
    BY <1>4 DEF StartProcess, RefuseStart
  <2>2. cfg' \in File /\ cfg'.backend \in Backends
    BY <1>1, <2>1, Loads
  <2> DEFINE c == cfg'
  <2>3. NewEmbedder(c)
    <3> HIDE DEF c
    <3> SUFFICES c \in File /\ ValidateRuntime(c)
      BY Validated
    <3> QED  BY <2>1, <2>2 DEF c
  <2>4. startpc' = "construct" /\ refusal' = "none"
    BY <1>4, <2>1, <2>3 DEF StartProcess, RefuseStart
  <2>5. Configured' /\ RefusedForAReason'
    BY <2>1, <2>2, <2>4 DEF Configured, RefusedForAReason
  <2>6. Opening' /\ OpenedSoFar' /\ Fits' /\ IndexKept'
    BY <1>2, <2>4 DEF Opening, OpenedSoFar, Fits, IndexKept, Roles
  <2> QED  BY <1>2, <2>4, <2>5, <2>6 DEF Sound, Stages, Refusals
<1> QED  BY <1>3, <1>4

\* A stage of the opening that comes after another, with nothing opened yet.
LEMMA StartGoesOn ==
    ASSUME StartInv, Running, startpc \notin {"reindex", "serving"}, UNCHANGED <<cfg, role, opened, refusal>>,
           startpc' \in {"health", "ensure", "drop", "create"}, Opening',
           (\E r \in Roles : opened[r] = "qdrant") => remote' = remote,
           troubled' = troubled
    PROVE  Sound'
<1>1. Configured' /\ RefusedForAReason' /\ startpc' \in Stages
  BY RunningParts DEF Configured, RefusedForAReason, Stages
<1>2. OpenedSoFar'
  BY RunningParts DEF OpenedSoFar, Roles
<1>3. Fits' /\ IndexKept'
  BY RunningParts DEF Fits, IndexKept, Roles
<1> QED  BY <1>1, <1>2, <1>3, RunningParts DEF Sound

\* The index of a role is constructed, or its constructor refuses the configuration.
LEMMA IndexConstructed == ASSUME StartInv, NewVectorIndex PROVE Sound'
<1>1. Running /\ startpc = "construct" /\ UNCHANGED <<remote, cfg, role, troubled>> /\ Backend \in Backends
  BY BackendIsOne DEF NewVectorIndex, NoTrouble, Running
<1>2. CASE Backend = "memory"
  BY <1>1, <1>2, IndexOpens DEF NewVectorIndex
<1>3. CASE Backend # "memory" /\ ~Constructs(Backend)
  BY <1>1, <1>3, IndexUnavailable DEF NewVectorIndex, Reason
<1>4. CASE Backend # "memory" /\ Constructs(Backend)
  <2>1. /\ startpc' = IF Backend = "openai" THEN "ensure" ELSE "health"
        /\ UNCHANGED <<opened, refusal>>
        /\ toEnsure' = IF Backend = "openai" THEN cfg.stores ELSE Scopes
    BY <1>4 DEF NewVectorIndex
  <2>2. Opening'
    BY <1>1, <1>4, <2>1 DEF Opening, Backend, Backends
  <2> QED  BY <1>1, <2>1, <2>2, StartGoesOn
<1> QED  BY <1>2, <1>3, <1>4

\* The server of the index has answered, or has not.
LEMMA HealthChecked == ASSUME StartInv, CheckHealth PROVE Sound'
<1>1. Running /\ startpc = "health" /\ UNCHANGED <<remote, cfg, role, toEnsure>> /\ Backend \in {"qdrant", "pinecone"}
  BY RunningParts DEF CheckHealth, Running, Opening
<1>2. CASE RequestFails
  <2>1. Unavailable("request") /\ troubled' = TRUE
    BY <1>2 DEF RequestFails
  <2> QED  BY <1>1, <2>1, IndexUnavailable DEF Reason
<1>3. CASE Backend = "pinecone" /\ OpenedAs("pinecone") /\ NoTrouble
  BY <1>1, <1>3, IndexOpens DEF NoTrouble
<1>4. CASE Backend # "pinecone" /\ startpc' = "ensure" /\ UNCHANGED <<opened, refusal>> /\ NoTrouble
  <2>1. Opening'
    BY <1>1, <1>4, RunningParts DEF Opening, Backend
  <2> QED  BY <1>1, <1>4, <2>1, StartGoesOn DEF NoTrouble
<1> QED  BY <1>2, <1>3, <1>4 DEF CheckHealth

\* One collection is looked at.
LEMMA Ensures == ASSUME StartInv, NEW s \in toEnsure, EnsureCollection(s) PROVE Sound'
<1>1. /\ Running /\ startpc = "ensure" /\ UNCHANGED <<remote, cfg, role>>
      /\ Backend \in {"qdrant", "openai"} /\ s \in Scopes /\ remote[s] \in Collection
  BY RunningParts DEF EnsureCollection, Running, Opening
<1>2. CASE RequestFails
  <2>1. Unavailable("request") /\ troubled' = TRUE
    BY <1>2 DEF RequestFails
  <2> QED  BY <1>1, <2>1, IndexUnavailable DEF Reason
<1>3. CASE NoTrouble /\ (Backend = "openai" \/ remote[s].size = cfg.size) /\ Ensured(s)
  <2>1. toEnsure' = toEnsure \ {s} /\ UNCHANGED <<startpc, opened, refusal>>
    BY <1>3 DEF Ensured
  <2>2. Opening'
    BY <1>1, <1>3, <2>1, RunningParts DEF Opening, Backend
  <2> QED  BY <1>1, <1>3, <2>1, <2>2, StartGoesOn DEF NoTrouble
<1>4. CASE /\ NoTrouble /\ Backend # "openai" /\ remote[s].size # cfg.size /\ UNCHANGED toEnsure
           /\ CASE remote[s].size = "absent" ->
                       startpc' = "create" /\ cur' = s /\ UNCHANGED <<opened, refusal>>
                [] remote[s].size = "unknown" -> Unavailable("unknown") /\ UNCHANGED cur
                [] remote[s].size \in Sizes ->
                       IF MayDrop(remote[s])
                       THEN startpc' = "drop" /\ cur' = s /\ UNCHANGED <<opened, refusal>>
                       ELSE Unavailable("dimension") /\ UNCHANGED cur
  <2>1. Backend = "qdrant" /\ remote[s].size \in {"absent", "unknown"} \cup Sizes
    BY <1>1, <1>4 DEF Collection
  <2>2. \/ startpc' = "create" /\ cur' = s /\ UNCHANGED <<opened, refusal>>
        \/ Unavailable("unknown")
        \/ startpc' = "drop" /\ MayDrop(remote[s]) /\ cur' = s /\ UNCHANGED <<opened, refusal>>
        \/ Unavailable("dimension")
    BY <1>4, <2>1 DEF Sizes
  <2>3. CASE Unavailable("unknown") \/ Unavailable("dimension")
    BY <1>1, <1>4, <2>1, <2>3, IndexUnavailable DEF Reason, NoTrouble
  <2>4. CASE /\ startpc' = "create" \/ (startpc' = "drop" /\ MayDrop(remote[s]))
             /\ cur' = s /\ UNCHANGED <<opened, refusal>>
    <3>1. Opening'
      BY <1>1, <1>4, <2>1, <2>4, RunningParts DEF Opening, Backend, MayDrop
    <3> QED  BY <1>1, <1>4, <2>4, <3>1, StartGoesOn DEF NoTrouble
  <2> QED  BY <2>2, <2>3, <2>4
<1> QED  BY <1>2, <1>3, <1>4 DEF EnsureCollection

\* Every collection has been looked at, and the index is open.
LEMMA EnsuredAll == ASSUME StartInv, AllEnsured PROVE Sound'
<1>1. /\ Running /\ startpc = "ensure" /\ toEnsure = {} /\ UNCHANGED <<remote, cfg, role>> /\ OpenedAs(Backend)
      /\ troubled' = troubled
  BY DEF AllEnsured, Running, NoTrouble
<1>2. Backend = "qdrant" => \A s \in Scopes : remote'[s].size = cfg.size
  BY <1>1, RunningParts DEF Opening
<1> QED  BY <1>1, <1>2, IndexOpens

\* A Qdrant that is in use has no collection that is dropped or created.
LEMMA NotInUse ==
    ASSUME StartInv, startpc \in {"drop", "create"}
    PROVE  /\ Running /\ ~\E r \in Roles : opened[r] = "qdrant"
           /\ Backend = "qdrant" /\ cur \in Scopes
  BY RunningParts DEF Running, Opening, Fits

\* A collection of another size is dropped; it held nothing, unless the operator
\* asked for it.
LEMMA Drops == ASSUME StartInv, DropCollection PROVE Sound' /\ wiped' = {}
<1>1. /\ startpc = "drop" /\ UNCHANGED <<cfg, role, toEnsure, cur>>
      /\ cfg.recreate \/ ~remote[cur].points
  BY NotInUse, RunningParts DEF DropCollection, Opening
<1>2. wiped' = {}
  BY <1>1 DEF DropCollection, StartInv
<1>3. CASE RequestFails
  <2>1. Unavailable("request") /\ troubled' = TRUE
    BY <1>3 DEF RequestFails
  <2> QED  BY <1>1, <1>2, <2>1, NotInUse, IndexUnavailable DEF Reason
<1>4. CASE /\ remote' = [remote EXCEPT ![cur] = NoCollection] /\ startpc' = "create"
           /\ UNCHANGED <<opened, refusal>> /\ NoTrouble
  <2>1. cfg.size \in Sizes
    BY <1>1, NotInUse, RunningParts DEF Configured, File
  <2>2. remote'[cur].size = "absent" /\ \A s \in Scopes : s # cur => remote'[s] = remote[s]
    BY <1>1, <1>4, NotInUse, RunningParts DEF NoCollection
  <2>3. Opening'
    BY <1>1, <1>4, <2>1, <2>2, NotInUse, RunningParts DEF Opening, Backend, Sizes
  <2> QED  BY <1>1, <1>2, <1>4, <2>3, NotInUse, StartGoesOn DEF NoTrouble
<1> QED  BY <1>3, <1>4 DEF DropCollection

\* A collection of the configured size is created.
LEMMA Creates == ASSUME StartInv, createCollection PROVE Sound'
<1>1. startpc = "create" /\ UNCHANGED <<cfg, role>> /\ toEnsure' = toEnsure \ {cur}
  BY DEF createCollection
<1>2. CASE RequestFails
  <2>1. Unavailable("request") /\ troubled' = TRUE
    BY <1>2 DEF RequestFails
  <2> QED  BY <1>1, <2>1, NotInUse, IndexUnavailable DEF Reason
<1>3. CASE /\ remote' = [remote EXCEPT ![cur] = [size |-> cfg.size, points |-> FALSE, counted |-> TRUE]]
           /\ startpc' = "ensure" /\ UNCHANGED <<opened, refusal>> /\ NoTrouble
  <2>1. remote'[cur].size = cfg.size /\ \A s \in Scopes : s # cur => remote'[s] = remote[s]
    BY <1>1, <1>3, NotInUse, RunningParts
  <2>2. Opening'
    BY <1>1, <1>3, <2>1, NotInUse, RunningParts DEF Opening, Backend
  <2> QED  BY <1>1, <1>3, <2>2, NotInUse, StartGoesOn DEF NoTrouble
<1> QED  BY <1>2, <1>3 DEF createCollection

\* Points that are put into a collection change nothing else of it.
LEMMA FillsOnly ==
    ASSUME NEW s \in Scopes, remote \in [Scopes -> Collection], remote' \in {remote, Filled(s)}
    PROVE  /\ remote' \in [Scopes -> Collection]
           /\ \A t \in Scopes : remote'[t].size = remote[t].size
           /\ \A t \in Scopes : remote[t].points => remote'[t].points
           /\ remote' = Filled(s) => remote'[s].points
<1>1. \A t \in Scopes : remote[t] \in Collection
  OBVIOUS
<1>2. \A c \in Collection : /\ [c EXCEPT !.points = TRUE] \in Collection
                            /\ [c EXCEPT !.points = TRUE].size = c.size
                            /\ [c EXCEPT !.points = TRUE].points
  BY DEF Collection
<1>3. Filled(s)[s] = [remote[s] EXCEPT !.points = TRUE]
      /\ \A t \in Scopes \ {s} : Filled(s)[t] = remote[t]
  BY DEF Filled
<1>4. Filled(s) \in [Scopes -> Collection]
  BY <1>1, <1>2 DEF Filled
<1> QED  BY <1>1, <1>2, <1>3, <1>4

\* The memory is put into its index, and the knowledge base is next.
LEMMA Reindexes == ASSUME StartInv, ReindexMemory PROVE Sound'
<1>1. /\ Running /\ startpc = "reindex" /\ UNCHANGED <<cfg, toEnsure, cur, opened, refusal>>
      /\ role = "memory" /\ "memory" \in Scopes
      /\ \/ cfg.kb /\ startpc' = "construct" /\ role' = "kb"
         \/ ~cfg.kb /\ startpc' = "serving" /\ role' = role
  BY RunningParts, StartupAssumption DEF ReindexMemory, Running, OpenedSoFar
<1>2. /\ remote' \in {remote, Filled("memory")}
      /\ \/ troubled' = TRUE
         \/ opened["memory"] = "qdrant" => remote' = Filled("memory")
  BY DEF ReindexMemory, NoTrouble
<1>3. /\ \A t \in Scopes : remote'[t].size = remote[t].size
      /\ remote' = Filled("memory") => remote'["memory"].points
  BY <1>1, <1>2, FillsOnly, RunningParts
<1>4. Configured' /\ RefusedForAReason' /\ startpc' \in Stages
  BY <1>1, RunningParts DEF Configured, RefusedForAReason, Stages
<1>5. Opening'
  BY <1>1 DEF Opening
<1>6. OpenedSoFar'
  BY <1>1, RunningParts DEF OpenedSoFar
<1>7. Fits' /\ IndexKept'
  BY <1>1, <1>2, <1>3, RunningParts DEF Fits, IndexKept
<1> QED  BY <1>1, <1>4, <1>5, <1>6, <1>7, RunningParts DEF Sound

\* A document that is indexed changes no size.
LEMMA Indexes == ASSUME StartInv, IndexDocument PROVE Sound'
<1>1. /\ Running /\ startpc = "serving" /\ "kb" \in Scopes /\ "memory" \in Scopes
      /\ UNCHANGED <<startpc, cfg, role, toEnsure, cur, opened, refusal, troubled>>
      /\ remote' = Filled("kb")
  BY StartupAssumption DEF IndexDocument, Running
<1>2. /\ \A t \in Scopes : remote'[t].size = remote[t].size
      /\ \A t \in Scopes : remote[t].points => remote'[t].points
  BY <1>1, FillsOnly, RunningParts
<1>3. Configured' /\ RefusedForAReason' /\ startpc' \in Stages
  BY <1>1, RunningParts DEF Configured, RefusedForAReason, Stages
<1>4. Opening' /\ OpenedSoFar'
  BY <1>1, RunningParts DEF Opening, OpenedSoFar
<1>5. Fits' /\ IndexKept'
  BY <1>1, <1>2, RunningParts DEF Fits, IndexKept
<1> QED  BY <1>1, <1>3, <1>4, <1>5, RunningParts DEF Sound

\* A process that has ended has no index open.
LEMMA ProcessEnds == ASSUME StartInv, EndProcess PROVE Sound'
<1>1. startpc' = "off" /\ opened' = Unopened /\ refusal' = refusal
  BY DEF EndProcess
<1>2. Unopened \in [Roles -> {"none"} \cup Backends] /\ refusal \in Refusals
  BY DEF Unopened, StartInv, StartTypeOK, Refusals
<1> QED  BY <1>1, <1>2 DEF Sound, Running, RefusedForAReason, Stages

\* Every step leaves behind a start that is sound.
LEMMA SoundStep == ASSUME StartInv, StartNext PROVE Sound'
  BY ProcessStarts, IndexConstructed, HealthChecked, Ensures, EnsuredAll, Drops, Creates, Reindexes,
     Indexes, ProcessEnds DEF StartNext

\* The other variables keep their types, and nothing is wiped.
LEMMA StartTypes == ASSUME StartInv, StartNext PROVE StartTypeOK' /\ wiped' = {}
<1>0. /\ remote \in [Scopes -> Collection] /\ role \in Roles /\ toEnsure \subseteq Scopes
      /\ cur \in Scopes \cup {"none"} /\ starts \in 0..MaxStarts /\ startFaults \in 0..MaxStartFaults
      /\ troubled \in BOOLEAN /\ wiped = {} /\ MaxStarts \in Nat /\ MaxStartFaults \in Nat
      /\ NoCollection \in Collection
  BY StartupAssumption DEF StartInv, StartTypeOK, NoCollection, Collection
<1>1. wiped' = {}
  <2>1. CASE DropCollection
    BY <2>1, Drops
  <2> QED  BY <1>0, <2>1 DEF StartNext, StartProcess, NewVectorIndex, CheckHealth, EnsureCollection,
              AllEnsured, createCollection, ReindexMemory, IndexDocument, EndProcess
<1>2. starts' \in 0..MaxStarts
  <2>1. ASSUME NEW raw \in StartConfigs, StartProcess(raw) PROVE starts' \in 0..MaxStarts
    <3>1. starts < MaxStarts /\ starts' = starts + 1
      BY <2>1 DEF StartProcess
    <3> QED  BY <1>0, <3>1
  <2>2. ASSUME ~ \E raw \in StartConfigs : StartProcess(raw) PROVE UNCHANGED starts
    <3>1. ASSUME NEW s \in toEnsure, EnsureCollection(s) PROVE UNCHANGED starts
      BY <3>1 DEF EnsureCollection
    <3>2. \/ NewVectorIndex \/ CheckHealth \/ AllEnsured \/ DropCollection \/ createCollection
          \/ ReindexMemory \/ IndexDocument \/ EndProcess \/ \E s \in toEnsure : EnsureCollection(s)
      BY <2>2, Zenon DEF StartNext
    <3> QED  BY <3>1, <3>2 DEF NewVectorIndex, CheckHealth, AllEnsured, DropCollection,
                createCollection, ReindexMemory, IndexDocument, EndProcess
  <2> QED  BY <1>0, <2>1, <2>2
<1>3. startFaults' \in 0..MaxStartFaults /\ troubled' \in BOOLEAN
  <2> DEFINE Fails == startFaults < MaxStartFaults /\ startFaults' = startFaults + 1 /\ troubled' = TRUE
             Fine == UNCHANGED startFaults /\ troubled' \in {troubled, FALSE}
  <2>1. ASSUME NEW s \in toEnsure, EnsureCollection(s) PROVE Fails \/ Fine
    <3>1. RequestFails \/ NoTrouble
      BY <2>1, Zenon DEF EnsureCollection
    <3> QED  BY <3>1 DEF RequestFails, NoTrouble
  <2>2. ASSUME NEW raw \in StartConfigs, StartProcess(raw) PROVE Fine
    BY <2>2 DEF StartProcess
  <2>3. DropCollection => Fails \/ Fine
    BY DEF DropCollection, RequestFails, NoTrouble
  <2>4. createCollection => Fails \/ Fine
    BY DEF createCollection, RequestFails, NoTrouble
  <2>5. CheckHealth => Fails \/ Fine
    BY DEF CheckHealth, RequestFails, NoTrouble
  <2>6. NewVectorIndex \/ AllEnsured \/ ReindexMemory \/ IndexDocument \/ EndProcess => Fails \/ Fine
    BY DEF NewVectorIndex, AllEnsured, ReindexMemory, IndexDocument, EndProcess, NoTrouble
  <2>7. Fails \/ Fine
    BY <2>1, <2>2, <2>3, <2>4, <2>5, <2>6 DEF StartNext
  <2>8. startFaults' \in 0..MaxStartFaults
    <3>1. \/ startFaults < MaxStartFaults /\ startFaults' = startFaults + 1
          \/ startFaults' = startFaults
      BY <2>7, Zenon
    <3>2. startFaults \in 0..MaxStartFaults /\ MaxStartFaults \in Nat
      BY <1>0, Zenon
    <3> HIDE DEF Fails, Fine
    <3> QED  BY <3>1, <3>2
  <2>9. troubled' \in {troubled, TRUE, FALSE}
    BY <2>7
  <2> QED  BY <1>0, <2>8, <2>9, Zenon
<1>4. role' \in Roles
  BY <1>0 DEF StartNext, StartProcess, NewVectorIndex, CheckHealth, EnsureCollection, Roles,
              AllEnsured, DropCollection, createCollection, ReindexMemory, IndexDocument, EndProcess
<1>5. cur' \in Scopes \cup {"none"}
  <2>1. ASSUME NEW s \in toEnsure, EnsureCollection(s) PROVE cur' \in {cur, s}
    <3>1. CASE RequestFails /\ UNCHANGED <<toEnsure, cur>>
      BY <3>1
    <3>2. CASE Ensured(s)
      BY <3>2 DEF Ensured
    <3>3. CASE ~Ensured(s) /\ ~(RequestFails /\ UNCHANGED <<toEnsure, cur>>)
      <4>1. CASE remote[s].size = "absent"
        BY <2>1, <3>3, <4>1 DEF EnsureCollection
      <4>2. CASE remote[s].size = "unknown"
        BY <2>1, <3>3, <4>2 DEF EnsureCollection
      <4>3. CASE remote[s].size \in Sizes
        BY <2>1, <3>3, <4>3 DEF EnsureCollection, Sizes
      <4> QED  BY <1>0, <4>1, <4>2, <4>3 DEF Collection
    <3> QED  BY <3>1, <3>2, <3>3
  <2>2. ASSUME NEW raw \in StartConfigs, StartProcess(raw) PROVE cur' = "none"
    BY <2>2 DEF StartProcess
  <2>3. NewVectorIndex \/ CheckHealth \/ AllEnsured \/ DropCollection \/ createCollection \/ ReindexMemory
           \/ IndexDocument \/ EndProcess => UNCHANGED cur
    BY DEF NewVectorIndex, CheckHealth, AllEnsured, DropCollection, createCollection, ReindexMemory,
           IndexDocument, EndProcess
  <2> QED  BY <1>0, <2>1, <2>2, <2>3 DEF StartNext
<1>6. toEnsure' \subseteq Scopes
  <2>1. CASE NewVectorIndex
    <3>1. cfg.stores \subseteq Scopes
      BY <2>1, RunningParts DEF NewVectorIndex, Running, Configured, File
    <3> QED  BY <2>1, <3>1 DEF NewVectorIndex
  <2> QED  BY <1>0, <2>1 DEF StartNext, StartProcess, CheckHealth, EnsureCollection, Ensured,
              AllEnsured, DropCollection, createCollection, ReindexMemory, IndexDocument, EndProcess
<1>7. remote' \in [Scopes -> Collection]
  <2>1. CASE DropCollection
    BY <1>0, <2>1 DEF DropCollection
  <2>2. CASE createCollection
    <3>1. cfg.size \in Sizes
      BY <2>2, NotInUse, RunningParts DEF createCollection, Configured, File
    <3>2. [size |-> cfg.size, points |-> FALSE, counted |-> TRUE] \in Collection
      BY <3>1 DEF Collection
    <3> QED  BY <1>0, <2>2, <3>2 DEF createCollection
  <2>3. CASE ReindexMemory
    BY <1>0, <2>3, FillsOnly, StartupAssumption DEF ReindexMemory
  <2>4. CASE IndexDocument
    BY <1>0, <2>4, FillsOnly, StartupAssumption DEF IndexDocument
  <2> QED  BY <1>0, <2>1, <2>2, <2>3, <2>4 DEF StartNext, StartProcess, NewVectorIndex, CheckHealth,
              EnsureCollection, AllEnsured, EndProcess
<1> QED  BY <1>1, <1>2, <1>3, <1>4, <1>5, <1>6, <1>7, SoundStep DEF StartTypeOK, Sound, Stages, Refusals

\* The inductive invariant of the start, for any scopes, configurations and
\* collections that are found.
THEOREM StartInvariant == StartSpec => []StartInv
<1>1. StartInv /\ [StartNext]_startVars => StartInv'
  <2>1. CASE StartNext
    BY <2>1, SoundStep, StartTypes DEF StartInv, Sound
  <2>2. CASE UNCHANGED startVars
    BY <2>2 DEF startVars, StartInv, StartTypeOK, RefusedForAReason, Running, Configured, Opening, OpenedSoFar,
           Fits, IndexKept, Backend
  <2> QED  BY <2>1, <2>2
<1> QED  BY <1>1, StartStart, PTL DEF StartSpec

\* A server that is up has what it was configured for, a start that was
\* validated is refused only for what a server answered or for want of an
\* address, and no vectors are destroyed but on the operator's word.
THEOREM StartsAreSound == StartSpec => []StartIsSound
<1>1. StartInv => StartIsSound
  <2> SUFFICES ASSUME StartInv, startpc = "serving" PROVE ServesWhatFits
    BY DEF StartInv, StartIsSound, ServesWhatFits
  <2> QED  BY RunningParts DEF Running, OpenedSoFar, Fits, IndexKept, ServesWhatFits, Roles
<1> QED  BY <1>1, StartInvariant, PTL

-----------------------------------------------------------------------------
(* The retrieval of the knowledge bases *)

AskedBases == {a.base : a \in Asked}
AskedWords == {a.query : a \in Asked}

Queries == [stage : {"vector", "keyword", "answer"}, base : AskedBases, query : AskedWords,
            mode : AnswerModes, search : SearchModes, found : SUBSET RChunks]
Replies == [status : {"answered", "refused", "error"}, cited : SUBSET RChunks,
            base : AskedBases, query : AskedWords, mode : AnswerModes,
            seen : SUBSET RChunks, along : SUBSET RChunks]
EvalRuns == [status : {"running", "saved"}, cases : Seq(Asked), results : Seq(Replies)]

RetrievalTypes ==
    /\ chunkVectors \in SUBSET RChunks /\ chunks \in SUBSET RChunks
    /\ everSeen \in SUBSET RChunks /\ allAlong \in SUBSET RChunks
    /\ IsFiniteSet(chunkVectors) /\ IsFiniteSet(chunks) /\ IsFiniteSet(everSeen)
    /\ indexing \in 0..MaxIndexing
    /\ asking \in Queries \cup {NoQuery}
    /\ answer \in Replies \cup {NoAnswer}
    /\ toAsk \in Seq(Asked)
    /\ evalRun \in EvalRuns \cup {NoRun}

OfBase(S, base) == {c \in S : MatchesBase(c, base)}
StrongOfBase(S, base, query) == {c \in OfBase(S, base) : Strong(c, query)}

\* What is seen of the chunks while a query is at work.
SeesChunks ==
    asking # NoQuery =>
        /\ chunkVectors \subseteq everSeen /\ chunks \subseteq everSeen
        /\ allAlong \subseteq chunks

\* What a query has found was there and is of its base, and if there is room
\* for all of that it has found all that was there all along.
FindsChunks ==
    asking # NoQuery =>
        /\ asking.mode # "search" => asking.search = "hybrid"
        /\ asking.found \subseteq OfBase(everSeen, asking.base)
        /\ (/\ asking.stage = "answer" /\ asking.mode # "search"
            /\ Cardinality(OfBase(everSeen, asking.base)) <= RTopK) =>
              StrongOfBase(allAlong, asking.base, asking.query) \subseteq asking.found

\* The results of some of the cases, and the rest of them to ask.
InOrder(cases, results, todo) ==
    /\ Len(results) + Len(todo) = Len(cases)
    /\ \A k \in 1..Len(todo) : todo[k] = cases[Len(results) + k]
    /\ \A k \in 1..Len(results) :
          /\ results[k].query = cases[k].query /\ results[k].base = cases[k].base
          /\ Grounded(results[k])

\* The results of an evaluation so far, and the case that is asked.
EvaluatesInOrder ==
    /\ evalRun = NoRun => toAsk = <<>>
    /\ evalRun # NoRun =>
          /\ InOrder(evalRun.cases, evalRun.results, toAsk)
          /\ evalRun.status = "saved" => toAsk = <<>>
          /\ evalRun.status = "running" =>
                /\ toAsk # <<>> /\ asking # NoQuery
                /\ asking.base = toAsk[1].base /\ asking.query = toAsk[1].query

AnswerGrounded == answer # NoAnswer => Grounded(answer)

RetrievalInv ==
    /\ RetrievalTypes /\ SeesChunks /\ FindsChunks
    /\ AnswerGrounded /\ EvaluatesInOrder

-----------------------------------------------------------------------------
\* What is grounded does not depend on the state.
LEMMA GroundedLater == ASSUME NEW a, Grounded(a) PROVE Grounded(a)'
  BY DEF Grounded, MatchesBase, Strong, Overlap, Requires

\* What has been judged in order stays so when the index changes.
LEMMA InOrderLater ==
    ASSUME NEW cases, NEW results, NEW todo, InOrder(cases, results, todo)
    PROVE  InOrder(cases, results, todo)'
  BY GroundedLater DEF InOrder

\* Of more chunks a base has no fewer.
LEMMA OfBaseGrows ==
    ASSUME NEW S, NEW T, NEW base, S \subseteq T, IsFiniteSet(T)
    PROVE  /\ OfBase(S, base) \subseteq OfBase(T, base)
           /\ Cardinality(OfBase(S, base)) <= Cardinality(OfBase(T, base))
           /\ Cardinality(OfBase(S, base)) \in Nat /\ Cardinality(OfBase(T, base)) \in Nat
<1>1. OfBase(S, base) \subseteq OfBase(T, base) /\ OfBase(T, base) \subseteq T
  BY DEF OfBase
<1>2. IsFiniteSet(OfBase(T, base))
  BY <1>1, FS_Subset
<1>3. /\ IsFiniteSet(OfBase(S, base))
      /\ Cardinality(OfBase(S, base)) <= Cardinality(OfBase(T, base))
  BY <1>1, <1>2, FS_Subset
<1> QED  BY <1>1, <1>2, <1>3, FS_CardinalityType

\* The best of many are of the many, and all of them if they are not too many.
LEMMA BestOf ==
    ASSUME NEW found, NEW n, NEW best \in Best(found, n)
    PROVE  best \subseteq found /\ (Cardinality(found) <= n => best = found)
<1>1. CASE Cardinality(found) <= n
  BY <1>1 DEF Best
<1>2. CASE ~(Cardinality(found) <= n)
  BY <1>2 DEF Best, kSubset
<1> QED  BY <1>1, <1>2

\* A chunk that is strong evidence has a word of the question.
LEMMA StrongIsFound ==
    ASSUME NEW c \in RChunks, NEW query, Strong(c, query) PROVE Overlap(c, query) > 0
<1>1. Overlap(c, query) \in Nat
  <2>1. IsFiniteSet(WordsOf[c]) /\ WordsOf[c] \cap query \subseteq WordsOf[c]
    BY RetrievalAssumption
  <2>2. IsFiniteSet(WordsOf[c] \cap query)
    BY <2>1, FS_Subset
  <2> QED  BY <2>2, FS_CardinalityType DEF Overlap
<1> HIDE DEF Overlap
<1>2. Overlap(c, query) >= 1 \/ Overlap(c, query) >= 2
  BY DEF Strong
<1> QED  BY <1>1, <1>2

\* A query asks a base for some words.
LEMMA CasesTyped ==
    ASSUME NEW a \in Asked PROVE a.base \in AskedBases /\ a.query \in AskedWords
  BY DEF AskedBases, AskedWords

-----------------------------------------------------------------------------
\* The index changes under a query: what it has seen grows, what was there all
\* along shrinks.
LEMMA IndexedKeeps ==
    ASSUME RetrievalInv, Indexed, chunkVectors' \in SUBSET RChunks, chunks' \in SUBSET RChunks,
           IsFiniteSet(chunkVectors'), IsFiniteSet(chunks')
    PROVE  RetrievalInv'
<1> USE DEF RetrievalInv
<1>1. UNCHANGED <<asking, answer, toAsk, evalRun>>
  BY DEF Indexed
<1>2. IsFiniteSet(everSeen') /\ everSeen' \in SUBSET RChunks
  <2>1. IsFiniteSet(everSeen \cup chunkVectors' \cup chunks')
    BY FS_Union DEF RetrievalTypes
  <2> QED  BY <2>1, FS_EmptySet DEF Indexed, RetrievalTypes
<1>3. RetrievalTypes'
  <2>1. indexing' \in 0..MaxIndexing
    BY RetrievalAssumption DEF Indexed, RetrievalTypes
  <2>2. allAlong' \in SUBSET RChunks
    BY DEF Indexed, RetrievalTypes
  <2> QED  BY <1>1, <1>2, <2>1, <2>2 DEF RetrievalTypes
<1>4. asking # NoQuery => everSeen \subseteq everSeen' /\ allAlong' \subseteq allAlong
  BY DEF Indexed
<1>5. SeesChunks'
  BY <1>1 DEF SeesChunks, Indexed
<1>6. FindsChunks'
  <2> SUFFICES ASSUME asking # NoQuery
               PROVE  /\ asking.mode # "search" => asking.search = "hybrid"
                      /\ asking.found \subseteq OfBase(everSeen', asking.base)
                      /\ (/\ asking.stage = "answer" /\ asking.mode # "search"
                          /\ Cardinality(OfBase(everSeen', asking.base)) <= RTopK) =>
                            StrongOfBase(allAlong', asking.base, asking.query) \subseteq asking.found
    BY <1>1 DEF FindsChunks, OfBase, StrongOfBase, MatchesBase, Strong, Overlap
  <2>1. /\ OfBase(everSeen, asking.base) \subseteq OfBase(everSeen', asking.base)
        /\ Cardinality(OfBase(everSeen, asking.base)) <= Cardinality(OfBase(everSeen', asking.base))
        /\ Cardinality(OfBase(everSeen, asking.base)) \in Nat
        /\ Cardinality(OfBase(everSeen', asking.base)) \in Nat
    BY <1>2, <1>4, OfBaseGrows
  <2>2. StrongOfBase(allAlong', asking.base, asking.query)
            \subseteq StrongOfBase(allAlong, asking.base, asking.query)
    BY <1>4 DEF StrongOfBase, OfBase
  <2>3. RTopK \in Nat
    BY RetrievalAssumption
  <2> QED  BY <2>1, <2>2, <2>3 DEF FindsChunks
<1>7. AnswerGrounded'
  BY <1>1 DEF AnswerGrounded, Grounded, MatchesBase, Strong, Overlap, Requires
<1>8. EvaluatesInOrder'
  BY <1>1, InOrderLater DEF EvaluatesInOrder
<1> QED  BY <1>3, <1>5, <1>6, <1>7, <1>8

\* Vectors come and go under a query.
LEMMA VectorsChange == ASSUME RetrievalInv, NEW c \in RChunks, IndexVectors(c) PROVE RetrievalInv'
<1>1. chunks' = chunks /\ Indexed
  BY DEF IndexVectors
<1>2. chunkVectors' = chunkVectors \ {c} \/ chunkVectors' = chunkVectors \cup {c}
  BY DEF IndexVectors
<1>3. RetrievalTypes
  BY DEF RetrievalInv
<1>4. IsFiniteSet(chunkVectors \ {c}) /\ IsFiniteSet(chunkVectors \cup {c})
  BY <1>3, FS_RemoveElement, FS_AddElement DEF RetrievalTypes
<1>5. /\ chunkVectors' \in SUBSET RChunks /\ IsFiniteSet(chunkVectors')
      /\ chunks' \in SUBSET RChunks /\ IsFiniteSet(chunks')
  BY <1>1, <1>2, <1>3, <1>4 DEF RetrievalTypes
<1> QED  BY <1>1, <1>5, IndexedKeeps

\* Chunks come and go under a query.
LEMMA ChunksChange == ASSUME RetrievalInv, NEW c \in RChunks, replaceChunks(c) PROVE RetrievalInv'
<1>1. chunkVectors' = chunkVectors /\ Indexed
  BY DEF replaceChunks
<1>2. chunks' = chunks \ {c} \/ chunks' = chunks \cup {c}
  BY DEF replaceChunks
<1>3. RetrievalTypes
  BY DEF RetrievalInv
<1>4. IsFiniteSet(chunks \ {c}) /\ IsFiniteSet(chunks \cup {c})
  BY <1>3, FS_RemoveElement, FS_AddElement DEF RetrievalTypes
<1>5. /\ chunkVectors' \in SUBSET RChunks /\ IsFiniteSet(chunkVectors')
      /\ chunks' \in SUBSET RChunks /\ IsFiniteSet(chunks')
  BY <1>1, <1>2, <1>3, <1>4 DEF RetrievalTypes
<1> QED  BY <1>1, <1>5, IndexedKeeps

-----------------------------------------------------------------------------
\* A query begins with nothing found, and has seen what there is.
LEMMA BegunFinds ==
    ASSUME RetrievalTypes, NEW asked \in Asked, NEW mode \in AnswerModes, NEW search \in SearchModes,
           mode # "search" => search = "hybrid", Begun(asked, mode, search),
           UNCHANGED <<chunkVectors, chunks>>
    PROVE  /\ asking' \in Queries /\ asking'.base = asked.base /\ asking'.query = asked.query
           /\ everSeen' \in SUBSET RChunks /\ IsFiniteSet(everSeen')
           /\ allAlong' \in SUBSET RChunks
           /\ SeesChunks' /\ FindsChunks'
<1>1. asking' = [stage |-> "vector", base |-> asked.base, query |-> asked.query,
                 mode |-> mode, search |-> search, found |-> {}]
  BY DEF Begun
<1>2. asking' \in Queries
  BY <1>1, CasesTyped DEF Queries
<1>3. everSeen' = chunkVectors \cup chunks /\ allAlong' = chunks
  BY DEF Begun
<1>4. IsFiniteSet(everSeen')
  BY <1>3, FS_Union DEF RetrievalTypes
<1>5. FindsChunks'
  BY <1>1 DEF FindsChunks
<1>6. SeesChunks'
  BY <1>3 DEF SeesChunks
<1> QED  BY <1>1, <1>2, <1>3, <1>4, <1>5, <1>6 DEF RetrievalTypes

\* A query that is over has seen nothing and found nothing.
LEMMA EndedFinds ==
    ASSUME Ended
    PROVE  /\ asking' = NoQuery /\ everSeen' = {} /\ allAlong' = {} /\ IsFiniteSet(everSeen')
           /\ SeesChunks' /\ FindsChunks'
  BY FS_EmptySet DEF Ended, SeesChunks, FindsChunks

\* An answer is of the query, and grounded if it is what was found.
LEMMA ReplyTyped ==
    ASSUME RetrievalTypes, asking # NoQuery, NEW status \in {"answered", "refused", "error"},
           NEW cited \in SUBSET RChunks
    PROVE  Reply(status, cited) \in Replies
  BY DEF Reply, RetrievalTypes, Queries, Replies

\* What a query answers cites only what it may.
LEMMA AnsweringGrounded ==
    ASSUME RetrievalInv, asking.stage = "answer"
    PROVE  /\ Answering \in Replies /\ Grounded(Answering)
           /\ Answering.base = asking.base /\ Answering.query = asking.query
           /\ asking # NoQuery
<1> USE DEF RetrievalInv
<1>1. asking # NoQuery /\ asking \in Queries
  BY DEF RetrievalTypes, NoQuery
<1>2. Evidence \in SUBSET RChunks
  BY <1>1 DEF Evidence, Queries
<1> DEFINE status == IF Evidence = {} /\ asking.mode # "search" THEN "refused" ELSE "answered"
<1>3. status \in {"answered", "refused"} /\ Answering = Reply(status, Evidence)
  BY DEF Answering
<1> HIDE DEF status
<1>4. Answering \in Replies
  BY <1>1, <1>2, <1>3, ReplyTyped
<1>5. /\ Answering.status = status /\ Answering.cited = Evidence /\ Answering.base = asking.base
      /\ Answering.query = asking.query /\ Answering.mode = asking.mode
      /\ Answering.seen = everSeen /\ Answering.along = allAlong
  BY <1>3 DEF Reply
<1>6. /\ Evidence \subseteq OfBase(everSeen, asking.base)
      /\ Requires(asking.mode) => \A c \in Evidence : Strong(c, asking.query)
  BY <1>1 DEF Evidence, FindsChunks
<1>7. ASSUME asking.mode # "search", Cardinality(OfBase(everSeen, asking.base)) <= RTopK
      PROVE  StrongOfBase(allAlong, asking.base, asking.query) \subseteq Evidence
  <2>1. StrongOfBase(allAlong, asking.base, asking.query) \subseteq asking.found
    BY <1>1, <1>7 DEF FindsChunks
  <2> QED  BY <2>1 DEF StrongOfBase, Evidence
<1>8. Grounded(Answering)
  BY <1>5, <1>6, <1>7 DEF Grounded, OfBase, StrongOfBase
<1> QED  BY <1>1, <1>4, <1>5, <1>8

-----------------------------------------------------------------------------
\* A query begins with what the index holds.
LEMMA QueryBegins ==
    ASSUME RetrievalInv, NEW a \in Asked, NEW m \in AnswerModes, NEW s \in SearchModes, Query(a, m, s)
    PROVE  RetrievalInv'
<1> USE DEF RetrievalInv
<1>1. /\ Begun(a, m, s) /\ answer' = NoAnswer /\ (m # "search" => s = "hybrid")
      /\ UNCHANGED <<chunkVectors, chunks, indexing, toAsk, evalRun>>
      /\ evalRun = NoRun /\ evalRun' = NoRun /\ toAsk = <<>>
  BY DEF Query, EvaluatesInOrder
<1>2. /\ asking' \in Queries /\ everSeen' \in SUBSET RChunks /\ IsFiniteSet(everSeen')
      /\ allAlong' \in SUBSET RChunks /\ SeesChunks' /\ FindsChunks'
  BY <1>1, BegunFinds
<1>3. RetrievalTypes'
  BY <1>1, <1>2 DEF RetrievalTypes
<1>4. AnswerGrounded' /\ EvaluatesInOrder'
  BY <1>1 DEF AnswerGrounded, EvaluatesInOrder
<1> QED  BY <1>2, <1>3, <1>4

\* A query that fails ends the suite it belongs to.
LEMMA QueryErrs == ASSUME RetrievalInv, QueryFails PROVE RetrievalInv'
<1> USE DEF RetrievalInv
<1>1. /\ Ended /\ answer' = Reply("error", {}) /\ toAsk' = <<>> /\ evalRun' = NoRun
      /\ UNCHANGED <<chunkVectors, chunks, indexing>> /\ asking # NoQuery
  BY DEF QueryFails, NoQuery
<1>2. /\ asking' = NoQuery /\ everSeen' = {} /\ allAlong' = {} /\ IsFiniteSet(everSeen')
      /\ SeesChunks' /\ FindsChunks'
  BY <1>1, EndedFinds
<1>3. answer' \in Replies
  BY <1>1, ReplyTyped
<1>4. RetrievalTypes'
  BY <1>1, <1>2, <1>3 DEF RetrievalTypes
<1>5. answer'.status = "error"
  BY <1>1 DEF Reply
<1>6. AnswerGrounded' /\ EvaluatesInOrder'
  BY <1>1, <1>5 DEF AnswerGrounded, EvaluatesInOrder, Grounded
<1> QED  BY <1>2, <1>4, <1>6

\* A step of the query that only adds what it found.
LEMMA QueryGoesOn ==
    ASSUME RetrievalInv, asking \in Queries, NEW stage \in {"keyword", "answer"}, NEW found,
           found \subseteq OfBase(everSeen, asking.base),
           (/\ stage = "answer" /\ asking.mode # "search"
            /\ Cardinality(OfBase(everSeen, asking.base)) <= RTopK) =>
              StrongOfBase(allAlong, asking.base, asking.query) \subseteq found,
           asking' = [asking EXCEPT !.stage = stage, !.found = found],
           UNCHANGED <<chunkVectors, chunks, indexing, answer, toAsk, evalRun, everSeen, allAlong>>
    PROVE  RetrievalInv'
<1> USE DEF RetrievalInv
<1>1. /\ asking'.stage = stage /\ asking'.found = found /\ asking'.base = asking.base
      /\ asking'.query = asking.query /\ asking'.mode = asking.mode
      /\ asking'.search = asking.search
  BY DEF Queries
<1>2. asking # NoQuery /\ asking' # NoQuery
  <2>1. asking.stage # "idle" /\ asking'.stage # "idle" /\ NoQuery.stage = "idle"
    BY <1>1 DEF NoQuery, Queries
  <2> QED  BY <2>1
<1>3. found \in SUBSET RChunks
  BY DEF OfBase, RetrievalTypes
<1>4. asking' \in Queries
  BY <1>3 DEF Queries
<1>5. RetrievalTypes'
  BY <1>4 DEF RetrievalTypes
<1>6. SeesChunks'
  BY <1>2 DEF SeesChunks
<1>7. FindsChunks'
  BY <1>1, <1>2 DEF FindsChunks, OfBase, StrongOfBase, MatchesBase, Strong, Overlap
<1>8. AnswerGrounded'
  BY GroundedLater DEF AnswerGrounded
<1>9. EvaluatesInOrder'
  BY <1>1, <1>2, InOrderLater DEF EvaluatesInOrder
<1> QED  BY <1>5, <1>6, <1>7, <1>8, <1>9

\* The vector search finds what is in the index now.
LEMMA VectorsSearched == ASSUME RetrievalInv, VectorSearch PROVE RetrievalInv'
<1>1. asking \in Queries
  BY DEF VectorSearch, RetrievalInv, RetrievalTypes, NoQuery
<1>2. PICK hits \in IF asking.search = "keyword" THEN {{}}
                    ELSE Best({c \in chunkVectors : MatchesBase(c, asking.base)}, 2 * RTopK) :
         asking' = [asking EXCEPT !.stage = "keyword", !.found = hits]
  BY DEF VectorSearch
<1>3. hits \subseteq {c \in chunkVectors : MatchesBase(c, asking.base)}
  BY <1>2, BestOf
<1>4. hits \subseteq OfBase(everSeen, asking.base)
  BY <1>1, <1>3 DEF OfBase, RetrievalInv, SeesChunks, NoQuery, Queries
<1> QED  BY <1>1, <1>2, <1>4, QueryGoesOn DEF VectorSearch

\* The keyword search adds what the chunks hold, and the best are kept.
LEMMA Retrieved == ASSUME RetrievalInv, Retrieve PROVE RetrievalInv'
<1> USE DEF RetrievalInv
<1>1. asking \in Queries /\ asking # NoQuery
  BY DEF Retrieve, RetrievalTypes, NoQuery
<1> DEFINE words == keywordFound(asking.base, asking.query)
           room == OfBase(everSeen, asking.base)
<1>2. PICK hits \in IF asking.search = "vector" THEN {{}} ELSE Best(words, 2 * RTopK) :
        \E top \in Best(asking.found \cup hits, RTopK) :
            asking' = [asking EXCEPT !.stage = "answer", !.found = top]
  BY DEF Retrieve
<1>3. PICK top \in Best(asking.found \cup hits, RTopK) :
         asking' = [asking EXCEPT !.stage = "answer", !.found = top]
  BY <1>2
<1>4. words \subseteq OfBase(chunks, asking.base) /\ words \subseteq room
  BY <1>1 DEF keywordFound, OfBase, SeesChunks
<1>5. hits \subseteq words
  BY <1>2, BestOf
<1>6. asking.found \cup hits \subseteq room
  BY <1>1, <1>4, <1>5 DEF FindsChunks
<1>7. top \subseteq asking.found \cup hits
  BY <1>3, BestOf
<1>8. ASSUME asking.mode # "search", Cardinality(room) <= RTopK
      PROVE  StrongOfBase(allAlong, asking.base, asking.query) \subseteq top
  <2>1. IsFiniteSet(room) /\ RTopK \in Nat
    BY RetrievalAssumption, FS_Subset DEF OfBase, RetrievalTypes
  <2> HIDE DEF room, words
  <2>2. /\ Cardinality(words) <= Cardinality(room)
        /\ Cardinality(asking.found \cup hits) <= Cardinality(room)
        /\ Cardinality(words) \in Nat /\ Cardinality(asking.found \cup hits) \in Nat
        /\ Cardinality(room) \in Nat
    BY <1>4, <1>6, <2>1, FS_Subset, FS_CardinalityType
  <2>3. Cardinality(words) <= 2 * RTopK /\ Cardinality(asking.found \cup hits) <= RTopK
    BY <1>8, <2>1, <2>2
  <2>4. asking.search = "hybrid"
    BY <1>1, <1>8 DEF FindsChunks
  <2>5. hits = words
    BY <1>2, <2>3, <2>4, BestOf
  <2>6. top = asking.found \cup hits
    BY <1>3, <2>3, BestOf
  <2>7. ASSUME NEW c \in StrongOfBase(allAlong, asking.base, asking.query) PROVE c \in words
    <3>1. c \in allAlong /\ MatchesBase(c, asking.base) /\ Strong(c, asking.query)
      BY <2>7 DEF StrongOfBase, OfBase
    <3>2. c \in chunks /\ c \in RChunks
      BY <1>1, <3>1 DEF SeesChunks, RetrievalTypes
    <3>3. Overlap(c, asking.query) > 0
      BY <3>1, <3>2, StrongIsFound
    <3> QED  BY <3>1, <3>2, <3>3 DEF keywordFound, words
  <2> QED  BY <2>5, <2>6, <2>7
<1>9. top \subseteq room
  BY <1>6, <1>7
<1>10. UNCHANGED <<chunkVectors, chunks, indexing, answer, toAsk, evalRun, everSeen, allAlong>>
  BY DEF Retrieve
<1> QED  BY <1>1, <1>3, <1>8, <1>9, <1>10, QueryGoesOn

\* A query that belongs to no suite is answered.
LEMMA Responded == ASSUME RetrievalInv, Respond PROVE RetrievalInv'
<1> USE DEF RetrievalInv
<1>1. /\ answer' = Answering /\ Ended /\ asking.stage = "answer" /\ toAsk = <<>>
      /\ UNCHANGED <<chunkVectors, chunks, indexing, toAsk, evalRun>>
  BY DEF Respond
<1>2. Answering \in Replies /\ Grounded(Answering)
  BY <1>1, AnsweringGrounded
<1>3. /\ asking' = NoQuery /\ everSeen' = {} /\ allAlong' = {} /\ IsFiniteSet(everSeen')
      /\ SeesChunks' /\ FindsChunks'
  BY <1>1, EndedFinds
<1>4. RetrievalTypes'
  BY <1>1, <1>2, <1>3 DEF RetrievalTypes
<1> HIDE DEF Answering
<1>5. AnswerGrounded'
  BY <1>1, <1>2 DEF AnswerGrounded, Grounded, MatchesBase, Strong, Overlap, Requires
<1>6. EvaluatesInOrder'
  BY <1>1, InOrderLater DEF EvaluatesInOrder
<1> QED  BY <1>3, <1>4, <1>5, <1>6

\* A suite begins with its first case.
LEMMA EvalBegins == ASSUME RetrievalInv, NEW cases \in RAGSuites, RunRAGEval(cases) PROVE RetrievalInv'
<1> USE DEF RetrievalInv
<1>1. /\ cases # <<>> /\ toAsk' = cases /\ answer' = NoAnswer
      /\ evalRun' = [status |-> "running", cases |-> cases, results |-> <<>>]
      /\ Begun(Head(cases), "kb_only", "hybrid") /\ UNCHANGED <<chunkVectors, chunks, indexing>>
  BY DEF RunRAGEval
<1>2. cases \in Seq(Asked) /\ Head(cases) \in Asked /\ Head(cases) = cases[1] /\ Len(cases) \in Nat
  BY <1>1, RetrievalAssumption
<1>3. "kb_only" \in AnswerModes /\ "hybrid" \in SearchModes
  BY DEF AnswerModes, SearchModes
<1>4. /\ asking' \in Queries /\ asking'.base = Head(cases).base /\ asking'.query = Head(cases).query
      /\ everSeen' \in SUBSET RChunks /\ IsFiniteSet(everSeen')
      /\ allAlong' \in SUBSET RChunks /\ SeesChunks' /\ FindsChunks'
  BY <1>1, <1>2, <1>3, BegunFinds
<1>5. evalRun' \in EvalRuns
  BY <1>1, <1>2 DEF EvalRuns
<1>6. RetrievalTypes'
  BY <1>1, <1>2, <1>4, <1>5 DEF RetrievalTypes
<1>7. asking' # NoQuery
  BY <1>4 DEF Queries, NoQuery
<1>8. evalRun'.cases = cases /\ evalRun'.results = <<>> /\ evalRun'.status = "running" /\ evalRun' # NoRun
  BY <1>1 DEF NoRun
<1>9. EvaluatesInOrder'
  <2>1. InOrder(cases, <<>>, cases)'
    BY <1>2 DEF InOrder
  <2> QED  BY <1>1, <1>2, <1>4, <1>7, <1>8, <2>1 DEF EvaluatesInOrder
<1> QED  BY <1>1, <1>4, <1>6, <1>9 DEF AnswerGrounded

\* The results of an evaluation with one more of them.
LEMMA ResultsInOrder ==
    ASSUME NEW cases \in Seq(Asked), NEW old \in Seq(Replies), NEW todo \in Seq(Asked),
           NEW reply \in Replies, todo # <<>>, InOrder(cases, old, todo),
           reply.base = todo[1].base, reply.query = todo[1].query, Grounded(reply)
    PROVE  InOrder(cases, Append(old, reply), Tail(todo))
<1> DEFINE new == Append(old, reply)
           rest == Tail(todo)
<1>o. /\ Len(old) + Len(todo) = Len(cases)
      /\ \A k \in 1..Len(todo) : todo[k] = cases[Len(old) + k]
      /\ \A k \in 1..Len(old) : /\ old[k].query = cases[k].query /\ old[k].base = cases[k].base
                                 /\ Grounded(old[k])
  BY DEF InOrder
<1>1. /\ Len(todo) \in Nat \ {0} /\ Len(old) \in Nat /\ Len(cases) \in Nat
      /\ rest \in Seq(Asked) /\ Len(rest) = Len(todo) - 1
      /\ \A k \in 1..(Len(todo) - 1) : rest[k] = todo[k + 1]
  OBVIOUS
<1>2. /\ new \in Seq(Replies) /\ Len(new) = Len(old) + 1 /\ new[Len(old) + 1] = reply
      /\ \A k \in 1..Len(old) : new[k] = old[k]
  OBVIOUS
<1> HIDE DEF new, rest
<1>3. ASSUME NEW k \in 1..Len(rest) PROVE rest[k] = cases[Len(new) + k]
  <2>1. k + 1 \in 1..Len(todo) /\ Len(old) + (k + 1) = Len(new) + k
    BY <1>1, <1>2
  <2>2. rest[k] = todo[k + 1]
    BY <1>1
  <2>3. todo[k + 1] = cases[Len(old) + (k + 1)]
    BY <1>o, <2>1
  <2> QED  BY <2>1, <2>2, <2>3
<1>4. ASSUME NEW k \in 1..Len(new)
      PROVE  new[k].query = cases[k].query /\ new[k].base = cases[k].base /\ Grounded(new[k])
  <2>1. CASE k = Len(old) + 1
    <3>1. todo[1] = cases[k]
      BY <1>o, <1>1, <2>1
    <3> QED  BY <1>2, <2>1, <3>1
  <2>2. CASE k \in 1..Len(old)
    BY <1>o, <1>2, <2>2
  <2> QED  BY <1>1, <1>2, <2>1, <2>2
<1>5. Len(new) + Len(rest) = Len(cases)
  <2>1. Len(old) \in Nat /\ Len(todo) \in Nat /\ Len(cases) \in Nat
    BY <1>1
  <2>2. Len(new) = Len(old) + 1 /\ Len(rest) = Len(todo) - 1
    BY <1>1, <1>2
  <2>3. Len(old) + Len(todo) = Len(cases)
    BY <1>o
  <2> QED  BY <2>1, <2>2, <2>3
<1>6. InOrder(cases, new, rest)
  BY <1>3, <1>4, <1>5 DEF InOrder
<1> QED  BY <1>6 DEF new, rest

\* A case is judged, and the next one is asked or the suite is saved.
LEMMA CaseJudged == ASSUME RetrievalInv, JudgeRAGCase PROVE RetrievalInv'
<1> USE DEF RetrievalInv
<1>1. /\ asking.stage = "answer" /\ toAsk # <<>> /\ answer' = Answering /\ toAsk' = Tail(toAsk)
      /\ evalRun' = [evalRun EXCEPT !.results = Append(@, Answering),
                                    !.status = IF Len(toAsk) = 1 THEN "saved" ELSE @]
      /\ UNCHANGED <<chunkVectors, chunks, indexing>>
      /\ IF Len(toAsk) = 1 THEN Ended ELSE Begun(toAsk[2], "kb_only", "hybrid")
  BY DEF JudgeRAGCase
<1>2. /\ Answering \in Replies /\ Grounded(Answering)
      /\ Answering.base = asking.base /\ Answering.query = asking.query
  BY <1>1, AnsweringGrounded
<1> HIDE DEF Answering
<1>3. evalRun # NoRun /\ evalRun \in EvalRuns
  BY <1>1 DEF EvaluatesInOrder, RetrievalTypes
<1>4. evalRun.status = "running"
  BY <1>1, <1>3 DEF EvaluatesInOrder, EvalRuns
<1>5. PICK cases, old, todo, reply, new, rest, status :
        /\ cases = evalRun.cases /\ old = evalRun.results /\ todo = toAsk /\ reply = Answering
        /\ new = Append(old, reply) /\ rest = Tail(todo)
        /\ status = IF Len(todo) = 1 THEN "saved" ELSE "running"
  OBVIOUS
<1>6. /\ cases \in Seq(Asked) /\ old \in Seq(Replies) /\ todo \in Seq(Asked) /\ todo # <<>>
      /\ InOrder(cases, old, todo)
      /\ reply \in Replies /\ reply.base = todo[1].base /\ reply.query = todo[1].query
      /\ Grounded(reply)
  BY <1>1, <1>2, <1>3, <1>4, <1>5 DEF EvaluatesInOrder, EvalRuns, RetrievalTypes
<1>7. /\ new \in Seq(Replies) /\ rest \in Seq(Asked) /\ InOrder(cases, new, rest)
  <2>1. InOrder(cases, Append(old, reply), Tail(todo))
    BY <1>6, ResultsInOrder
  <2> QED  BY <1>5, <1>6, <2>1
<1>7a. /\ Len(todo) \in Nat \ {0} /\ Len(rest) = Len(todo) - 1
       /\ Len(todo) # 1 => todo[2] \in Asked /\ rest[1] = todo[2]
  <2>1. todo \in Seq(Asked) /\ todo # <<>> /\ rest = Tail(todo)
    BY <1>5, <1>6
  <2>2. Len(todo) \in Nat \ {0} /\ Len(Tail(todo)) = Len(todo) - 1
    BY <2>1
  <2>3. ASSUME Len(todo) # 1 PROVE todo[2] \in Asked /\ Tail(todo)[1] = todo[2]
    <3>1. 2 \in 1..Len(todo) /\ 1 \in 1..(Len(todo) - 1)
      BY <2>2, <2>3
    <3> QED  BY <2>1, <3>1
  <2> QED  BY <2>1, <2>2, <2>3
<1>8. evalRun' = [evalRun EXCEPT !.results = new, !.status = status] /\ toAsk' = rest
  BY <1>1, <1>4, <1>5 DEF EvalRuns
<1>9. status \in {"running", "saved"} /\ (status = "saved" <=> Len(todo) = 1)
  BY <1>5
<1>10. /\ evalRun' \in EvalRuns /\ evalRun'.results = new /\ evalRun'.status = status
       /\ evalRun'.cases = cases
  BY <1>3, <1>5, <1>7, <1>8, <1>9 DEF EvalRuns
<1>11. evalRun' # NoRun
  <2>1. evalRun'.status # "none" /\ NoRun.status = "none"
    BY <1>9, <1>10 DEF NoRun
  <2> QED  BY <2>1
<1>13. /\ asking' \in Queries \cup {NoQuery} /\ everSeen' \in SUBSET RChunks
       /\ IsFiniteSet(everSeen') /\ allAlong' \in SUBSET RChunks /\ SeesChunks' /\ FindsChunks'
       /\ Len(todo) # 1 => /\ asking' # NoQuery
                           /\ asking'.base = todo[2].base /\ asking'.query = todo[2].query
  <2>1. CASE Len(todo) = 1
    <3>1. Ended
      BY <1>1, <1>5, <2>1
    <3> QED  BY <2>1, <3>1, EndedFinds
  <2>2. CASE Len(todo) # 1
    <3>1. todo[2] \in Asked /\ "kb_only" \in AnswerModes /\ "hybrid" \in SearchModes
      BY <1>7a, <2>2 DEF AnswerModes, SearchModes
    <3>2. Begun(todo[2], "kb_only", "hybrid")
      BY <1>1, <1>5, <2>2
    <3>3. /\ asking' \in Queries /\ everSeen' \in SUBSET RChunks
          /\ IsFiniteSet(everSeen') /\ allAlong' \in SUBSET RChunks /\ SeesChunks' /\ FindsChunks'
          /\ asking'.base = todo[2].base /\ asking'.query = todo[2].query
      BY <1>1, <3>1, <3>2, BegunFinds
    <3>4. asking' # NoQuery
      BY <3>3 DEF Queries, NoQuery
    <3> QED  BY <3>3, <3>4
  <2> QED  BY <2>1, <2>2
<1>14. RetrievalTypes'
  BY <1>1, <1>2, <1>7, <1>8, <1>10, <1>13 DEF RetrievalTypes
<1>15. AnswerGrounded'
  BY <1>1, <1>2, <1>5, <1>6, GroundedLater DEF AnswerGrounded
<1>16. EvaluatesInOrder'
  <2>1. status = "saved" => rest = <<>>
    <3>1. rest \in Seq(Asked) /\ (status = "saved" => Len(rest) = 0)
      BY <1>7, <1>9, <1>7a
    <3> QED  BY <3>1
  <2>2. status = "running" =>
           /\ rest # <<>> /\ asking' # NoQuery
           /\ asking'.base = rest[1].base /\ asking'.query = rest[1].query
    <3>1. status = "running" => Len(rest) # 0 /\ Len(todo) # 1
      BY <1>9, <1>7a
    <3>2. status = "running" => rest # <<>>
      BY <3>1
    <3> QED  BY <1>7a, <1>13, <3>1, <3>2
  <2>3. InOrder(cases, new, rest)'
    BY <1>7, InOrderLater
  <2> QED  BY <1>7, <1>8, <1>10, <1>11, <2>1, <2>2, <2>3 DEF EvaluatesInOrder
<1> QED  BY <1>13, <1>14, <1>15, <1>16

-----------------------------------------------------------------------------
\* RetrievalInv holds of the retrieval, however the index changes meanwhile.
THEOREM RetrievalInvariant == RetrievalSpec => []RetrievalInv
<1>1. RetrievalInit => RetrievalInv
  <2> SUFFICES ASSUME RetrievalInit PROVE RetrievalInv
    OBVIOUS
  <2>1. RetrievalTypes
    BY RetrievalAssumption, FS_EmptySet DEF RetrievalInit, RetrievalTypes
  <2>2. SeesChunks /\ FindsChunks /\ AnswerGrounded /\ EvaluatesInOrder
    BY DEF RetrievalInit, SeesChunks, FindsChunks, AnswerGrounded, EvaluatesInOrder
  <2> QED  BY <2>1, <2>2 DEF RetrievalInv
<1>2. RetrievalInv /\ [RetrievalNext]_retrievalVars => RetrievalInv'
  <2> SUFFICES ASSUME RetrievalInv, [RetrievalNext]_retrievalVars PROVE RetrievalInv'
    OBVIOUS
  <2>1. CASE UNCHANGED retrievalVars
    <3>1. RetrievalTypes' /\ SeesChunks'
      BY <2>1 DEF retrievalVars, RetrievalInv, RetrievalTypes, SeesChunks
    <3>2. FindsChunks'
      BY <2>1 DEF retrievalVars, RetrievalInv, FindsChunks, OfBase, StrongOfBase,
                  MatchesBase, Strong, Overlap
    <3>3. AnswerGrounded' /\ EvaluatesInOrder'
      BY <2>1, GroundedLater, InOrderLater DEF retrievalVars, RetrievalInv, AnswerGrounded, EvaluatesInOrder
    <3> QED  BY <3>1, <3>2, <3>3 DEF RetrievalInv
  <2> QED
    BY <2>1, VectorsChange, ChunksChange, QueryBegins, QueryErrs, VectorsSearched, Retrieved,
       Responded, EvalBegins, CaseJudged DEF RetrievalNext
<1> QED  BY <1>1, <1>2, PTL DEF RetrievalSpec

\* Every answer cites what it was asked about, what was there and what speaks
\* for it, and leaves out none of that unless there is too much of it; and an
\* evaluation answers its cases in order.
THEOREM AnswersGrounded == RetrievalSpec => []AnswersAreGrounded
<1>1. RetrievalInv => AnswersAreGrounded
  <2> SUFFICES ASSUME RetrievalInv PROVE AnswersAreGrounded
    OBVIOUS
  <2>1. answer # NoAnswer => Grounded(answer)
    BY DEF RetrievalInv, AnswerGrounded
  <2>2. ASSUME evalRun.status = "saved"
        PROVE  /\ Len(evalRun.results) = Len(evalRun.cases)
               /\ \A k \in DOMAIN evalRun.results :
                     /\ evalRun.results[k].query = evalRun.cases[k].query
                     /\ evalRun.results[k].base = evalRun.cases[k].base
                     /\ Grounded(evalRun.results[k])
    <3>1. evalRun # NoRun /\ evalRun \in EvalRuns
      BY <2>2 DEF RetrievalInv, RetrievalTypes, NoRun
    <3>2. /\ evalRun.results \in Seq(Replies) /\ evalRun.cases \in Seq(Asked)
          /\ DOMAIN evalRun.results = 1..Len(evalRun.results)
          /\ Len(evalRun.results) \in Nat
      BY <3>1 DEF EvalRuns
    <3>3. toAsk = <<>> /\ Len(toAsk) = 0
      BY <2>2, <3>1 DEF RetrievalInv, EvaluatesInOrder
    <3> QED  BY <3>1, <3>2, <3>3 DEF RetrievalInv, EvaluatesInOrder, InOrder
  <2> QED  BY <2>1, <2>2 DEF AnswersAreGrounded
<1> QED  BY <1>1, RetrievalInvariant, PTL

\* The variables of the retrieval have their types.
THEOREM RetrievalTyped == RetrievalSpec => []RetrievalTypeOK
<1>1. ASSUME RetrievalInv PROVE RetrievalTypeOK
  <2>1. asking.stage \in {"idle", "vector", "keyword", "answer"}
    BY <1>1 DEF RetrievalInv, RetrievalTypes, Queries, NoQuery
  <2>2. answer.status \in {"none", "answered", "refused", "error"}
    BY <1>1 DEF RetrievalInv, RetrievalTypes, Replies, NoAnswer
  <2>3. evalRun.status \in {"none", "running", "saved"}
    BY <1>1 DEF RetrievalInv, RetrievalTypes, EvalRuns, NoRun
  <2> QED  BY <1>1, <2>1, <2>2, <2>3 DEF RetrievalTypeOK, RetrievalInv, RetrievalTypes
<1> QED  BY <1>1, RetrievalInvariant, PTL

-----------------------------------------------------------------------------
(* The vector indexes *)

VecChunks == UNION {Range(c) : c \in ChunkLists}

VecStage == IF kind = "openai" THEN {"delete", "upload", "attach", "wait"} ELSE {"delete", "upsert"}

IndexJobs == [at : {"delete", "upsert", "upload", "attach", "wait"}, source : VecSources,
              wants : ChunkLists, left : Seq(VecChunks), todo : Seq(Nat), file : Nat,
              alone : BOOLEAN]

VecTypes ==
    /\ kind \in VecBackends /\ files \in Nat
    /\ indexer \in [Indexers -> IndexJobs \cup {NotIndexing}]
    /\ sourceFiles \in [VecSources -> Seq(Nat)]
    /\ settled \in [VecSources -> ChunkLists \cup {NotSettled}]
    /\ unhurt \in SUBSET VecSources

\* The requests on a source.
WorksOn(q, s) == indexer[q].at # "idle" /\ indexer[q].source = s

StagesFit ==
    \A q \in Indexers : indexer[q].at # "idle" =>
        /\ indexer[q].at \in VecStage
        /\ indexer[q].at # "delete" =>
              indexer[q].left # <<>> /\ (kind = "openai" => indexer[q].todo = <<>>)

EntriesFit ==
    kind # "openai" => \A e \in held : e = Entry(<<e.source, e.chunk>>, e.source, e.chunk)

\* The entries that go back to the files a source has been given.
Filed(s, wants) ==
    {Entry(sourceFiles[s][i], s, wants[i]) : i \in 1..Len(sourceFiles[s])}
Keyed(s, wants) == {Entry(<<s, c>>, s, c) : c \in Range(wants)}

\* What is left of the chunks when n of them are in.
LeftOf(wants, left, n) ==
    /\ n + Len(left) = Len(wants)
    /\ \A i \in 1..Len(left) : left[i] = wants[n + i]

\* What a source has in the index while a request has it to itself.
JobFits(s, job_) ==
    IF kind = "openai"
    THEN s \in unhurt =>
            /\ job_.at = "delete" => sourceFiles[s] = <<>> /\ job_.left = job_.wants
            /\ job_.at \in {"upload", "attach", "wait"} =>
                  /\ LeftOf(job_.wants, job_.left, Len(sourceFiles[s]))
                  /\ Search(s) = Filed(s, job_.wants) \cup
                        (IF job_.at = "wait" THEN {Entry(job_.file, s, job_.left[1])} ELSE {})
    ELSE /\ job_.left = job_.wants
         /\ job_.at = "upsert" => Search(s) = {}

\* And afterwards.
SettledFits(s, wants) ==
    IF kind = "openai"
    THEN s \in unhurt => Len(sourceFiles[s]) = Len(wants) /\ Search(s) = Filed(s, wants)
    ELSE Search(s) = Keyed(s, wants)

\* A file that can be found again.
Remembered(s, f) ==
    \/ f \in Range(sourceFiles[s])
    \/ \E q \in Indexers :
          WorksOn(q, s) /\ (f \in Range(indexer[q].todo) \/ (At(q, "wait") /\ indexer[q].file = f))

SourceOK(s) ==
    /\ settled[s] # NotSettled => (\A q \in Indexers : ~WorksOn(q, s)) /\ SettledFits(s, settled[s])
    /\ \A q \in Indexers : WorksOn(q, s) /\ indexer[q].alone =>
          (\A p \in Indexers : WorksOn(p, s) => p = q) /\ JobFits(s, indexer[q])
    /\ kind = "openai" /\ s \in unhurt => \A e \in Search(s) : Remembered(s, e.id)

\* A file belongs to one source.
Owns(s, f) == f \in 1..files /\ \A e \in held : e.id = f => e.source = s

InHand(q) == indexer[q].at \in {"attach", "wait"}

\* The file in hand is nobody else's, and was not there before it is attached.
HandApart(q) ==
    LET f == indexer[q].file
    IN  /\ f \in 1..files
        /\ \A s \in VecSources : f \notin Range(sourceFiles[s])
        /\ \A p \in Indexers : indexer[p].at # "idle" =>
              /\ f \notin Range(indexer[p].todo)
              /\ p # q /\ InHand(p) => indexer[p].file # f
        /\ At(q, "attach") => \A e \in held : e.id # f
        /\ At(q, "wait") => Owns(indexer[q].source, f)

FilesApart ==
    kind = "openai" =>
        /\ \A e \in held : e.id \in 1..files
        /\ \A s \in VecSources :
              IsInjective(sourceFiles[s]) /\ \A f \in Range(sourceFiles[s]) : Owns(s, f)
        /\ \A q \in Indexers : indexer[q].at # "idle" =>
              \A f \in Range(indexer[q].todo) : Owns(indexer[q].source, f)
        /\ \A q \in Indexers : InHand(q) => HandApart(q)

HeldTyped == \A e \in held : \E id, s, c : s \in VecSources /\ e = Entry(id, s, c)

VecInv ==
    /\ VecTypes /\ StagesFit /\ HeldTyped /\ EntriesFit /\ FilesApart
    /\ \A s \in VecSources : SourceOK(s)

-----------------------------------------------------------------------------
\* The chunks of a list are different ones.
LEMMA ChunkListTyped ==
    ASSUME NEW c \in ChunkLists
    PROVE  c \in Seq(VecChunks) /\ IsInjective(c) /\ Range(c) \subseteq VecChunks
<1>1. c \in Seq(Range(c)) /\ IsInjective(c)
  BY VecAssumption
<1>2. Range(c) \subseteq VecChunks
  BY DEF VecChunks
<1> QED  BY <1>1, <1>2

\* What a request at work does has its type.
LEMMA JobTyped ==
    ASSUME VecTypes, NEW q \in Indexers, indexer[q].at # "idle" PROVE indexer[q] \in IndexJobs
  BY DEF VecTypes, NotIndexing

\* A step of a request that leaves the other requests and sources alone.
OnlySource(q, s) ==
    /\ kind' = kind
    /\ \A p \in Indexers : p # q =>
          indexer'[p] = indexer[p] \/ (indexer[p].source = s /\ indexer'[p].source = s)
    /\ At(q, "idle") \/ indexer[q].source = s
    /\ indexer'[q].at = "idle" \/ indexer'[q].source = s
    /\ \A e : e.source # s => (e \in held' <=> e \in held)
    /\ \A t \in VecSources : t # s =>
          /\ sourceFiles'[t] = sourceFiles[t] /\ settled'[t] = settled[t]
          /\ t \in unhurt' => t \in unhurt

\* A step for one source leaves the others as they should be.
LEMMA OthersKeptVec ==
    ASSUME VecInv, NEW q \in Indexers, NEW s \in VecSources, OnlySource(q, s),
           NEW t \in VecSources, t # s
    PROVE  SourceOK(t)'
<1>1. SourceOK(t)
  BY DEF VecInv
<1>2. /\ kind' = kind /\ sourceFiles'[t] = sourceFiles[t] /\ settled'[t] = settled[t]
      /\ t \in unhurt' => t \in unhurt
  BY DEF OnlySource
<1>3. Search(t)' = Search(t)
  BY DEF Search, OnlySource
<1>4. \A p \in Indexers : WorksOn(p, t)' <=> WorksOn(p, t)
  BY DEF OnlySource, WorksOn, At
<1>5. \A p \in Indexers : WorksOn(p, t) => indexer'[p] = indexer[p]
  BY DEF OnlySource, WorksOn, At
<1>6. \A f : Remembered(t, f) => Remembered(t, f)'
  BY <1>2, <1>4, <1>5 DEF Remembered, At
<1>7. \A w : Filed(t, w)' = Filed(t, w)
  BY <1>2 DEF Filed, Entry
<1>8. \A w : SettledFits(t, w) => SettledFits(t, w)'
  BY <1>2, <1>3, <1>7 DEF SettledFits, Keyed, Entry
<1>9. ASSUME NEW j, JobFits(t, j) PROVE JobFits(t, j)'
  BY <1>2, <1>3, <1>7, <1>9 DEF JobFits, Entry, LeftOf
<1>10. ASSUME NEW p \in Indexers, WorksOn(p, t)', indexer'[p].alone
       PROVE  (\A r \in Indexers : WorksOn(r, t)' => r = p) /\ JobFits(t, indexer[p])'
  <2>1. WorksOn(p, t) /\ indexer'[p] = indexer[p]
    BY <1>4, <1>5, <1>10
  <2>2. (\A r \in Indexers : WorksOn(r, t) => r = p) /\ JobFits(t, indexer[p])
    BY <1>1, <1>10, <2>1 DEF SourceOK
  <2>3. PICK j : j = indexer[p] /\ j = indexer'[p]
    BY <2>1
  <2>4. JobFits(t, j)'
    BY <1>9, <2>2, <2>3
  <2> QED  BY <1>4, <2>2, <2>3, <2>4
<1>11. kind' = "openai" /\ t \in unhurt' => \A e \in Search(t)' : Remembered(t, e.id)'
  BY <1>1, <1>2, <1>3, <1>6 DEF SourceOK
<1>12. settled'[t] # NotSettled => (\A p \in Indexers : ~WorksOn(p, t)') /\ SettledFits(t, settled[t])'
  <2>1. PICK w : w = settled[t] /\ w = settled'[t]
    BY <1>2
  <2>2. w # NotSettled => (\A p \in Indexers : ~WorksOn(p, t)') /\ SettledFits(t, w)'
    BY <1>1, <1>4, <1>8, <2>1 DEF SourceOK
  <2> QED  BY <2>1, <2>2
<1> QED  BY <1>10, <1>11, <1>12 DEF SourceOK

-----------------------------------------------------------------------------
VecShape == VecTypes /\ StagesFit /\ HeldTyped /\ EntriesFit

\* A request moves on to a stage of its own.
LEMMA MovesTyped ==
    ASSUME VecShape, NEW q \in Indexers, NEW j \in IndexJobs \cup {NotIndexing}, Moves(q, j),
           kind' = kind,
           j.at # "idle" => j.at \in VecStage,
           j.at # "idle" /\ j.at # "delete" => j.left # <<>> /\ (kind = "openai" => j.todo = <<>>)
    PROVE  /\ indexer' \in [Indexers -> IndexJobs \cup {NotIndexing}] /\ StagesFit'
           /\ indexer'[q] = j /\ \A p \in Indexers : p # q => indexer'[p] = indexer[p]
<1>1. indexer \in [Indexers -> IndexJobs \cup {NotIndexing}]
  BY DEF VecShape, VecTypes
<1>2. /\ indexer' \in [Indexers -> IndexJobs \cup {NotIndexing}]
      /\ indexer'[q] = j /\ \A p \in Indexers : p # q => indexer'[p] = indexer[p]
  BY <1>1 DEF Moves
<1>3. VecStage' = VecStage
  BY DEF VecStage
<1> HIDE DEF VecStage
<1>4. StagesFit'
  <2> SUFFICES ASSUME NEW p \in Indexers, indexer'[p].at # "idle"
               PROVE  /\ indexer'[p].at \in VecStage
                      /\ indexer'[p].at # "delete" =>
                            indexer'[p].left # <<>> /\ (kind = "openai" => indexer'[p].todo = <<>>)
    BY <1>3 DEF StagesFit
  <2>1. CASE p = q
    BY <1>2, <2>1
  <2>2. CASE p # q
    BY <1>2, <2>2 DEF VecShape, StagesFit
  <2> QED  BY <2>1, <2>2
<1> QED  BY <1>2, <1>4

\* What Inserts does: the request goes on inserting, or comes to its end.
LEMMA InsertsTyped ==
    ASSUME VecShape, NEW q \in Indexers, indexer[q].at # "idle", NEW left \in Seq(VecChunks),
           Inserts(q, left), kind' = kind, kind = "openai" => indexer[q].todo = <<>>
    PROVE  /\ indexer' \in [Indexers -> IndexJobs \cup {NotIndexing}] /\ StagesFit'
           /\ settled' \in [VecSources -> ChunkLists \cup {NotSettled}]
           /\ \A p \in Indexers : p # q => indexer'[p] = indexer[p]
           /\ \A s \in VecSources : s # indexer[q].source => settled'[s] = settled[s]
           /\ left = <<>> =>
                 /\ indexer'[q] = NotIndexing
                 /\ settled'[indexer[q].source] =
                       IF indexer[q].alone THEN indexer[q].wants ELSE NotSettled
           /\ left # <<>> =>
                 /\ settled' = settled
                 /\ indexer'[q] = [indexer[q] EXCEPT !.left = left,
                                      !.at = IF kind = "openai" THEN "upload" ELSE "upsert"]
                 /\ indexer'[q].left = left /\ indexer'[q].source = indexer[q].source
                 /\ indexer'[q].at = IF kind = "openai" THEN "upload" ELSE "upsert"
                 /\ indexer'[q].wants = indexer[q].wants /\ indexer'[q].alone = indexer[q].alone
                 /\ indexer'[q].todo = indexer[q].todo /\ indexer'[q].file = indexer[q].file
<1>1. indexer[q] \in IndexJobs /\ settled \in [VecSources -> ChunkLists \cup {NotSettled}]
  BY JobTyped DEF VecShape, VecTypes
<1>2. CASE left = <<>>
  <2>1. /\ Moves(q, NotIndexing)
        /\ settled' = [settled EXCEPT ![indexer[q].source] =
               IF indexer[q].alone THEN indexer[q].wants ELSE NotSettled]
    BY <1>2 DEF Inserts
  <2>2. indexer[q].source \in VecSources /\ indexer[q].wants \in ChunkLists
    BY <1>1 DEF IndexJobs
  <2>3. NotIndexing.at = "idle"
    BY DEF NotIndexing
  <2>4. /\ indexer' \in [Indexers -> IndexJobs \cup {NotIndexing}] /\ StagesFit'
        /\ indexer'[q] = NotIndexing /\ \A p \in Indexers : p # q => indexer'[p] = indexer[p]
    BY <2>1, <2>3, MovesTyped
  <2> QED  BY <1>1, <1>2, <2>1, <2>2, <2>4
<1>3. CASE left # <<>>
  <2> DEFINE j == [indexer[q] EXCEPT !.left = left,
                                     !.at = IF kind = "openai" THEN "upload" ELSE "upsert"]
  <2>1. Moves(q, j) /\ settled' = settled
    BY <1>3 DEF Inserts
  <2>2. /\ j \in IndexJobs /\ j.left = left
        /\ j.at = IF kind = "openai" THEN "upload" ELSE "upsert"
        /\ j.source = indexer[q].source /\ j.wants = indexer[q].wants
        /\ j.alone = indexer[q].alone /\ j.todo = indexer[q].todo /\ j.file = indexer[q].file
    BY <1>1 DEF IndexJobs
  <2>3. j.at \in VecStage
    BY <2>2 DEF VecStage
  <2> HIDE DEF j
  <2>4. /\ indexer' \in [Indexers -> IndexJobs \cup {NotIndexing}] /\ StagesFit'
        /\ indexer'[q] = j /\ \A p \in Indexers : p # q => indexer'[p] = indexer[p]
    BY <1>3, <2>1, <2>2, <2>3, MovesTyped
  <2>5. indexer'[q] = [indexer[q] EXCEPT !.left = left,
                         !.at = IF kind = "openai" THEN "upload" ELSE "upsert"]
    BY <2>4 DEF j
  <2> QED  BY <1>1, <1>3, <2>1, <2>2, <2>4, <2>5
<1> QED  BY <1>2, <1>3

\* The fields of an entry.
LEMMA EntryIs ==
    ASSUME NEW id, NEW s, NEW c
    PROVE  Entry(id, s, c).id = id /\ Entry(id, s, c).source = s /\ Entry(id, s, c).chunk = c
  BY DEF Entry

\* What a request leaves in the index after its Inserts, if it is as it should be.
LEMMA InsertsOK ==
    ASSUME VecInv, NEW q \in Indexers, NEW s \in VecSources, WorksOn(q, s),
           NEW left \in Seq(VecChunks), Inserts(q, left), kind' = kind,
           kind = "openai" => indexer[q].todo = <<>>,
           NEW w, w = indexer[q].wants,
           indexer[q].alone /\ left = <<>> => SettledFits(s, w)',
           indexer[q].alone /\ left # <<>> => JobFits(s, indexer[q])',
           kind = "openai" /\ s \in unhurt' => \A e \in Search(s)' : Remembered(s, e.id)'
    PROVE  SourceOK(s)'
<1>1. VecShape /\ indexer[q].at # "idle" /\ indexer[q].source = s /\ SourceOK(s)
  BY DEF VecInv, VecShape, WorksOn
<1>2. /\ \A p \in Indexers : p # q => indexer'[p] = indexer[p]
      /\ left = <<>> =>
            /\ indexer'[q] = NotIndexing
            /\ settled'[s] = IF indexer[q].alone THEN w ELSE NotSettled
      /\ left # <<>> =>
            /\ settled' = settled
            /\ indexer'[q] = [indexer[q] EXCEPT !.left = left,
                                 !.at = IF kind = "openai" THEN "upload" ELSE "upsert"]
  BY <1>1, InsertsTyped
<1>3. settled[s] = NotSettled
  BY <1>1 DEF SourceOK, WorksOn
<1>4. \A p \in Indexers : WorksOn(p, s)' => p = q \/ WorksOn(p, s)
  BY <1>2 DEF WorksOn, At
<1>5. \A p \in Indexers : p # q /\ WorksOn(p, s) => ~indexer[q].alone /\ ~indexer[p].alone
  BY <1>1 DEF SourceOK, WorksOn
<1>6. ASSUME settled'[s] # NotSettled
      PROVE  (\A p \in Indexers : ~WorksOn(p, s)') /\ SettledFits(s, settled[s])'
  <2>1. left = <<>> /\ indexer[q].alone /\ settled'[s] = w
    BY <1>2, <1>3, <1>6
  <2>2. ~WorksOn(q, s)'
    BY <1>2, <2>1 DEF WorksOn, NotIndexing
  <2>3. \A p \in Indexers : ~WorksOn(p, s)'
    BY <1>4, <1>5, <2>1, <2>2
  <2>4. SettledFits(s, w)'
    BY <2>1
  <2> QED  BY <2>1, <2>3, <2>4
<1>7. ASSUME NEW p \in Indexers, WorksOn(p, s)', indexer'[p].alone
      PROVE  (\A r \in Indexers : WorksOn(r, s)' => r = p) /\ JobFits(s, indexer[p])'
  <2>1. p = q
    BY <1>2, <1>4, <1>5, <1>7
  <2>2. left # <<>>
    BY <1>2, <1>7, <2>1 DEF WorksOn, NotIndexing
  <2>3. indexer[q].alone
    <3>1. indexer[q] \in IndexJobs
      BY <1>1, JobTyped DEF VecShape
    <3> QED  BY <1>2, <1>7, <2>1, <2>2, <3>1 DEF IndexJobs
  <2> QED  BY <1>4, <1>5, <2>1, <2>2, <2>3
<1> QED  BY <1>6, <1>7 DEF SourceOK

-----------------------------------------------------------------------------
\* A request begins: what was remembered of the source is forgotten.
LEMMA IndexBegins ==
    ASSUME VecInv, NEW q \in Indexers, NEW s \in VecSources, NEW c \in ChunkLists, IndexSource(q, s, c)
    PROVE  VecInv'
<1> DEFINE overlaps == AtWorkOn(s) # {}
           job_ == [at |-> "delete", source |-> s, wants |-> c, left |-> c,
                    todo |-> sourceFiles[s], file |-> 0, alone |-> ~overlaps]
<1>1. /\ At(q, "idle")
      /\ indexer' = [p \in Indexers |->
              IF p = q THEN job_
              ELSE IF p \in AtWorkOn(s) THEN [indexer[p] EXCEPT !.alone = FALSE]
              ELSE indexer[p]]
      /\ sourceFiles' = [sourceFiles EXCEPT ![s] = <<>>]
      /\ settled' = [settled EXCEPT ![s] = NotSettled]
      /\ UNCHANGED <<kind, held, files, unhurt>>
  BY DEF IndexSource
<1>2. VecTypes /\ StagesFit /\ HeldTyped /\ EntriesFit /\ FilesApart /\ \A t \in VecSources : SourceOK(t)
  BY DEF VecInv
<1>3. job_ \in IndexJobs
  <2>1. overlaps \in BOOLEAN
    OBVIOUS
  <2>2. sourceFiles[s] \in Seq(Nat) /\ c \in Seq(VecChunks)
    BY <1>2, ChunkListTyped DEF VecTypes
  <2> HIDE DEF overlaps
  <2> QED  BY <2>1, <2>2 DEF IndexJobs
<1>4. /\ job_.at = "delete" /\ job_.source = s /\ job_.wants = c /\ job_.left = c
      /\ job_.todo = sourceFiles[s] /\ (job_.alone <=> AtWorkOn(s) = {})
  OBVIOUS
<1> HIDE DEF job_
<1>5. /\ indexer'[q] = job_
      /\ \A p \in Indexers : p # q /\ ~WorksOn(p, s) => indexer'[p] = indexer[p]
      /\ \A p \in Indexers : p # q /\ WorksOn(p, s) => indexer'[p] = [indexer[p] EXCEPT !.alone = FALSE]
  BY <1>1 DEF AtWorkOn, WorksOn
<1>6. ASSUME NEW p \in Indexers, WorksOn(p, s)
      PROVE  /\ [indexer[p] EXCEPT !.alone = FALSE] \in IndexJobs
             /\ indexer'[p].at = indexer[p].at /\ indexer'[p].source = s
             /\ indexer'[p].left = indexer[p].left /\ indexer'[p].todo = indexer[p].todo
             /\ indexer'[p].file = indexer[p].file /\ indexer'[p].alone = FALSE
  <2>1. indexer[p] \in IndexJobs /\ p # q
    BY <1>1, <1>2, <1>6, JobTyped DEF WorksOn, At
  <2> QED  BY <1>5, <1>6, <2>1 DEF IndexJobs, WorksOn
<1>7. \A p \in Indexers : p # q =>
         /\ indexer'[p].at = indexer[p].at
         /\ indexer[p].at # "idle" =>
               /\ indexer'[p].source = indexer[p].source /\ indexer'[p].left = indexer[p].left
               /\ indexer'[p].todo = indexer[p].todo /\ indexer'[p].file = indexer[p].file
  BY <1>5, <1>6 DEF WorksOn
<1>8. VecTypes'
  <2>1. \A p \in Indexers : indexer'[p] \in IndexJobs \cup {NotIndexing}
    <3> TAKE p \in Indexers
    <3>1. CASE p = q
      BY <1>3, <1>5, <3>1
    <3>2. CASE p # q /\ WorksOn(p, s)
      BY <1>5, <1>6, <3>2
    <3>3. CASE p # q /\ ~WorksOn(p, s)
      BY <1>2, <1>5, <3>3 DEF VecTypes
    <3> QED  BY <3>1, <3>2, <3>3
  <2>2. indexer' \in [Indexers -> IndexJobs \cup {NotIndexing}]
    BY <1>1, <2>1
  <2>3. sourceFiles' \in [VecSources -> Seq(Nat)]
    BY <1>1, <1>2 DEF VecTypes
  <2>4. settled' \in [VecSources -> ChunkLists \cup {NotSettled}]
    BY <1>1, <1>2 DEF VecTypes
  <2> QED  BY <1>1, <1>2, <2>2, <2>3, <2>4 DEF VecTypes
<1>9. StagesFit'
  <2> SUFFICES ASSUME NEW p \in Indexers, indexer'[p].at # "idle"
               PROVE  /\ indexer'[p].at \in VecStage
                      /\ indexer'[p].at # "delete" =>
                            indexer'[p].left # <<>> /\ (kind = "openai" => indexer'[p].todo = <<>>)
    BY <1>1 DEF StagesFit, VecStage
  <2>1. CASE p = q
    BY <1>4, <1>5, <2>1 DEF VecStage
  <2>2. CASE p # q
    <3>1. /\ indexer[p].at # "idle" /\ indexer'[p].at = indexer[p].at
          /\ indexer'[p].left = indexer[p].left /\ indexer'[p].todo = indexer[p].todo
      BY <1>7, <2>2
    <3> QED  BY <1>2, <3>1 DEF StagesFit
  <2> QED  BY <2>1, <2>2
<1>10. HeldTyped' /\ EntriesFit'
  BY <1>1, <1>2 DEF HeldTyped, EntriesFit
<1>11. \A t \in VecSources : Range(sourceFiles'[t]) \subseteq Range(sourceFiles[t])
  <2> TAKE t \in VecSources
  <2>1. CASE t = s
    <3>1. Range(<<>>) = {}
      BY DEF Range
    <3> QED  BY <1>1, <1>2, <2>1, <3>1 DEF VecTypes
  <2>2. CASE t # s
    BY <1>1, <1>2, <2>2 DEF VecTypes
  <2> QED  BY <2>1, <2>2
<1>12. FilesApart'
  <2> SUFFICES ASSUME kind = "openai"
               PROVE  /\ \A e \in held : e.id \in 1..files
                      /\ \A t \in VecSources :
                            IsInjective(sourceFiles'[t]) /\ \A f \in Range(sourceFiles'[t]) : Owns(t, f)
                      /\ \A p \in Indexers : indexer'[p].at # "idle" =>
                            \A f \in Range(indexer'[p].todo) : Owns(indexer'[p].source, f)
                      /\ \A p \in Indexers : InHand(p)' => HandApart(p)'
    BY <1>1 DEF FilesApart, Owns
  <2>1. /\ \A e \in held : e.id \in 1..files
        /\ \A t \in VecSources :
              IsInjective(sourceFiles[t]) /\ \A f \in Range(sourceFiles[t]) : Owns(t, f)
        /\ \A p \in Indexers : indexer[p].at # "idle" =>
              \A f \in Range(indexer[p].todo) : Owns(indexer[p].source, f)
        /\ \A p \in Indexers : InHand(p) => HandApart(p)
    BY <1>2 DEF FilesApart
  <2>2. ASSUME NEW t \in VecSources
        PROVE  IsInjective(sourceFiles'[t]) /\ \A f \in Range(sourceFiles'[t]) : Owns(t, f)
    <3>1. IsInjective(sourceFiles'[t])
      <4>1. CASE t = s
        BY <1>1, <1>2, <4>1 DEF VecTypes, IsInjective
      <4>2. CASE t # s
        BY <1>1, <1>2, <2>1, <4>2 DEF VecTypes
      <4> QED  BY <4>1, <4>2
    <3> QED  BY <1>11, <2>1, <3>1
  <2>3. ASSUME NEW p \in Indexers, indexer'[p].at # "idle", NEW f \in Range(indexer'[p].todo)
        PROVE  Owns(indexer'[p].source, f)
    <3>1. CASE p = q
      BY <1>4, <1>5, <2>1, <2>3, <3>1
    <3>2. CASE p # q
      <4>1. indexer[p].at # "idle" /\ indexer'[p].source = indexer[p].source
            /\ indexer'[p].todo = indexer[p].todo
        BY <1>7, <2>3, <3>2
      <4> QED  BY <2>1, <2>3, <4>1
    <3> QED  BY <3>1, <3>2
  <2>4. ASSUME NEW p \in Indexers, InHand(p)' PROVE HandApart(p)'
    <3>1. p # q
      BY <1>4, <1>5, <2>4 DEF InHand
    <3>2. /\ indexer'[p].at = indexer[p].at /\ indexer'[p].file = indexer[p].file
          /\ indexer'[p].source = indexer[p].source /\ InHand(p)
      BY <1>7, <2>4, <3>1 DEF InHand
    <3>3. HandApart(p)
      BY <2>1, <3>2
    <3>4. PICK f : f = indexer[p].file /\ f = indexer'[p].file
      BY <3>2
    <3>5. \A t \in VecSources : f \notin Range(sourceFiles'[t])
      BY <1>11, <3>3, <3>4 DEF HandApart
    <3>6. ASSUME NEW r \in Indexers, indexer'[r].at # "idle"
          PROVE  /\ f \notin Range(indexer'[r].todo)
                 /\ r # p /\ InHand(r)' => indexer'[r].file # f
      <4>1. CASE r = q
        BY <1>4, <1>5, <3>3, <3>4, <4>1 DEF HandApart, InHand
      <4>2. CASE r # q
        <5>1. /\ indexer[r].at # "idle" /\ indexer'[r].todo = indexer[r].todo
              /\ indexer'[r].file = indexer[r].file /\ indexer'[r].at = indexer[r].at
          BY <1>7, <3>6, <4>2
        <5> QED  BY <3>3, <3>4, <5>1 DEF HandApart, InHand
      <4> QED  BY <4>1, <4>2
    <3> QED  BY <1>1, <3>2, <3>3, <3>4, <3>5, <3>6 DEF HandApart, Owns, At
  <2> QED  BY <2>1, <2>2, <2>3, <2>4
<1>13. ASSUME NEW t \in VecSources, t # s PROVE SourceOK(t)'
  <2>1. \A p \in Indexers : p # q =>
           indexer'[p] = indexer[p] \/ (indexer[p].source = s /\ indexer'[p].source = s)
    BY <1>5, <1>6 DEF WorksOn
  <2>2. \A u \in VecSources : u # s => sourceFiles'[u] = sourceFiles[u] /\ settled'[u] = settled[u]
    BY <1>1, <1>2 DEF VecTypes
  <2>3. OnlySource(q, s)
    BY <1>1, <1>4, <1>5, <2>1, <2>2 DEF OnlySource
  <2> QED  BY <1>13, <2>3, OthersKeptVec
<1>14. SourceOK(s)'
  <2>1. settled'[s] = NotSettled
    BY <1>1, <1>2 DEF VecTypes
  <2>2. WorksOn(q, s)' /\ \A p \in Indexers : p # q => (WorksOn(p, s)' <=> WorksOn(p, s))
    BY <1>4, <1>5, <1>7 DEF WorksOn
  <2>3. ASSUME NEW p \in Indexers, WorksOn(p, s)', indexer'[p].alone
        PROVE  (\A r \in Indexers : WorksOn(r, s)' => r = p) /\ JobFits(s, indexer[p])'
    <3>1. p = q /\ AtWorkOn(s) = {}
      BY <1>4, <1>5, <1>6, <2>2, <2>3
    <3>2. \A r \in Indexers : WorksOn(r, s)' => r = p
      BY <2>2, <3>1 DEF AtWorkOn, WorksOn
    <3>3. sourceFiles'[s] = <<>>
      BY <1>1, <1>2 DEF VecTypes
    <3>4. JobFits(s, indexer[p])'
      BY <1>4, <1>5, <3>1, <3>3 DEF JobFits
    <3> QED  BY <3>2, <3>4
  <2>4. ASSUME kind' = "openai", s \in unhurt', NEW e \in Search(s)' PROVE Remembered(s, e.id)'
    <3>1. Remembered(s, e.id)
      BY <1>1, <1>2, <2>4 DEF SourceOK, Search
    <3>2. CASE e.id \in Range(sourceFiles[s])
      BY <1>4, <1>5, <2>2, <3>2 DEF Remembered
    <3>3. ASSUME NEW p \in Indexers, WorksOn(p, s),
                 e.id \in Range(indexer[p].todo) \/ (At(p, "wait") /\ indexer[p].file = e.id)
          PROVE  Remembered(s, e.id)'
      <4>1. p # q
        BY <1>1, <3>3 DEF WorksOn, At
      <4> QED  BY <1>7, <2>2, <3>3, <4>1 DEF Remembered, WorksOn, At
    <3> QED  BY <3>1, <3>2, <3>3 DEF Remembered
  <2> QED  BY <2>1, <2>3, <2>4 DEF SourceOK
<1> QED  BY <1>8, <1>9, <1>10, <1>12, <1>13, <1>14 DEF VecInv

-----------------------------------------------------------------------------
\* The indexes that are told a source's name.
LEMMA SearchRest ==
    ASSUME NEW s, held' = held \ Search(s)
    PROVE  Search(s)' = {} /\ \A e : e.source # s => (e \in held' <=> e \in held)
  BY DEF Search

\* Entries named by their chunks fill an empty source.
LEMMA KeyedInserts ==
    ASSUME NEW s, NEW wants, held' = held \cup Keyed(s, wants), Search(s) = {}
    PROVE  Search(s)' = Keyed(s, wants)
<1>1. \A e \in Keyed(s, wants) : e.source = s
  BY DEF Keyed, Entry
<1> QED  BY <1>1 DEF Search

\* What a source has in the index is removed by its name.
LEMMA FilterDeleted == ASSUME VecInv, NEW q \in Indexers, DeleteByFilter(q) PROVE VecInv'
<1>1. VecTypes /\ StagesFit /\ HeldTyped /\ EntriesFit /\ FilesApart /\ VecShape
      /\ \A t \in VecSources : SourceOK(t)
  BY DEF VecInv, VecShape
<1>2. /\ indexer[q].at = "delete" /\ kind # "openai" /\ kind' = kind
      /\ held' = held \ Search(indexer[q].source) /\ Inserts(q, indexer[q].left)
      /\ UNCHANGED <<files, sourceFiles, unhurt>>
  BY DEF DeleteByFilter, VecQuiet, At
<1>3. indexer[q] \in IndexJobs
  BY <1>1, <1>2, JobTyped
<1>4. PICK s, left, w : s = indexer[q].source /\ left = indexer[q].left /\ w = indexer[q].wants
  OBVIOUS
<1>5. s \in VecSources /\ left \in Seq(VecChunks) /\ w \in ChunkLists /\ WorksOn(q, s)
  BY <1>2, <1>3, <1>4 DEF IndexJobs, WorksOn
<1>6. /\ indexer' \in [Indexers -> IndexJobs \cup {NotIndexing}] /\ StagesFit'
      /\ settled' \in [VecSources -> ChunkLists \cup {NotSettled}]
      /\ \A p \in Indexers : p # q => indexer'[p] = indexer[p]
      /\ \A t \in VecSources : t # s => settled'[t] = settled[t]
      /\ left = <<>> => indexer'[q] = NotIndexing
      /\ left # <<>> => indexer'[q].source = s /\ indexer'[q].left = left /\ indexer'[q].wants = w
  BY <1>1, <1>2, <1>4, <1>5, InsertsTyped
<1>7. Search(s)' = {} /\ \A e : e.source # s => (e \in held' <=> e \in held)
  BY <1>2, <1>4, SearchRest
<1>8. VecTypes' /\ HeldTyped' /\ EntriesFit' /\ FilesApart'
  BY <1>1, <1>2, <1>6 DEF VecTypes, HeldTyped, EntriesFit, FilesApart
<1>9. OnlySource(q, s)
  <2>1. indexer'[q].at = "idle" \/ indexer'[q].source = s
    BY <1>6 DEF NotIndexing
  <2> QED  BY <1>2, <1>4, <1>6, <1>7, <2>1 DEF OnlySource
<1>10. indexer[q].alone => left = w
  BY <1>1, <1>2, <1>4, <1>5 DEF SourceOK, JobFits
<1>11. SourceOK(s)'
  <2>1. ASSUME indexer[q].alone, left = <<>> PROVE SettledFits(s, w)'
    <3>1. Keyed(s, w)' = {}
      BY <1>10, <2>1 DEF Keyed, Range
    <3> QED  BY <1>2, <1>7, <3>1 DEF SettledFits
  <2>2. ASSUME indexer[q].alone, left # <<>> PROVE JobFits(s, indexer[q])'
    <3>1. indexer'[q].left = left /\ indexer'[q].wants = w
      BY <1>6, <2>2
    <3> QED  BY <1>2, <1>7, <1>10, <2>2, <3>1 DEF JobFits
  <2>3. Inserts(q, left)
    BY <1>2, <1>4
  <2> QED  BY <1>2, <1>4, <1>5, <2>1, <2>2, <2>3, InsertsOK
<1> QED  BY <1>5, <1>6, <1>8, <1>9, <1>11, OthersKeptVec DEF VecInv

\* The entries a call inserts are of its source.
LEMMA UpsertTyped ==
    ASSUME VecInv, NEW s \in VecSources, NEW left \in Seq(VecChunks), kind # "openai", kind' = kind,
           held' = held \cup {Entry(<<s, c>>, s, c) : c \in Range(left)}
    PROVE  HeldTyped' /\ EntriesFit' /\ \A e : e.source # s => (e \in held' <=> e \in held)
<1>1. HeldTyped /\ EntriesFit
  BY DEF VecInv
<1>2. ASSUME NEW e \in held' PROVE e \in held \/ \E c : e = Entry(<<s, c>>, s, c)
  OBVIOUS
<1>3. \A c : Entry(<<s, c>>, s, c).source = s /\ Entry(<<s, c>>, s, c).chunk = c
  BY DEF Entry
<1>4. HeldTyped'
  BY <1>1, <1>2 DEF HeldTyped, Entry
<1>5. EntriesFit'
  <2> SUFFICES ASSUME NEW e \in held' PROVE e = Entry(<<e.source, e.chunk>>, e.source, e.chunk)
    BY DEF EntriesFit, Entry
  <2>1. CASE e \in held
    BY <1>1, <2>1 DEF EntriesFit
  <2>2. CASE \E c : e = Entry(<<s, c>>, s, c)
    BY <1>3, <2>2
  <2> QED  BY <1>2, <2>1, <2>2
<1>6. \A e : e.source # s => (e \in held' <=> e \in held)
  BY <1>3
<1> QED  BY <1>4, <1>5, <1>6

\* All chunks of a source are inserted at once.
LEMMA AllUpserted == ASSUME VecInv, NEW q \in Indexers, UpsertAll(q) PROVE VecInv'
<1>1. VecTypes /\ StagesFit /\ HeldTyped /\ EntriesFit /\ FilesApart /\ VecShape
      /\ \A t \in VecSources : SourceOK(t)
  BY DEF VecInv, VecShape
<1>2. PICK s, left, w : s = indexer[q].source /\ left = indexer[q].left /\ w = indexer[q].wants
  OBVIOUS
<1>3. /\ indexer[q].at = "upsert" /\ kind' = kind
      /\ held' = held \cup {Entry(<<s, c>>, s, c) : c \in Range(left)} /\ Inserts(q, <<>>)
      /\ UNCHANGED <<files, sourceFiles, unhurt>>
  BY <1>2 DEF UpsertAll, VecQuiet, At
<1>4. kind # "openai"
  BY <1>1, <1>3 DEF StagesFit, VecStage
<1>5. indexer[q] \in IndexJobs
  BY <1>1, <1>3, JobTyped
<1>6. s \in VecSources /\ left \in Seq(VecChunks) /\ w \in ChunkLists /\ WorksOn(q, s)
      /\ <<>> \in Seq(VecChunks)
  BY <1>2, <1>3, <1>5 DEF IndexJobs, WorksOn
<1>7. /\ indexer' \in [Indexers -> IndexJobs \cup {NotIndexing}] /\ StagesFit'
      /\ settled' \in [VecSources -> ChunkLists \cup {NotSettled}]
      /\ \A p \in Indexers : p # q => indexer'[p] = indexer[p]
      /\ \A t \in VecSources : t # s => settled'[t] = settled[t]
      /\ indexer'[q] = NotIndexing
  BY <1>1, <1>2, <1>3, <1>4, <1>6, InsertsTyped
<1>8. HeldTyped' /\ EntriesFit' /\ \A e : e.source # s => (e \in held' <=> e \in held)
  BY <1>3, <1>4, <1>6, UpsertTyped
<1>9. VecTypes' /\ FilesApart'
  BY <1>1, <1>3, <1>4, <1>7 DEF VecTypes, FilesApart
<1>10. OnlySource(q, s)
  BY <1>2, <1>3, <1>7, <1>8 DEF OnlySource, NotIndexing
<1>11. SourceOK(s)'
  <2>1. ASSUME indexer[q].alone PROVE SettledFits(s, w)'
    <3>1. left = w /\ Search(s) = {}
      BY <1>1, <1>2, <1>3, <1>4, <1>6, <2>1 DEF SourceOK, JobFits
    <3>2. held' = held \cup Keyed(s, w)
      BY <1>3, <3>1 DEF Keyed
    <3>3. Search(s)' = Keyed(s, w)
      BY <3>1, <3>2, KeyedInserts
    <3> QED  BY <1>3, <1>4, <3>3 DEF SettledFits, Keyed, Entry
  <2> QED  BY <1>2, <1>3, <1>4, <1>6, <2>1, InsertsOK
<1> QED  BY <1>6, <1>7, <1>8, <1>9, <1>10, <1>11, OthersKeptVec DEF VecInv

-----------------------------------------------------------------------------
(* The index that is given files *)

\* What FilesApart says of the backend whose entries are files.
LEMMA FilesAre ==
    ASSUME VecInv, kind = "openai"
    PROVE  /\ \A e \in held : e.id \in 1..files
           /\ \A s \in VecSources :
                 IsInjective(sourceFiles[s]) /\ \A f \in Range(sourceFiles[s]) : Owns(s, f)
           /\ \A q \in Indexers : indexer[q].at # "idle" =>
                 \A f \in Range(indexer[q].todo) : Owns(indexer[q].source, f)
           /\ \A q \in Indexers : InHand(q) => HandApart(q)
  BY DEF VecInv, FilesApart

\* The files stay apart when entries go and a request has fewer files to delete.
LEMMA FilesStayApart ==
    ASSUME VecInv, NEW q \in Indexers, UNCHANGED <<kind, files, sourceFiles>>,
           held' \subseteq held, \A p \in Indexers : p # q => indexer'[p] = indexer[p],
           indexer'[q].at # "idle" =>
               /\ indexer[q].at # "idle" /\ indexer'[q].source = indexer[q].source
               /\ Range(indexer'[q].todo) \subseteq Range(indexer[q].todo) /\ ~InHand(q)'
    PROVE  FilesApart'
<1> SUFFICES ASSUME kind = "openai" PROVE FilesApart'
  BY DEF FilesApart
<1>1. \A s, f : Owns(s, f) => Owns(s, f)'
  BY DEF Owns
<1>2. \A e \in held' : e.id \in 1..files
  BY FilesAre
<1>3. \A s \in VecSources :
         IsInjective(sourceFiles'[s]) /\ \A f \in Range(sourceFiles'[s]) : Owns(s, f)'
  BY <1>1, FilesAre
<1>4. ASSUME NEW p \in Indexers, indexer'[p].at # "idle", NEW f \in Range(indexer'[p].todo)
      PROVE  Owns(indexer[p].source, f)'
  <2>1. indexer[p].at # "idle" /\ f \in Range(indexer[p].todo) /\ indexer'[p].source = indexer[p].source
    BY <1>4
  <2>2. PICK s : s = indexer[p].source /\ s = indexer'[p].source
    BY <2>1
  <2>3. Owns(s, f)'
    BY <1>1, <2>1, <2>2, FilesAre
  <2> QED  BY <2>2, <2>3
<1>5. ASSUME NEW p \in Indexers, InHand(p)' PROVE HandApart(p)'
  <2>1. p # q
    BY <1>5 DEF InHand
  <2>2. indexer'[p] = indexer[p] /\ InHand(p)
    BY <1>5, <2>1 DEF InHand
  <2>3. HandApart(p)
    BY <2>2, FilesAre
  <2>4. PICK f : f = indexer[p].file /\ f = indexer'[p].file
    BY <2>2
  <2>5. ASSUME NEW r \in Indexers, indexer'[r].at # "idle"
        PROVE  /\ f \notin Range(indexer'[r].todo)
               /\ r # p /\ InHand(r)' => indexer'[r].file # f
    <3>1. CASE r = q
      BY <2>3, <2>4, <2>5, <3>1 DEF HandApart
    <3>2. CASE r # q
      BY <2>3, <2>4, <2>5, <3>2 DEF HandApart, InHand
    <3> QED  BY <3>1, <3>2
  <2>6. At(p, "wait")' => Owns(indexer[p].source, f)'
    <3>1. PICK s : s = indexer[p].source /\ s = indexer'[p].source
      BY <2>2
    <3>2. At(p, "wait")' => Owns(s, f)'
      BY <1>1, <2>2, <2>3, <2>4, <3>1 DEF HandApart, At
    <3> QED  BY <3>1, <3>2
  <2> QED  BY <2>2, <2>3, <2>4, <2>5, <2>6 DEF HandApart, At
<1> QED  BY <1>2, <1>3, <1>4, <1>5 DEF FilesApart

\* And when the file in hand is attached.
LEMMA AttachedApart ==
    ASSUME VecInv, NEW q \in Indexers, UNCHANGED <<kind, files, sourceFiles>>, kind = "openai",
           At(q, "attach"), NEW c, held' = held \cup {Entry(indexer[q].file, indexer[q].source, c)},
           \A p \in Indexers : p # q => indexer'[p] = indexer[p],
           indexer'[q].at = "idle" \/
               /\ indexer'[q].at = "wait" /\ indexer'[q].source = indexer[q].source
               /\ indexer'[q].todo = indexer[q].todo /\ indexer'[q].file = indexer[q].file
    PROVE  FilesApart'
<1>1. PICK g, t : g = indexer[q].file /\ t = indexer[q].source
  OBVIOUS
<1>2. HandApart(q) /\ InHand(q)
  BY FilesAre DEF InHand, At
<1>3. Entry(g, t, c).id = g /\ Entry(g, t, c).source = t
  BY EntryIs
<1>4. \A s, f : Owns(s, f) /\ (f # g \/ s = t) => Owns(s, f)'
  BY <1>1, <1>3 DEF Owns
<1>5. \A e \in held' : e.id \in 1..files
  BY <1>1, <1>2, <1>3, FilesAre DEF HandApart
<1>6. \A s \in VecSources :
         IsInjective(sourceFiles'[s]) /\ \A f \in Range(sourceFiles'[s]) : Owns(s, f)'
  BY <1>1, <1>2, <1>4, FilesAre DEF HandApart
<1>7. ASSUME NEW p \in Indexers, indexer'[p].at # "idle"
      PROVE  /\ indexer[p].at # "idle" /\ indexer'[p].source = indexer[p].source
             /\ indexer'[p].todo = indexer[p].todo /\ indexer'[p].file = indexer[p].file
             /\ InHand(p)' => InHand(p)
             /\ p # q => indexer'[p].at = indexer[p].at
  BY <1>2, <1>7 DEF InHand
<1>8. ASSUME NEW p \in Indexers, indexer'[p].at # "idle", NEW f \in Range(indexer'[p].todo)
      PROVE  Owns(indexer[p].source, f)'
  <2>1. indexer[p].at # "idle" /\ f \in Range(indexer[p].todo) /\ indexer'[p].source = indexer[p].source
    BY <1>7, <1>8
  <2>2. PICK s : s = indexer[p].source /\ s = indexer'[p].source
    BY <2>1
  <2>3. f # g
    BY <1>1, <1>2, <2>1 DEF HandApart
  <2>4. Owns(s, f)'
    BY <1>4, <2>1, <2>2, <2>3, FilesAre
  <2> QED  BY <2>2, <2>4
<1>9. ASSUME NEW p \in Indexers, InHand(p)' PROVE HandApart(p)'
  <2>1. indexer'[p].at # "idle"
    BY <1>9 DEF InHand
  <2>2. HandApart(p)
    BY <1>7, <1>9, <2>1, FilesAre
  <2>3. PICK f, s : /\ f = indexer[p].file /\ f = indexer'[p].file
                    /\ s = indexer[p].source /\ s = indexer'[p].source
    BY <1>7, <2>1
  <2>4. ASSUME NEW r \in Indexers, indexer'[r].at # "idle"
        PROVE  /\ f \notin Range(indexer'[r].todo)
               /\ r # p /\ InHand(r)' => indexer'[r].file # f
    BY <1>7, <2>2, <2>3, <2>4 DEF HandApart
  <2>5. CASE p = q
    <3>1. \A e \in held : e.id # g
      BY <1>2, <1>1 DEF HandApart
    <3>2. Owns(s, f)'
      BY <1>1, <1>2, <1>3, <2>3, <2>5, <3>1 DEF Owns, HandApart
    <3>3. indexer'[p].at = "wait"
      BY <2>1, <2>5
    <3> QED  BY <2>2, <2>3, <2>4, <3>2, <3>3 DEF HandApart, At
  <2>6. CASE p # q
    <3>1. f # g /\ indexer'[p].at = indexer[p].at
      BY <1>1, <1>2, <1>7, <2>1, <2>2, <2>3, <2>6 DEF HandApart, InHand, At
    <3>2. At(p, "wait")' => Owns(s, f)'
      BY <1>4, <2>2, <2>3, <3>1 DEF HandApart, At
    <3>3. At(p, "attach")' => \A e \in held' : e.id # f
      BY <1>1, <1>3, <2>2, <2>3, <3>1 DEF HandApart, At
    <3> QED  BY <2>2, <2>3, <2>4, <3>2, <3>3 DEF HandApart, At
  <2> QED  BY <2>5, <2>6
<1> QED  BY <1>5, <1>6, <1>8, <1>9 DEF FilesApart

\* A request that is not at its end keeps its source in order.
LEMMA MovesOK ==
    ASSUME VecInv, NEW q \in Indexers, NEW s \in VecSources, WorksOn(q, s), WorksOn(q, s)',
           settled' = settled, \A p \in Indexers : p # q => indexer'[p] = indexer[p],
           indexer'[q].alone = indexer[q].alone,
           indexer[q].alone => JobFits(s, indexer[q])',
           kind' = "openai" /\ s \in unhurt' => \A e \in Search(s)' : Remembered(s, e.id)'
    PROVE  SourceOK(s)'
<1>1. SourceOK(s)
  BY DEF VecInv
<1>2. \A p \in Indexers : WorksOn(p, s)' <=> WorksOn(p, s)
  BY DEF WorksOn
<1>3. settled[s]' = NotSettled
  BY <1>1 DEF SourceOK
<1>4. \A p \in Indexers : p # q /\ WorksOn(p, s) => ~indexer[q].alone /\ ~indexer[p].alone
  BY <1>1 DEF SourceOK
<1>5. ASSUME NEW p \in Indexers, WorksOn(p, s)', indexer'[p].alone
      PROVE  (\A r \in Indexers : WorksOn(r, s)' => r = p) /\ JobFits(s, indexer[p])'
  BY <1>2, <1>4, <1>5
<1> QED  BY <1>3, <1>5 DEF SourceOK

\* What is remembered stays so unless the request at work forgets it.
LEMMA StaysRemembered ==
    ASSUME NEW q \in Indexers, NEW s \in VecSources, NEW f, Remembered(s, f),
           \A p \in Indexers : p # q => indexer'[p] = indexer[p],
           Range(sourceFiles[s]) \subseteq Range(sourceFiles'[s]),
           (\/ f \in Range(indexer[q].todo) /\ WorksOn(q, s)
            \/ At(q, "wait") /\ WorksOn(q, s) /\ indexer[q].file = f) => Remembered(s, f)'
    PROVE  Remembered(s, f)'
<1>1. CASE f \in Range(sourceFiles[s])
  BY <1>1 DEF Remembered
<1>2. ASSUME NEW p \in Indexers, WorksOn(p, s),
             f \in Range(indexer[p].todo) \/ (At(p, "wait") /\ indexer[p].file = f)
      PROVE  Remembered(s, f)'
  <2>1. CASE p = q
    BY <1>2, <2>1
  <2>2. CASE p # q
    BY <1>2, <2>2 DEF Remembered, WorksOn, At
  <2> QED  BY <2>1, <2>2
<1> QED  BY <1>1, <1>2 DEF Remembered

\* A file is deleted, or there is none left to delete.
LEMMA FileDeleted == ASSUME VecInv, NEW q \in Indexers, DeleteFile(q) PROVE VecInv'
<1>1. VecTypes /\ StagesFit /\ HeldTyped /\ EntriesFit /\ FilesApart /\ VecShape
      /\ \A t \in VecSources : SourceOK(t)
  BY DEF VecInv, VecShape
<1>2. PICK s, left, w, todo : /\ s = indexer[q].source /\ left = indexer[q].left
                              /\ w = indexer[q].wants /\ todo = indexer[q].todo
  OBVIOUS
<1>3. /\ indexer[q].at = "delete" /\ kind = "openai"
      /\ UNCHANGED <<sourceFiles, unhurt, kind, files>>
  BY DEF DeleteFile, VecQuiet, At
<1>4. indexer[q] \in IndexJobs
  BY <1>1, <1>3, JobTyped
<1>5. /\ s \in VecSources /\ left \in Seq(VecChunks) /\ w \in ChunkLists /\ todo \in Seq(Nat)
      /\ WorksOn(q, s)
  BY <1>2, <1>3, <1>4 DEF IndexJobs, WorksOn
<1>6. CASE todo = <<>>
  <2>1. Inserts(q, left) /\ held' = held
    BY <1>2, <1>6 DEF DeleteFile, vecRemote
  <2>2. /\ indexer' \in [Indexers -> IndexJobs \cup {NotIndexing}] /\ StagesFit'
        /\ settled' \in [VecSources -> ChunkLists \cup {NotSettled}]
        /\ \A p \in Indexers : p # q => indexer'[p] = indexer[p]
        /\ \A t \in VecSources : t # s => settled'[t] = settled[t]
        /\ left = <<>> => indexer'[q] = NotIndexing
        /\ left # <<>> =>
              /\ indexer'[q].left = left /\ indexer'[q].source = s /\ indexer'[q].at = "upload"
              /\ indexer'[q].wants = w /\ indexer'[q].alone = indexer[q].alone
              /\ indexer'[q].todo = todo
    BY <1>1, <1>2, <1>3, <1>5, <1>6, <2>1, InsertsTyped
  <2>3. VecTypes' /\ HeldTyped' /\ EntriesFit'
    BY <1>1, <1>3, <2>1, <2>2 DEF VecTypes, HeldTyped, EntriesFit
  <2>4. indexer'[q].at # "idle" => /\ indexer'[q].source = s /\ indexer'[q].todo = todo
                                   /\ indexer'[q].at = "upload"
    BY <2>2 DEF NotIndexing
  <2>5. FilesApart'
    BY <1>2, <1>3, <2>1, <2>2, <2>4, FilesStayApart DEF InHand
  <2>6. OnlySource(q, s)
    BY <1>2, <1>3, <2>1, <2>2, <2>4 DEF OnlySource
  <2>7. Search(s)' = Search(s)
    BY <2>1 DEF Search
  <2>8. ASSUME indexer[q].alone, s \in unhurt
        PROVE  sourceFiles[s] = <<>> /\ left = w /\ Search(s) = {}
    <3>1. /\ \A p \in Indexers : WorksOn(p, s) => p = q
          /\ sourceFiles[s] = <<>> /\ left = w
          /\ \A e \in Search(s) : Remembered(s, e.id)
      BY <1>1, <1>2, <1>3, <1>5, <2>8 DEF SourceOK, JobFits
    <3>2. ASSUME NEW e \in Search(s) PROVE FALSE
      <4>1. Range(<<>>) = {}
        BY DEF Range
      <4> QED  BY <1>2, <1>3, <1>6, <3>1, <3>2, <4>1 DEF Remembered, At
    <3> QED  BY <3>1, <3>2
  <2>9. Filed(s, w)' = Filed(s, w)
    BY <1>3 DEF Filed, Entry
  <2>10. sourceFiles[s] = <<>> => Filed(s, w) = {}
    BY DEF Filed
  <2>11. SourceOK(s)'
    <3>1. ASSUME indexer[q].alone, left = <<>> PROVE SettledFits(s, w)'
      <4>1. s \in unhurt => Len(sourceFiles[s]) = Len(w) /\ Search(s)' = Filed(s, w)'
        BY <2>7, <2>8, <2>9, <2>10, <3>1
      <4> QED  BY <1>3, <4>1 DEF SettledFits
    <3>2. ASSUME indexer[q].alone, left # <<>> PROVE JobFits(s, indexer[q])'
      <4>1. LeftOf(w, w, 0)
        <5>1. w \in Seq(VecChunks)
          BY <1>5, ChunkListTyped
        <5> QED  BY <5>1 DEF LeftOf
      <4>2. s \in unhurt => /\ LeftOf(w, left, Len(sourceFiles[s]))
                            /\ Search(s)' = Filed(s, w)'
        BY <2>7, <2>8, <2>9, <2>10, <3>2, <4>1
      <4>3. indexer'[q].at = "upload" /\ indexer'[q].wants = w /\ indexer'[q].left = left
        BY <2>2, <3>2
      <4>4. PICK j : j = indexer'[q]
        OBVIOUS
      <4>5. JobFits(s, j)'
        BY <1>3, <4>2, <4>3, <4>4 DEF JobFits, LeftOf
      <4> QED  BY <4>4, <4>5
    <3>3. ASSUME s \in unhurt', NEW e \in Search(s)' PROVE Remembered(s, e.id)'
      <4>1. Remembered(s, e.id)
        BY <1>1, <1>3, <1>5, <2>7, <3>3 DEF SourceOK
      <4>2. e.id \notin Range(indexer[q].todo) /\ ~At(q, "wait")
        BY <1>2, <1>3, <1>6 DEF Range, At
      <4> QED  BY <1>3, <1>5, <2>2, <4>1, <4>2, StaysRemembered
    <3> QED  BY <1>2, <1>3, <1>5, <1>6, <2>1, <3>1, <3>2, <3>3, InsertsOK
  <2> QED  BY <1>5, <2>2, <2>3, <2>5, <2>6, <2>11, OthersKeptVec DEF VecInv
<1>7. CASE todo # <<>>
  <2> DEFINE f == Head(todo)
             rest == Tail(todo)
             k == [indexer[q] EXCEPT !.todo = rest]
  <2>1. /\ held' = {e \in held : e.id # f} /\ Moves(q, k) /\ settled' = settled
    BY <1>2, <1>7 DEF DeleteFile
  <2>2. /\ rest \in Seq(Nat) /\ Range(rest) \subseteq Range(todo) /\ f \in Range(todo)
        /\ Range(todo) \subseteq Range(rest) \cup {f}
    <3>1. /\ Len(todo) \in Nat \ {0} /\ f = todo[1] /\ rest \in Seq(Nat)
          /\ Len(rest) = Len(todo) - 1 /\ DOMAIN rest = 1..Len(rest) /\ DOMAIN todo = 1..Len(todo)
          /\ \A i \in 1..Len(rest) : rest[i] = todo[i + 1]
      BY <1>5, <1>7
    <3> HIDE DEF rest, f
    <3>2. Range(rest) \subseteq Range(todo) /\ f \in Range(todo)
      <4>1. \A i \in 1..Len(rest) : i + 1 \in 1..Len(todo)
        BY <3>1
      <4>2. 1 \in 1..Len(todo)
        BY <3>1
      <4> QED  BY <3>1, <4>1, <4>2 DEF Range
    <3>3. ASSUME NEW i \in 1..Len(todo), todo[i] # f PROVE todo[i] \in Range(rest)
      <4>1. i # 1 /\ i - 1 \in 1..Len(rest) /\ (i - 1) + 1 = i
        BY <3>1, <3>3
      <4>2. rest[i - 1] = todo[i]
        BY <3>1, <4>1
      <4> QED  BY <3>1, <4>1, <4>2 DEF Range
    <3> QED  BY <3>1, <3>2, <3>3 DEF Range
  <2> HIDE DEF f, rest
  <2>3. /\ k \in IndexJobs /\ k.at = "delete" /\ k.source = s /\ k.left = left /\ k.wants = w
        /\ k.todo = rest /\ k.alone = indexer[q].alone
    BY <1>2, <1>3, <1>4, <2>2 DEF IndexJobs
  <2> HIDE DEF k
  <2>4. k.at \in VecStage
    BY <1>3, <2>3 DEF VecStage
  <2>5. /\ indexer' \in [Indexers -> IndexJobs \cup {NotIndexing}] /\ StagesFit'
        /\ indexer'[q] = k /\ \A p \in Indexers : p # q => indexer'[p] = indexer[p]
    BY <1>1, <1>3, <2>1, <2>3, <2>4, MovesTyped
  <2>6. VecTypes' /\ HeldTyped' /\ EntriesFit'
    BY <1>1, <1>3, <2>1, <2>5 DEF VecTypes, HeldTyped, EntriesFit
  <2>7. FilesApart'
    BY <1>2, <1>3, <2>1, <2>2, <2>3, <2>5, FilesStayApart DEF InHand
  <2>8. \A e \in held : e.id = f => e.source = s
    BY <1>2, <1>3, <2>2, FilesAre DEF Owns
  <2>9. OnlySource(q, s)
    BY <1>2, <1>3, <2>1, <2>3, <2>5, <2>8 DEF OnlySource
  <2>10. SourceOK(s)'
    <3>1. ASSUME indexer[q].alone PROVE JobFits(s, indexer[q])'
      <4>1. s \in unhurt => sourceFiles[s] = <<>> /\ left = w
        BY <1>1, <1>2, <1>3, <1>5, <3>1 DEF SourceOK, JobFits
      <4> QED  BY <1>3, <2>3, <2>5, <4>1 DEF JobFits
    <3>2. ASSUME s \in unhurt', NEW e \in Search(s)' PROVE Remembered(s, e.id)'
      <4>1. Remembered(s, e.id) /\ e.id # f
        BY <1>1, <1>3, <1>5, <2>1, <3>2 DEF SourceOK, Search
      <4>2. e.id \in Range(indexer[q].todo) => Remembered(s, e.id)'
        BY <1>2, <2>2, <2>3, <2>5, <4>1 DEF Remembered, WorksOn
      <4>3. ~At(q, "wait")
        BY <1>3 DEF At
      <4> QED  BY <1>3, <1>5, <2>5, <4>1, <4>2, <4>3, StaysRemembered
    <3>3. WorksOn(q, s)'
      BY <2>3, <2>5 DEF WorksOn
    <3> QED  BY <1>5, <2>1, <2>3, <2>5, <3>1, <3>2, <3>3, MovesOK
  <2> QED  BY <1>5, <2>5, <2>6, <2>7, <2>9, <2>10, OthersKeptVec DEF VecInv
<1> QED  BY <1>6, <1>7

\* A chunk becomes a file that nobody has seen before.
LEMMA FileUploaded == ASSUME VecInv, NEW q \in Indexers, uploadChunkFile(q) PROVE VecInv'
<1>1. VecTypes /\ StagesFit /\ HeldTyped /\ EntriesFit /\ FilesApart /\ VecShape
      /\ \A t \in VecSources : SourceOK(t)
  BY DEF VecInv, VecShape
<1>2. PICK s, left, w : s = indexer[q].source /\ left = indexer[q].left /\ w = indexer[q].wants
  OBVIOUS
<1> DEFINE k == [indexer[q] EXCEPT !.at = "attach", !.file = files + 1]
<1>3. /\ indexer[q].at = "upload" /\ files' = files + 1 /\ Moves(q, k)
      /\ UNCHANGED <<kind, held, sourceFiles, settled, unhurt>>
  BY DEF uploadChunkFile, At
<1>4. kind = "openai" /\ left # <<>> /\ indexer[q].todo = <<>>
  BY <1>1, <1>2, <1>3 DEF StagesFit, VecStage
<1>5. indexer[q] \in IndexJobs
  BY <1>1, <1>3, JobTyped
<1>6. s \in VecSources /\ left \in Seq(VecChunks) /\ w \in ChunkLists /\ WorksOn(q, s)
  BY <1>2, <1>3, <1>5 DEF IndexJobs, WorksOn
<1>7. /\ k \in IndexJobs /\ k.at = "attach" /\ k.source = s /\ k.left = left /\ k.wants = w
      /\ k.todo = indexer[q].todo /\ k.file = files + 1 /\ k.alone = indexer[q].alone
  <2>1. files + 1 \in Nat
    BY <1>1 DEF VecTypes
  <2> QED  BY <1>2, <1>5, <2>1 DEF IndexJobs
<1> HIDE DEF k
<1>8. k.at \in VecStage
  BY <1>4, <1>7 DEF VecStage
<1>9. /\ indexer' \in [Indexers -> IndexJobs \cup {NotIndexing}] /\ StagesFit'
      /\ indexer'[q] = k /\ \A p \in Indexers : p # q => indexer'[p] = indexer[p]
  BY <1>1, <1>3, <1>4, <1>7, <1>8, MovesTyped
<1>10. VecTypes' /\ HeldTyped' /\ EntriesFit'
  BY <1>1, <1>3, <1>9 DEF VecTypes, HeldTyped, EntriesFit
<1>11. FilesApart'
  <2>1. files \in Nat
    BY <1>1 DEF VecTypes
  <2>2. \A s_, f : Owns(s_, f) => Owns(s_, f)' /\ f # files + 1
    BY <1>3, <2>1 DEF Owns
  <2>3. \A e \in held : e.id \in 1..files' /\ e.id # files + 1
    BY <1>3, <1>4, <2>1, FilesAre
  <2>4. \A t \in VecSources :
           IsInjective(sourceFiles'[t]) /\ \A f \in Range(sourceFiles'[t]) : Owns(t, f)' /\ f # files + 1
    BY <1>3, <1>4, <2>2, FilesAre
  <2>5. \A p \in Indexers : indexer'[p].at # "idle" =>
           /\ indexer[p].at # "idle" /\ indexer'[p].source = indexer[p].source
           /\ indexer'[p].todo = indexer[p].todo
    BY <1>2, <1>3, <1>7, <1>9
  <2>6. ASSUME NEW p \in Indexers, indexer'[p].at # "idle", NEW f \in Range(indexer'[p].todo)
        PROVE  Owns(indexer[p].source, f)' /\ f # files + 1
    <3>1. PICK t : t = indexer[p].source /\ t = indexer'[p].source
      BY <2>5, <2>6
    <3>2. Owns(t, f)
      BY <1>4, <2>5, <2>6, <3>1, FilesAre
    <3> QED  BY <2>2, <3>1, <3>2
  <2>7. ASSUME NEW p \in Indexers, InHand(p)' PROVE HandApart(p)'
    <3>1. CASE p = q
      <4>1. \A r \in Indexers : r # q /\ InHand(r)' => indexer'[r].file # files + 1
        <5> SUFFICES ASSUME NEW r \in Indexers, r # q, InHand(r)' PROVE indexer'[r].file # files + 1
          OBVIOUS
        <5>1. InHand(r) /\ indexer'[r] = indexer[r]
          BY <1>9 DEF InHand
        <5>2. HandApart(r)
          BY <1>4, <5>1, FilesAre
        <5> QED  BY <2>1, <5>1, <5>2 DEF HandApart
      <4>2. indexer'[p].file = files + 1 /\ files + 1 \in 1..files' /\ indexer'[p].at = "attach"
        BY <1>3, <1>7, <1>9, <2>1, <3>1
      <4> QED  BY <1>3, <2>3, <2>4, <2>6, <3>1, <4>1, <4>2 DEF HandApart, At
    <3>2. CASE p # q
      <4>1. InHand(p) /\ indexer'[p] = indexer[p]
        BY <1>9, <2>7, <3>2 DEF InHand
      <4>2. HandApart(p)
        BY <1>4, <4>1, FilesAre
      <4>3. PICK f, t : /\ f = indexer[p].file /\ f = indexer'[p].file
                        /\ t = indexer[p].source /\ t = indexer'[p].source
        BY <4>1
      <4>4. f \in 1..files' /\ f # files + 1
        BY <1>3, <2>1, <4>2, <4>3 DEF HandApart
      <4>5. ASSUME NEW r \in Indexers, indexer'[r].at # "idle"
            PROVE  /\ f \notin Range(indexer'[r].todo)
                   /\ r # p /\ InHand(r)' => indexer'[r].file # f
        <5>1. CASE r = q
          BY <1>7, <1>9, <2>5, <4>2, <4>3, <4>4, <4>5, <5>1 DEF HandApart
        <5>2. CASE r # q
          BY <1>9, <4>2, <4>3, <4>5, <5>2 DEF HandApart, InHand
        <5> QED  BY <5>1, <5>2
      <4>6. At(p, "wait")' => Owns(t, f)'
        BY <2>2, <4>1, <4>2, <4>3 DEF HandApart, At
      <4> QED  BY <1>3, <4>1, <4>2, <4>3, <4>4, <4>5, <4>6 DEF HandApart, At
    <3> QED  BY <3>1, <3>2
  <2>8. \A e \in held' : e.id \in 1..files'
    BY <1>3, <2>3
  <2>9. \A t \in VecSources :
           IsInjective(sourceFiles'[t]) /\ \A f \in Range(sourceFiles'[t]) : Owns(t, f)'
    BY <2>4
  <2>10. \A p \in Indexers : indexer'[p].at # "idle" =>
            \A f \in Range(indexer'[p].todo) : Owns(indexer[p].source, f)'
    BY <2>6
  <2> QED  BY <2>7, <2>8, <2>9, <2>10 DEF FilesApart
<1>12. OnlySource(q, s)
  BY <1>2, <1>3, <1>7, <1>9 DEF OnlySource
<1>13. SourceOK(s)'
  <2>1. Search(s)' = Search(s) /\ Filed(s, w)' = Filed(s, w)
    BY <1>3 DEF Search, Filed, Entry
  <2>2. ASSUME indexer[q].alone PROVE JobFits(s, indexer[q])'
    <3>1. s \in unhurt => LeftOf(w, left, Len(sourceFiles[s])) /\ Search(s) = Filed(s, w)
      <4>1. PICK j : j = indexer[q]
        OBVIOUS
      <4>2. JobFits(s, j)
        BY <1>1, <1>6, <2>2, <4>1 DEF SourceOK
      <4>3. j.at = "upload" /\ j.wants = w /\ j.left = left
        BY <1>2, <1>3, <4>1
      <4> QED  BY <1>4, <4>2, <4>3 DEF JobFits
    <3>2. PICK j : j = indexer'[q]
      OBVIOUS
    <3>3. j.at = "attach" /\ j.wants = w /\ j.left = left
      BY <1>7, <1>9, <3>2
    <3>4. s \in unhurt => LeftOf(w, left, Len(sourceFiles[s])) /\ Search(s)' = Filed(s, w)'
      BY <2>1, <3>1
    <3>5. JobFits(s, j)'
      BY <1>3, <1>4, <3>3, <3>4 DEF JobFits, LeftOf
    <3> QED  BY <3>2, <3>5
  <2>3. ASSUME s \in unhurt', NEW e \in Search(s)' PROVE Remembered(s, e.id)'
    <3>1. Remembered(s, e.id)
      BY <1>1, <1>3, <1>4, <1>6, <2>1, <2>3 DEF SourceOK
    <3>2. e.id \in Range(indexer[q].todo) => Remembered(s, e.id)'
      BY <1>7, <1>9 DEF Remembered, WorksOn
    <3>3. ~At(q, "wait")
      BY <1>3 DEF At
    <3> QED  BY <1>3, <1>6, <1>9, <3>1, <3>2, <3>3, StaysRemembered
  <2>4. WorksOn(q, s)'
    BY <1>7, <1>9 DEF WorksOn
  <2> QED  BY <1>3, <1>6, <1>7, <1>9, <2>2, <2>3, <2>4, MovesOK
<1> QED  BY <1>6, <1>9, <1>10, <1>11, <1>12, <1>13, OthersKeptVec DEF VecInv

\* The file in hand gets into the index.
LEMMA FileAttached == ASSUME VecInv, NEW q \in Indexers, attachFile(q) PROVE VecInv'
<1>1. VecTypes /\ StagesFit /\ HeldTyped /\ EntriesFit /\ FilesApart /\ VecShape
      /\ \A t \in VecSources : SourceOK(t)
  BY DEF VecInv, VecShape
<1>2. PICK s, left, w, f, c : /\ s = indexer[q].source /\ left = indexer[q].left
                              /\ w = indexer[q].wants /\ f = indexer[q].file /\ c = Head(left)
  OBVIOUS
<1> DEFINE k == [indexer[q] EXCEPT !.at = "wait"]
<1>3. /\ indexer[q].at = "attach" /\ Moves(q, k) /\ held' = held \cup {Entry(f, s, c)}
      /\ UNCHANGED <<kind, files, sourceFiles, settled, unhurt>>
  BY <1>2 DEF attachFile, VecQuiet, At
<1>4. kind = "openai" /\ left # <<>> /\ indexer[q].todo = <<>>
  BY <1>1, <1>2, <1>3 DEF StagesFit, VecStage
<1>5. indexer[q] \in IndexJobs
  BY <1>1, <1>3, JobTyped
<1>6. s \in VecSources /\ left \in Seq(VecChunks) /\ w \in ChunkLists /\ WorksOn(q, s) /\ c = left[1]
  BY <1>2, <1>3, <1>5 DEF IndexJobs, WorksOn
<1>7. /\ k \in IndexJobs /\ k.at = "wait" /\ k.source = s /\ k.left = left /\ k.wants = w
      /\ k.todo = indexer[q].todo /\ k.file = f /\ k.alone = indexer[q].alone
  BY <1>2, <1>5 DEF IndexJobs
<1> HIDE DEF k
<1>8. k.at \in VecStage
  BY <1>4, <1>7 DEF VecStage
<1>9. /\ indexer' \in [Indexers -> IndexJobs \cup {NotIndexing}] /\ StagesFit'
      /\ indexer'[q] = k /\ \A p \in Indexers : p # q => indexer'[p] = indexer[p]
  BY <1>1, <1>3, <1>4, <1>7, <1>8, MovesTyped
<1>10. Entry(f, s, c).id = f /\ Entry(f, s, c).source = s
  BY EntryIs
<1>11. VecTypes' /\ HeldTyped' /\ EntriesFit'
  BY <1>1, <1>3, <1>4, <1>6, <1>9 DEF VecTypes, HeldTyped, EntriesFit, Entry
<1>12. FilesApart'
  BY <1>2, <1>3, <1>4, <1>7, <1>9, AttachedApart DEF At
<1>13. OnlySource(q, s)
  BY <1>2, <1>3, <1>7, <1>9, <1>10 DEF OnlySource
<1>14. SourceOK(s)'
  <2>1. Search(s)' = Search(s) \cup {Entry(f, s, c)} /\ Filed(s, w)' = Filed(s, w)
    BY <1>3, <1>10 DEF Search, Filed, Entry
  <2>2. ASSUME indexer[q].alone PROVE JobFits(s, indexer[q])'
    <3>1. s \in unhurt => LeftOf(w, left, Len(sourceFiles[s])) /\ Search(s) = Filed(s, w)
      <4>1. PICK j : j = indexer[q]
        OBVIOUS
      <4>2. JobFits(s, j)
        BY <1>1, <1>6, <2>2, <4>1 DEF SourceOK
      <4>3. j.at = "attach" /\ j.wants = w /\ j.left = left
        BY <1>2, <1>3, <4>1
      <4> QED  BY <1>4, <4>2, <4>3 DEF JobFits
    <3>2. PICK j : j = indexer'[q]
      OBVIOUS
    <3>3. s \in unhurt => Search(s)' = Filed(s, w)' \cup {Entry(f, s, left[1])}
      BY <1>6, <2>1, <3>1
    <3>4. JobFits(s, j)'
      BY <1>3, <1>4, <1>7, <1>9, <3>1, <3>2, <3>3 DEF JobFits, LeftOf, Entry
    <3> QED  BY <3>2, <3>4
  <2>3. WorksOn(q, s)'
    BY <1>7, <1>9 DEF WorksOn
  <2>4. ASSUME s \in unhurt', NEW e \in Search(s)' PROVE Remembered(s, e.id)'
    <3>1. CASE e \in Search(s)
      <4>1. Remembered(s, e.id)
        BY <1>1, <1>3, <1>4, <1>6, <2>4, <3>1 DEF SourceOK
      <4>2. e.id \in Range(indexer[q].todo) => Remembered(s, e.id)'
        BY <1>7, <1>9 DEF Remembered, WorksOn
      <4>3. ~At(q, "wait")
        BY <1>3 DEF At
      <4> QED  BY <1>3, <1>6, <1>9, <4>1, <4>2, <4>3, StaysRemembered
    <3>2. CASE e = Entry(f, s, c)
      BY <1>7, <1>9, <1>10, <2>3, <3>2 DEF Remembered, At
    <3> QED  BY <2>1, <2>4, <3>1, <3>2
  <2> QED  BY <1>3, <1>6, <1>7, <1>9, <2>2, <2>3, <2>4, MovesOK
<1> QED  BY <1>6, <1>9, <1>11, <1>12, <1>13, <1>14, OthersKeptVec DEF VecInv

\* A sequence of files with one more.
LEMMA Appended ==
    ASSUME NEW fs \in Seq(Nat), NEW f \in Nat
    PROVE  /\ Append(fs, f) \in Seq(Nat) /\ Len(Append(fs, f)) = Len(fs) + 1 /\ Len(fs) \in Nat
           /\ Append(fs, f)[Len(fs) + 1] = f /\ \A i \in 1..Len(fs) : Append(fs, f)[i] = fs[i]
           /\ Range(Append(fs, f)) = Range(fs) \cup {f}
           /\ IsInjective(fs) /\ f \notin Range(fs) => IsInjective(Append(fs, f))
<1> DEFINE more == Append(fs, f)
<1>1. /\ more \in Seq(Nat) /\ Len(more) = Len(fs) + 1 /\ Len(fs) \in Nat
      /\ more[Len(fs) + 1] = f /\ \A i \in 1..Len(fs) : more[i] = fs[i]
      /\ DOMAIN more = 1..(Len(fs) + 1) /\ DOMAIN fs = 1..Len(fs)
  OBVIOUS
<1> HIDE DEF more
<1>2. \A i \in 1..(Len(fs) + 1) : i = Len(fs) + 1 \/ i \in 1..Len(fs)
  BY <1>1
<1>3. \A i \in 1..Len(fs) : i \in 1..(Len(fs) + 1) /\ i # Len(fs) + 1
  BY <1>1
<1>4. Len(fs) + 1 \in 1..(Len(fs) + 1)
  BY <1>1
<1>5. Range(more) = Range(fs) \cup {f}
  BY <1>1, <1>2, <1>3, <1>4 DEF Range
<1>6. ASSUME IsInjective(fs), f \notin Range(fs) PROVE IsInjective(more)
  <2>1. \A i \in 1..Len(fs) : more[i] # f
    BY <1>1, <1>6 DEF Range
  <2> QED  BY <1>1, <1>2, <1>6, <2>1 DEF IsInjective
<1> QED  BY <1>1, <1>5, <1>6, Zenon DEF more

\* One chunk fewer is left, and one file more is remembered.
LEMMA LeftOfNext ==
    ASSUME NEW w \in Seq(VecChunks), NEW left \in Seq(VecChunks), NEW n \in Nat, left # <<>>,
           LeftOf(w, left, n)
    PROVE  /\ LeftOf(w, Tail(left), n + 1) /\ left[1] = w[n + 1] /\ Tail(left) \in Seq(VecChunks)
           /\ Tail(left) = <<>> => n + 1 = Len(w)
<1>1. /\ Len(left) \in Nat \ {0} /\ Len(w) \in Nat /\ Tail(left) \in Seq(VecChunks)
      /\ Len(Tail(left)) = Len(left) - 1
      /\ \A i \in 1..(Len(left) - 1) : Tail(left)[i] = left[i + 1]
  OBVIOUS
<1>2. /\ n + Len(left) = Len(w) /\ \A i \in 1..Len(left) : left[i] = w[n + i]
  BY DEF LeftOf
<1>3. left[1] = w[n + 1]
  BY <1>1, <1>2
<1>4. ASSUME NEW i \in 1..Len(Tail(left)) PROVE Tail(left)[i] = w[(n + 1) + i]
  <2>1. i + 1 \in 1..Len(left) /\ n + (i + 1) = (n + 1) + i
    BY <1>1
  <2>2. Tail(left)[i] = left[i + 1] /\ left[i + 1] = w[n + (i + 1)]
    BY <1>1, <1>2, <2>1
  <2> QED  BY <2>1, <2>2
<1>5. (n + 1) + Len(Tail(left)) = Len(w)
  BY <1>1, <1>2
<1>6. Tail(left) = <<>> => n + 1 = Len(w)
  <2>1. Len(<<>>) = 0
    OBVIOUS
  <2>2. Tail(left) = <<>> => Len(Tail(left)) = 0
    BY <2>1, Zenon
  <2> QED  BY <1>1, <1>5, <2>2
<1> QED  BY <1>1, <1>3, <1>4, <1>5, <1>6 DEF LeftOf

\* A file that is ready is remembered, and the next chunk follows.
LEMMA FileIsReady == ASSUME VecInv, NEW q \in Indexers, waitFileReady(q) PROVE VecInv'
<1>1. VecTypes /\ StagesFit /\ HeldTyped /\ EntriesFit /\ FilesApart /\ VecShape
      /\ \A t \in VecSources : SourceOK(t)
  BY DEF VecInv, VecShape
<1>2. PICK s, left, w, f, rest, fs, more :
         /\ s = indexer[q].source /\ left = indexer[q].left /\ w = indexer[q].wants
         /\ f = indexer[q].file /\ rest = Tail(left) /\ fs = sourceFiles[s] /\ more = Append(fs, f)
  OBVIOUS
<1>3. /\ indexer[q].at = "wait" /\ sourceFiles' = [sourceFiles EXCEPT ![s] = Append(@, f)]
      /\ Inserts(q, rest) /\ UNCHANGED <<held, uploaded, unhurt, kind, files>>
  BY <1>2 DEF waitFileReady, rememberSourceFile, VecQuiet, At
<1>4. kind = "openai" /\ left # <<>> /\ indexer[q].todo = <<>>
  BY <1>1, <1>2, <1>3 DEF StagesFit, VecStage
<1>5. indexer[q] \in IndexJobs
  BY <1>1, <1>3, JobTyped
<1>6. s \in VecSources /\ left \in Seq(VecChunks) /\ w \in ChunkLists /\ WorksOn(q, s) /\ f \in Nat
  BY <1>2, <1>3, <1>5 DEF IndexJobs, WorksOn
<1>7. rest \in Seq(VecChunks) /\ w \in Seq(VecChunks) /\ fs \in Seq(Nat)
  <2>1. rest \in Seq(VecChunks)
    <3>1. Tail(left) \in Seq(VecChunks)
      BY <1>4, <1>6
    <3> QED  BY <1>2, <3>1
  <2> QED  BY <1>1, <1>2, <1>6, <2>1, ChunkListTyped DEF VecTypes
<1>8. /\ more \in Seq(Nat) /\ Len(more) = Len(fs) + 1 /\ Len(fs) \in Nat
      /\ more[Len(fs) + 1] = f /\ \A i \in 1..Len(fs) : more[i] = fs[i]
      /\ Range(more) = Range(fs) \cup {f}
      /\ IsInjective(fs) /\ f \notin Range(fs) => IsInjective(more)
  <2>1. more = Append(fs, f)
    BY <1>2
  <2>2. /\ Append(fs, f) \in Seq(Nat) /\ Len(Append(fs, f)) = Len(fs) + 1 /\ Len(fs) \in Nat
        /\ Append(fs, f)[Len(fs) + 1] = f /\ \A i \in 1..Len(fs) : Append(fs, f)[i] = fs[i]
        /\ Range(Append(fs, f)) = Range(fs) \cup {f}
        /\ IsInjective(fs) /\ f \notin Range(fs) => IsInjective(Append(fs, f))
    BY <1>6, <1>7, Appended, Zenon
  <2> QED  BY <2>1, <2>2, Zenon
<1>9. /\ indexer' \in [Indexers -> IndexJobs \cup {NotIndexing}] /\ StagesFit'
      /\ settled' \in [VecSources -> ChunkLists \cup {NotSettled}]
      /\ \A p \in Indexers : p # q => indexer'[p] = indexer[p]
      /\ \A t \in VecSources : t # s => settled'[t] = settled[t]
      /\ rest = <<>> => indexer'[q] = NotIndexing
      /\ rest # <<>> =>
            /\ indexer'[q].left = rest /\ indexer'[q].source = s /\ indexer'[q].at = "upload"
            /\ indexer'[q].wants = w /\ indexer'[q].alone = indexer[q].alone
            /\ indexer'[q].todo = indexer[q].todo
  BY <1>1, <1>2, <1>3, <1>4, <1>6, <1>7, InsertsTyped
<1>10. /\ sourceFiles' \in [VecSources -> Seq(Nat)] /\ sourceFiles'[s] = more
       /\ \A t \in VecSources : t # s => sourceFiles'[t] = sourceFiles[t]
  <2>1. sourceFiles' = [sourceFiles EXCEPT ![s] = more]
    BY <1>2, <1>3
  <2> QED  BY <1>1, <1>6, <1>8, <2>1 DEF VecTypes
<1>11. VecTypes' /\ HeldTyped' /\ EntriesFit'
  BY <1>1, <1>3, <1>9, <1>10 DEF VecTypes, HeldTyped, EntriesFit
<1>12. indexer'[q].at # "idle" => /\ indexer'[q].source = s /\ indexer'[q].todo = indexer[q].todo
                                  /\ indexer'[q].at = "upload"
  BY <1>9 DEF NotIndexing
<1>13. HandApart(q) /\ InHand(q)
  BY <1>3, <1>4, FilesAre DEF InHand
<1>14. FilesApart'
  <2>1. \A t, g : Owns(t, g)' <=> Owns(t, g)
    BY <1>3 DEF Owns
  <2>2. \A e \in held' : e.id \in 1..files'
    BY <1>3, <1>4, FilesAre
  <2>3. ASSUME NEW t \in VecSources
        PROVE  IsInjective(sourceFiles'[t]) /\ \A g \in Range(sourceFiles'[t]) : Owns(t, g)'
    <3>1. CASE t = s
      <4>1. IsInjective(more)
        BY <1>2, <1>4, <1>6, <1>8, <1>13, FilesAre DEF HandApart
      <4>2. Owns(s, f)
        BY <1>2, <1>3, <1>13 DEF HandApart, At
      <4>3. \A g \in Range(more) : Owns(s, g)
        BY <1>2, <1>4, <1>6, <1>8, <4>2, FilesAre
      <4> QED  BY <1>10, <2>1, <3>1, <4>1, <4>3
    <3>2. CASE t # s
      BY <1>4, <1>10, <2>1, <3>2, FilesAre
    <3> QED  BY <3>1, <3>2
  <2>4. ASSUME NEW p \in Indexers, indexer'[p].at # "idle"
        PROVE  /\ indexer[p].at # "idle" /\ indexer'[p].source = indexer[p].source
               /\ indexer'[p].todo = indexer[p].todo
    BY <1>2, <1>3, <1>9, <1>12, <2>4
  <2>5. ASSUME NEW p \in Indexers, indexer'[p].at # "idle", NEW g \in Range(indexer'[p].todo)
        PROVE  Owns(indexer[p].source, g)'
    <3>1. PICK t : t = indexer[p].source /\ t = indexer'[p].source
      BY <2>4, <2>5
    <3>2. Owns(t, g)
      BY <1>4, <2>4, <2>5, <3>1, FilesAre
    <3> QED  BY <2>1, <3>1, <3>2
  <2>6. ASSUME NEW p \in Indexers, InHand(p)' PROVE HandApart(p)'
    <3>1. p # q
      BY <1>12, <2>6 DEF InHand
    <3>2. indexer'[p] = indexer[p] /\ InHand(p)
      BY <1>9, <2>6, <3>1 DEF InHand
    <3>3. HandApart(p)
      BY <1>4, <3>2, FilesAre
    <3>4. PICK g, t : /\ g = indexer[p].file /\ g = indexer'[p].file
                      /\ t = indexer[p].source /\ t = indexer'[p].source
      BY <3>2
    <3>5. g # f
      BY <1>2, <1>13, <3>1, <3>2, <3>4 DEF HandApart, InHand
    <3>6. \A u \in VecSources : g \notin Range(sourceFiles'[u])
      <4> SUFFICES ASSUME NEW u \in VecSources PROVE g \notin Range(sourceFiles'[u])
        OBVIOUS
      <4>1. g \notin Range(sourceFiles[u])
        BY <3>3, <3>4 DEF HandApart
      <4>2. CASE u = s
        BY <1>2, <1>8, <1>10, <3>5, <4>1, <4>2
      <4>3. CASE u # s
        BY <1>10, <4>1, <4>3
      <4> QED  BY <4>2, <4>3
    <3>7. ASSUME NEW r \in Indexers, indexer'[r].at # "idle"
          PROVE  /\ g \notin Range(indexer'[r].todo)
                 /\ r # p /\ InHand(r)' => indexer'[r].file # g
      <4>1. CASE r = q
        BY <1>12, <2>4, <3>3, <3>4, <3>7, <4>1 DEF HandApart, InHand
      <4>2. CASE r # q
        BY <1>9, <3>3, <3>4, <3>7, <4>2 DEF HandApart, InHand
      <4> QED  BY <4>1, <4>2
    <3>8. At(p, "wait")' => Owns(t, g)'
      BY <2>1, <3>2, <3>3, <3>4 DEF HandApart, At
    <3> QED  BY <1>3, <3>2, <3>3, <3>4, <3>6, <3>7, <3>8 DEF HandApart, At
  <2> QED  BY <2>2, <2>3, <2>5, <2>6 DEF FilesApart
<1>15. OnlySource(q, s)
  BY <1>2, <1>3, <1>9, <1>10, <1>12 DEF OnlySource
<1>16. Search(s)' = Search(s)
  BY <1>3 DEF Search
<1>17. ASSUME indexer[q].alone, s \in unhurt
       PROVE  /\ LeftOf(w, rest, Len(more)) /\ Search(s)' = Filed(s, w)'
              /\ rest = <<>> => Len(more) = Len(w)
  <2>1. LeftOf(w, left, Len(fs)) /\ Search(s) = Filed(s, w) \cup {Entry(f, s, left[1])}
    <3>1. PICK j : j = indexer[q]
      OBVIOUS
    <3>2. JobFits(s, j)
      BY <1>1, <1>6, <1>17, <3>1 DEF SourceOK
    <3>3. j.at = "wait" /\ j.wants = w /\ j.left = left /\ j.file = f
      BY <1>2, <1>3, <3>1
    <3> QED  BY <1>2, <1>4, <1>17, <3>2, <3>3 DEF JobFits
  <2>2. /\ LeftOf(w, Tail(left), Len(fs) + 1) /\ left[1] = w[Len(fs) + 1]
        /\ Tail(left) = <<>> => Len(fs) + 1 = Len(w)
    <3>1. PICK n \in Nat : n = Len(fs)
      BY <1>7
    <3>2. left # <<>> /\ left \in Seq(VecChunks) /\ w \in Seq(VecChunks)
      BY <1>4, <1>6, <1>7, <1>8
    <3>3. LeftOf(w, left, n)
      BY <2>1, <3>1
    <3>4. /\ LeftOf(w, Tail(left), n + 1) /\ left[1] = w[n + 1]
          /\ Tail(left) = <<>> => n + 1 = Len(w)
      BY <3>2, <3>3, LeftOfNext
    <3> QED  BY <3>1, <3>4
  <2>3. Filed(s, w)' = Filed(s, w) \cup {Entry(f, s, w[Len(fs) + 1])}
    <3>1. Filed(s, w) = {Entry(fs[i], s, w[i]) : i \in 1..Len(fs)}
      BY <1>2 DEF Filed
    <3>2. Filed(s, w)' = {Entry(more[i], s, w[i]) : i \in 1..Len(more)}
      BY <1>10 DEF Filed, Entry
    <3>3. 1..Len(more) = (1..Len(fs)) \cup {Len(fs) + 1}
      BY <1>8
    <3> QED  BY <1>8, <3>1, <3>2, <3>3
  <2>4. Search(s)' = Filed(s, w)'
    BY <1>16, <2>1, <2>2, <2>3
  <2> QED  BY <1>2, <1>8, <2>2, <2>4
<1>18. SourceOK(s)'
  <2>1. ASSUME indexer[q].alone, rest = <<>> PROVE SettledFits(s, w)'
    <3>1. s \in unhurt => Len(sourceFiles'[s]) = Len(w) /\ Search(s)' = Filed(s, w)'
      BY <1>10, <1>17, <2>1
    <3> QED  BY <1>3, <1>4, <3>1 DEF SettledFits
  <2>2. ASSUME indexer[q].alone, rest # <<>> PROVE JobFits(s, indexer[q])'
    <3>1. PICK j : j = indexer'[q]
      OBVIOUS
    <3>2. j.at = "upload" /\ j.wants = w /\ j.left = rest
      BY <1>9, <2>2, <3>1
    <3>3. s \in unhurt => LeftOf(w, rest, Len(sourceFiles'[s])) /\ Search(s)' = Filed(s, w)'
      BY <1>10, <1>17, <2>2
    <3>4. JobFits(s, j)'
      BY <1>3, <1>4, <3>2, <3>3 DEF JobFits, LeftOf
    <3> QED  BY <3>1, <3>4
  <2>3. ASSUME s \in unhurt', NEW e \in Search(s)' PROVE Remembered(s, e.id)'
    <3>1. Remembered(s, e.id)
      BY <1>1, <1>3, <1>4, <1>6, <1>16, <2>3 DEF SourceOK
    <3>2. CASE e.id = f
      BY <1>8, <1>10, <3>2 DEF Remembered
    <3>3. CASE e.id \in Range(fs)
      BY <1>8, <1>10, <3>3 DEF Remembered
    <3>4. ASSUME NEW p \in Indexers, WorksOn(p, s),
                 e.id \in Range(indexer[p].todo) \/ (At(p, "wait") /\ indexer[p].file = e.id)
          PROVE  Remembered(s, e.id)'
      <4>1. CASE p # q
        BY <1>9, <3>4, <4>1 DEF Remembered, WorksOn, At
      <4>2. CASE p = q /\ rest # <<>> /\ e.id # f
        BY <1>2, <1>9, <3>4, <4>2 DEF Remembered, WorksOn, At
      <4>3. CASE p = q /\ rest = <<>> /\ e.id \in Range(indexer[q].todo)
        BY <1>4, <4>3 DEF Range
      <4> QED  BY <1>2, <3>2, <3>4, <4>1, <4>2, <4>3
    <3> QED  BY <1>2, <3>1, <3>2, <3>3, <3>4 DEF Remembered
  <2> QED  BY <1>2, <1>3, <1>4, <1>6, <1>7, <2>1, <2>2, <2>3, InsertsOK
<1> QED  BY <1>6, <1>9, <1>11, <1>14, <1>15, <1>18, OthersKeptVec DEF VecInv

-----------------------------------------------------------------------------
\* A request that fails leaves the claims on its source behind.
LEMMA FailedOK ==
    ASSUME VecInv, NEW q \in Indexers, NEW s \in VecSources, WorksOn(q, s),
           settled' = settled, \A p \in Indexers : p # q => indexer'[p] = indexer[p],
           indexer'[q].at = "idle", s \notin unhurt'
    PROVE  SourceOK(s)'
<1>1. SourceOK(s)
  BY DEF VecInv
<1>2. \A p \in Indexers : WorksOn(p, s)' => p # q /\ WorksOn(p, s)
  BY DEF WorksOn
<1>3. settled[s]' = NotSettled
  BY <1>1 DEF SourceOK
<1>4. \A p \in Indexers : p # q /\ WorksOn(p, s) => ~indexer[p].alone
  BY <1>1 DEF SourceOK
<1> QED  BY <1>2, <1>3, <1>4 DEF SourceOK

\* A call fails: the request ends, and its source may be hurt.
LEMMA CallFailed == ASSUME VecInv, NEW q \in Indexers, VecCallFails(q) PROVE VecInv'
<1>1. VecTypes /\ StagesFit /\ HeldTyped /\ EntriesFit /\ FilesApart /\ VecShape
      /\ \A t \in VecSources : SourceOK(t)
  BY DEF VecInv, VecShape
<1>2. PICK s, left, f, c : /\ s = indexer[q].source /\ left = indexer[q].left
                           /\ f = indexer[q].file /\ c = Head(left)
  OBVIOUS
<1>3. /\ indexer[q].at # "idle" /\ Moves(q, NotIndexing) /\ unhurt' = unhurt \ {s}
      /\ UNCHANGED <<kind, sourceFiles, files, settled>>
  BY <1>2 DEF VecCallFails, At
<1>4. indexer[q] \in IndexJobs
  BY <1>1, <1>3, JobTyped
<1>5. s \in VecSources /\ left \in Seq(VecChunks) /\ WorksOn(q, s)
  BY <1>2, <1>3, <1>4 DEF IndexJobs, WorksOn
<1>6. NotIndexing.at = "idle"
  BY DEF NotIndexing
<1>7. /\ indexer' \in [Indexers -> IndexJobs \cup {NotIndexing}] /\ StagesFit'
      /\ indexer'[q] = NotIndexing /\ \A p \in Indexers : p # q => indexer'[p] = indexer[p]
  BY <1>1, <1>3, <1>6, MovesTyped
<1>8. VecTypes'
  BY <1>1, <1>3, <1>7 DEF VecTypes
<1>9. HeldTyped' /\ EntriesFit' /\ FilesApart' /\ \A e : e.source # s => (e \in held' <=> e \in held)
  <2>1. \/ held' = held
        \/ kind # "openai" /\ held' = held \ Search(s)
        \/ /\ indexer[q].at = "upsert"
           /\ held' = held \cup {Entry(<<s, x>>, s, x) : x \in Range(left)}
        \/ indexer[q].at = "attach" /\ held' = held \cup {Entry(f, s, c)}
    BY <1>2 DEF VecCallFails, At
  <2>2. CASE held' = held
    <3>1. FilesApart'
      BY <1>3, <1>6, <1>7, <2>2, FilesStayApart
    <3> QED  BY <1>1, <1>3, <2>2, <3>1 DEF HeldTyped, EntriesFit
  <2>3. CASE kind # "openai" /\ held' = held \ Search(s)
    BY <1>1, <1>3, <2>3, SearchRest DEF HeldTyped, EntriesFit, FilesApart
  <2>4. CASE indexer[q].at = "upsert" /\ held' = held \cup {Entry(<<s, x>>, s, x) : x \in Range(left)}
    <3>1. kind # "openai"
      BY <1>1, <2>4 DEF StagesFit, VecStage
    <3>2. HeldTyped' /\ EntriesFit' /\ \A e : e.source # s => (e \in held' <=> e \in held)
      BY <1>3, <1>5, <2>4, <3>1, UpsertTyped
    <3> QED  BY <1>3, <3>1, <3>2 DEF FilesApart
  <2>5. CASE indexer[q].at = "attach" /\ held' = held \cup {Entry(f, s, c)}
    <3>1. kind = "openai"
      BY <1>1, <2>5 DEF StagesFit, VecStage
    <3>2. FilesApart'
      BY <1>2, <1>3, <1>6, <1>7, <2>5, <3>1, AttachedApart DEF At
    <3>3. HeldTyped' /\ EntriesFit'
      BY <1>1, <1>3, <1>5, <2>5, <3>1 DEF HeldTyped, EntriesFit, Entry
    <3> QED  BY <2>5, <3>2, <3>3, EntryIs
  <2> QED  BY <2>1, <2>2, <2>3, <2>4, <2>5
<1>10. OnlySource(q, s)
  BY <1>2, <1>3, <1>6, <1>7, <1>9 DEF OnlySource
<1>11. SourceOK(s)'
  BY <1>3, <1>5, <1>6, <1>7, FailedOK
<1> QED  BY <1>5, <1>7, <1>8, <1>9, <1>10, <1>11, OthersKeptVec DEF VecInv

\* A restart forgets the files, and whose they were.
LEMMA RestartForgets == ASSUME VecInv, VecRestarts PROVE VecInv'
<1>1. VecTypes /\ StagesFit /\ HeldTyped /\ EntriesFit /\ FilesApart /\ VecShape
      /\ \A t \in VecSources : SourceOK(t)
  BY DEF VecInv, VecShape
<1>2. /\ indexer' = [q \in Indexers |-> NotIndexing] /\ sourceFiles' = [s \in VecSources |-> <<>>]
      /\ held' = (IF kind = "memory" THEN {} ELSE held)
      /\ settled' = (IF kind = "memory" THEN [s \in VecSources |-> NotSettled] ELSE settled)
      /\ unhurt' = {s \in unhurt : sourceFiles[s] = <<>> /\ AtWorkOn(s) = {}}
      /\ UNCHANGED <<kind, files>>
  BY DEF VecRestarts
<1>3. \A q \in Indexers : indexer'[q] = NotIndexing /\ indexer'[q].at = "idle"
  BY <1>2 DEF NotIndexing
<1>4. \A s \in VecSources : sourceFiles'[s] = <<>> /\ Range(sourceFiles'[s]) = {}
        /\ IsInjective(sourceFiles'[s])
  BY <1>2 DEF Range, IsInjective
<1>5. VecTypes'
  BY <1>1, <1>2 DEF VecTypes
<1>6. StagesFit' /\ HeldTyped' /\ EntriesFit'
  BY <1>1, <1>2, <1>3 DEF StagesFit, HeldTyped, EntriesFit
<1>7. FilesApart'
  BY <1>1, <1>2, <1>3, <1>4 DEF FilesApart, InHand
<1>8. ASSUME NEW s \in VecSources PROVE SourceOK(s)'
  <2>1. \A q \in Indexers : ~WorksOn(q, s)'
    BY <1>3 DEF WorksOn
  <2>2. ASSUME kind = "openai", s \in unhurt' PROVE Search(s) = {} /\ Search(s)' = {}
    <3>1. s \in unhurt /\ sourceFiles[s] = <<>> /\ \A q \in Indexers : ~WorksOn(q, s)
      BY <1>2, <2>2 DEF AtWorkOn, WorksOn
    <3>2. \A e \in Search(s) : Remembered(s, e.id)
      BY <1>1, <2>2, <3>1 DEF SourceOK
    <3>3. Range(<<>>) = {}
      BY DEF Range
    <3>4. Search(s) = {}
      BY <3>1, <3>2, <3>3 DEF Remembered
    <3> QED  BY <1>2, <2>2, <3>4 DEF Search
  <2>3. ASSUME settled'[s] # NotSettled PROVE SettledFits(s, settled[s])'
    <3>1. kind # "memory" /\ settled' = settled /\ held' = held
      BY <1>2, <2>3
    <3>2. PICK w : w = settled[s] /\ w = settled'[s]
      BY <3>1
    <3>3. SettledFits(s, w)
      BY <1>1, <2>3, <3>2 DEF SourceOK
    <3>4. CASE kind = "openai"
      <4>1. ASSUME s \in unhurt' PROVE Len(<<>>) = Len(w) /\ Search(s)' = Filed(s, w)'
        <5>1. s \in unhurt /\ sourceFiles[s] = <<>>
          BY <1>2, <4>1
        <5>2. Len(<<>>) = Len(w)
          BY <3>3, <3>4, <5>1 DEF SettledFits
        <5>3. Filed(s, w)' = {}
          BY <1>4 DEF Filed
        <5> QED  BY <2>2, <3>4, <4>1, <5>2, <5>3
      <4>2. SettledFits(s, w)'
        BY <1>2, <1>4, <3>4, <4>1 DEF SettledFits
      <4> QED  BY <3>2, <4>2
    <3>5. CASE kind # "openai"
      <4>1. SettledFits(s, w)'
        BY <1>2, <3>1, <3>3, <3>5 DEF SettledFits, Search, Keyed, Entry
      <4> QED  BY <3>2, <4>1
    <3> QED  BY <3>4, <3>5
  <2> QED  BY <1>2, <2>1, <2>2, <2>3 DEF SourceOK
<1> QED  BY <1>5, <1>6, <1>7, <1>8 DEF VecInv

-----------------------------------------------------------------------------
\* VecInv holds of each backend, whatever overlaps and fails.
THEOREM VecInvariant == VecSpec => []VecInv
<1>1. VecInit => VecInv
  <2> SUFFICES ASSUME VecInit PROVE VecInv
    OBVIOUS
  <2>1. VecTypes
    BY DEF VecInit, VecTypes
  <2>2. \A q \in Indexers : indexer[q].at = "idle"
    BY DEF VecInit, NotIndexing
  <2>3. \A s \in VecSources : Range(sourceFiles[s]) = {} /\ IsInjective(sourceFiles[s])
    BY DEF VecInit, Range, IsInjective
  <2>4. StagesFit /\ HeldTyped /\ EntriesFit
    BY <2>2 DEF VecInit, StagesFit, HeldTyped, EntriesFit
  <2>5. FilesApart
    BY <2>2, <2>3 DEF VecInit, FilesApart, InHand
  <2>6. \A s \in VecSources : SourceOK(s)
    BY <2>2 DEF VecInit, SourceOK, WorksOn, Search
  <2> QED  BY <2>1, <2>4, <2>5, <2>6 DEF VecInv
<1>2. VecInv /\ [VecNext]_vecVars => VecInv'
  <2> SUFFICES ASSUME VecInv, [VecNext]_vecVars PROVE VecInv'
    OBVIOUS
  <2>1. CASE UNCHANGED vecVars
    <3>1. VecTypes' /\ StagesFit' /\ HeldTyped' /\ EntriesFit' /\ FilesApart'
      BY <2>1 DEF vecVars, VecInv, VecTypes, StagesFit, VecStage, HeldTyped, EntriesFit, FilesApart,
                  HandApart, Owns, InHand, At
    <3>2. \A s \in VecSources : SourceOK(s)'
      <4> SUFFICES ASSUME NEW s \in VecSources, SourceOK(s) PROVE SourceOK(s)'
        BY DEF VecInv
      <4>1. Search(s)' = Search(s) /\ \A w : Filed(s, w)' = Filed(s, w)
        BY <2>1 DEF vecVars, Search, Filed, Entry
      <4>2. /\ kind' = kind /\ held' = held /\ sourceFiles' = sourceFiles
            /\ indexer' = indexer /\ settled' = settled /\ unhurt' = unhurt
        BY <2>1 DEF vecVars
      <4>3. \A q \in Indexers : WorksOn(q, s)' = WorksOn(q, s)
        BY <4>2 DEF WorksOn
      <4>4. \A f : Remembered(s, f)' = Remembered(s, f)
        BY <4>2, <4>3 DEF Remembered, At
      <4>5. \A w : SettledFits(s, w)' = SettledFits(s, w)
        BY <4>1, <4>2 DEF SettledFits, Keyed, Entry
      <4>6. ASSUME NEW j PROVE JobFits(s, j)' = JobFits(s, j)
        <5>1. Filed(s, j.wants)' = Filed(s, j.wants)
          BY <4>1
        <5>2. LeftOf(j.wants, j.left, Len(sourceFiles[s]))' =
                LeftOf(j.wants, j.left, Len(sourceFiles[s]))
          BY <4>2
        <5>3. sourceFiles'[s] = sourceFiles[s]
          BY <4>2
        <5> QED  BY <4>1, <4>2, <5>1, <5>2, <5>3 DEF JobFits, Entry
      <4>7. settled'[s] # NotSettled =>
                (\A q \in Indexers : ~WorksOn(q, s)') /\ SettledFits(s, settled[s])'
        <5>1. PICK w : w = settled[s] /\ w = settled'[s]
          BY <4>2
        <5>2. w # NotSettled => (\A q \in Indexers : ~WorksOn(q, s)) /\ SettledFits(s, w)
          BY <5>1 DEF SourceOK
        <5>3. SettledFits(s, w)' = SettledFits(s, w)
          BY <4>5
        <5> QED  BY <4>3, <5>1, <5>2, <5>3
      <4>8. ASSUME NEW q \in Indexers, WorksOn(q, s)', indexer'[q].alone
            PROVE  (\A p \in Indexers : WorksOn(p, s)' => p = q) /\ JobFits(s, indexer[q])'
        <5>1. PICK j : j = indexer[q] /\ j = indexer'[q]
          BY <4>2
        <5>2. (\A p \in Indexers : WorksOn(p, s) => p = q) /\ JobFits(s, j)
          BY <4>2, <4>3, <4>8, <5>1 DEF SourceOK
        <5>3. JobFits(s, j)'
          BY <4>6, <5>2
        <5> QED  BY <4>3, <5>1, <5>2, <5>3
      <4>9. kind' = "openai" /\ s \in unhurt' => \A e \in Search(s)' : Remembered(s, e.id)'
        <5>1. kind' = "openai" /\ s \in unhurt' => \A e \in Search(s) : Remembered(s, e.id)
          BY <4>2 DEF SourceOK
        <5> QED  BY <4>1, <4>4, <5>1
      <4> QED  BY <4>7, <4>8, <4>9 DEF SourceOK
    <3> QED  BY <3>1, <3>2 DEF VecInv
  <2> QED
    BY <2>1, IndexBegins, FilterDeleted, FileDeleted, AllUpserted, FileUploaded, FileAttached,
       FileIsReady, CallFailed, RestartForgets DEF VecNext
<1> QED  BY <1>1, <1>2, PTL DEF VecSpec

Apart(ids, n) == \A i, j \in 1..n : ids[i] = ids[j] => i = j
EntriesOf(ids, s, w, n) == {Entry(ids[i], s, w[i]) : i \in 1..n}
TheirChunks(S) == {e.chunk : e \in S}
FirstOf(w, n) == {w[i] : i \in 1..n}

\* As many entries as chunks, if each goes back to one of its own.
LEMMA EntriesCounted ==
    ASSUME NEW w, NEW n \in Nat, NEW s, NEW ids, Apart(ids, n)
    PROVE  /\ Cardinality(EntriesOf(ids, s, w, n)) = n
           /\ TheirChunks(EntriesOf(ids, s, w, n)) = FirstOf(w, n)
<1> DEFINE S == {Entry(ids[i], s, w[i]) : i \in 1..n}
           b == [i \in 1..n |-> Entry(ids[i], s, w[i])]
<1>1. b \in [1..n -> S]
  OBVIOUS
<1>2. \A i \in 1..n : b[i].id = ids[i]
  BY DEF Entry
<1>3. \A e \in S : \E i \in 1..n : b[i] = e
  OBVIOUS
<1>4. DOMAIN b = 1..n
  OBVIOUS
<1>5. {e.chunk : e \in S} = {w[i] : i \in 1..n}
  <2>1. ASSUME NEW i \in 1..n PROVE w[i] \in {e.chunk : e \in S}
    <3>1. Entry(ids[i], s, w[i]) \in S /\ Entry(ids[i], s, w[i]).chunk = w[i]
      BY DEF Entry
    <3> HIDE DEF S
    <3> QED  BY <3>1
  <2>2. ASSUME NEW e \in S PROVE e.chunk \in {w[i] : i \in 1..n}
    BY DEF Entry
  <2> HIDE DEF S
  <2> QED  BY <2>1, <2>2
<1>6. \A i, j \in 1..n : b[i] = b[j] => i = j
  <2> SUFFICES ASSUME NEW i \in 1..n, NEW j \in 1..n, b[i] = b[j] PROVE i = j
    OBVIOUS
  <2> HIDE DEF b
  <2>1. ids[i] = ids[j]
    BY <1>2
  <2> QED  BY <2>1 DEF Apart
<1> HIDE DEF b, S
<1>7. IsInjective(b)
  BY <1>4, <1>6 DEF IsInjective
<1>8. b \in Injection(1..n, S)
  BY <1>1, <1>7 DEF Injection
<1>9. b \in Surjection(1..n, S)
  BY <1>1, <1>3 DEF Surjection
<1>10. ExistsBijection(1..n, S)
  BY <1>8, <1>9 DEF ExistsBijection, Bijection
<1>11. Cardinality(S) = n
  BY <1>10, FS_CountingElements
<1> QED  BY <1>5, <1>11 DEF S, EntriesOf, TheirChunks, FirstOf

\* The index of a source has the chunks it was given, once each, and every one
\* of their files can be found again.
THEOREM IndexFollows == VecSpec => []IndexFollowsSources
<1>1. VecInv => IndexFollowsSources
  <2> SUFFICES ASSUME VecInv PROVE IndexFollowsSources
    OBVIOUS
  <2>1. ASSUME NEW s \in VecSources, settled[s] # NotSettled, kind = "openai" => s \in unhurt
        PROVE  /\ {e.chunk : e \in Search(s)} = Range(settled[s])
               /\ Cardinality(Search(s)) = Len(settled[s])
    <3>1. SettledFits(s, settled[s])
      BY <2>1 DEF VecInv, SourceOK
    <3>2. PICK w : w = settled[s]
      OBVIOUS
    <3>3. w \in ChunkLists
      BY <2>1, <3>2 DEF VecInv, VecTypes
    <3>4. /\ w \in Seq(VecChunks) /\ IsInjective(w) /\ Len(w) \in Nat /\ DOMAIN w = 1..Len(w)
      BY <3>3, ChunkListTyped
    <3>5. CASE kind = "openai"
      <4>1. PICK fs : fs = sourceFiles[s]
        OBVIOUS
      <4>2. Len(fs) = Len(w) /\ Search(s) = {Entry(fs[i], s, w[i]) : i \in 1..Len(w)}
        BY <2>1, <3>1, <3>2, <3>5, <4>1 DEF SettledFits, Filed
      <4>3. IsInjective(fs) /\ DOMAIN fs = 1..Len(fs)
        BY <3>5, <4>1, FilesAre DEF VecInv, VecTypes
      <4>4. \A i, j \in 1..Len(w) : fs[i] = fs[j] => i = j
        BY <4>2, <4>3 DEF IsInjective
      <4>5. PICK n \in Nat : n = Len(w)
        BY <3>4
      <4>6. /\ Cardinality(EntriesOf(fs, s, w, n)) = n
            /\ TheirChunks(EntriesOf(fs, s, w, n)) = FirstOf(w, n)
        <5>1. Apart(fs, n)
          BY <4>4, <4>5 DEF Apart
        <5> QED  BY <5>1, EntriesCounted
      <4>7. /\ Cardinality(Search(s)) = n
            /\ {e.chunk : e \in Search(s)} = {w[i] : i \in 1..n}
        BY <4>2, <4>5, <4>6 DEF EntriesOf, TheirChunks, FirstOf
      <4> QED  BY <3>2, <3>4, <4>5, <4>7 DEF Range
    <3>6. CASE kind # "openai"
      <4> DEFINE ids == [i \in 1..Len(w) |-> <<s, w[i]>>]
      <4>1. Search(s) = {Entry(<<s, w[i]>>, s, w[i]) : i \in 1..Len(w)}
        BY <3>1, <3>2, <3>4, <3>6 DEF SettledFits, Keyed, Range
      <4>2. Search(s) = {Entry(ids[i], s, w[i]) : i \in 1..Len(w)}
        BY <4>1
      <4>3. \A i, j \in 1..Len(w) : ids[i] = ids[j] => i = j
        BY <3>4 DEF IsInjective
      <4> HIDE DEF ids
      <4>4. PICK n \in Nat : n = Len(w)
        BY <3>4
      <4>5. /\ Cardinality(EntriesOf(ids, s, w, n)) = n
            /\ TheirChunks(EntriesOf(ids, s, w, n)) = FirstOf(w, n)
        <5>1. Apart(ids, n)
          BY <4>3, <4>4 DEF Apart
        <5> QED  BY <5>1, EntriesCounted
      <4>6. /\ Cardinality(Search(s)) = n
            /\ {e.chunk : e \in Search(s)} = {w[i] : i \in 1..n}
        BY <4>2, <4>4, <4>5 DEF EntriesOf, TheirChunks, FirstOf
      <4> QED  BY <3>2, <3>4, <4>4, <4>6 DEF Range
    <3> QED  BY <3>5, <3>6
  <2>2. NoFileForgotten
    <3> SUFFICES ASSUME kind = "openai", NEW e \in held, e.source \in unhurt
                 PROVE  \/ e.id \in Range(sourceFiles[e.source])
                        \/ \E q \in AtWorkOn(e.source) :
                              \/ e.id \in Range(indexer[q].todo)
                              \/ At(q, "wait") /\ indexer[q].file = e.id
      BY DEF NoFileForgotten
    <3>1. e.source \in VecSources /\ e \in Search(e.source)
      BY DEF VecInv, VecTypes, Search
    <3>2. Remembered(e.source, e.id)
      BY <3>1 DEF VecInv, SourceOK
    <3> QED  BY <3>2 DEF Remembered, AtWorkOn, WorksOn
  <2> QED  BY <2>1, <2>2 DEF IndexFollowsSources, IndexedAsAsked
<1> QED  BY <1>1, VecInvariant, PTL

\* What an OpenAI store lists has been uploaded, and what is about to be
\* attached; the other indexes remember no files.
UploadsKept ==
    /\ \A e \in held : e.id \in uploaded
    /\ \A q \in Indexers : At(q, "attach") => indexer[q].file \in uploaded
NoFiles == \A s \in VecSources : sourceFiles[s] = <<>>
VecCounted == vecCalls \in 0..MaxVecCalls /\ vecFaults \in 0..MaxVecFaults
VecRest ==
    /\ VecCounted
    /\ kind = "openai" => UploadsKept
    /\ kind # "openai" => NoFiles

\* A request leaves what the others are about to attach alone.
OthersStay(q) == \A p \in Indexers : p # q => indexer'[p] = indexer[p]

\* A request goes on, and leaves the others where they are.
LEMMA MovesStays ==
    ASSUME VecTypes, NEW q \in Indexers, NEW j, Moves(q, j)
    PROVE  OthersStay(q) /\ indexer'[q] = j
  BY DEF VecTypes, Moves, OthersStay

\* And so does one whose next stage is to insert what is left.
LEMMA InsertsStays ==
    ASSUME VecTypes, NEW q \in Indexers, indexer[q].at # "idle", NEW left, Inserts(q, left)
    PROVE  OthersStay(q) /\ indexer'[q].at # "attach"
<1>1. indexer[q] \in IndexJobs
  BY JobTyped
<1>2. CASE left = <<>>
  BY <1>2, MovesStays DEF Inserts, NotIndexing
<1>3. CASE left # <<>>
  <2> DEFINE j == [indexer[q] EXCEPT !.left = left,
                                     !.at = IF kind = "openai" THEN "upload" ELSE "upsert"]
  <2>1. Moves(q, j)
    BY <1>3 DEF Inserts
  <2>2. j.at # "attach"
    BY <1>1 DEF IndexJobs
  <2> HIDE DEF j
  <2> QED  BY <2>1, <2>2, MovesStays
<1> QED  BY <1>2, <1>3

\* What is listed or about to be attached stays uploaded when no file goes.
LEMMA UploadsStay ==
    ASSUME UploadsKept, NEW q \in Indexers, OthersStay(q), indexer'[q].at # "attach",
           uploaded \subseteq uploaded', \A e \in held' : e \in held \/ e.id \in uploaded'
    PROVE  UploadsKept'
  BY DEF UploadsKept, At, OthersStay

\* A step that is neither a request nor a failure counts as nothing.
LEMMA CountsStay ==
    ASSUME VecCounted, UNCHANGED <<vecCalls, vecFaults>> PROVE VecCounted'
  BY DEF VecCounted

\* The variables of the indexes have their types.
THEOREM VecTyped == VecSpec => []VecTypeOK
<1>1. VecInit => VecRest
  BY VecAssumption DEF VecInit, VecRest, VecCounted, UploadsKept, NoFiles, At, NotIndexing
<1>2. ASSUME VecInv, VecRest, [VecNext]_vecVars PROVE VecRest'
  <2>0. /\ VecTypes /\ StagesFit /\ FilesApart /\ VecCounted
        /\ kind = "openai" => UploadsKept
        /\ kind # "openai" => NoFiles
    BY <1>2 DEF VecInv, VecRest
  <2>1. ASSUME NEW q \in Indexers, NEW s \in VecSources, NEW c \in ChunkLists, IndexSource(q, s, c)
        PROVE  VecRest'
    <3>1. VecCounted'
      BY <2>0, <2>1, VecAssumption DEF VecCounted, IndexSource
    <3>2. ASSUME NoFiles PROVE NoFiles'
      BY <2>0, <2>1, <3>2 DEF NoFiles, IndexSource, VecTypes
    <3>3. ASSUME UploadsKept PROVE UploadsKept'
      <4>1. UNCHANGED <<held, uploaded>>
        BY <2>1 DEF IndexSource
      <4>2. ASSUME NEW p \in Indexers, indexer'[p].at = "attach" PROVE indexer'[p].file \in uploaded
        <5>1. CASE p = q
          BY <2>1, <4>2, <5>1 DEF IndexSource
        <5>2. CASE p # q /\ p \in AtWorkOn(s)
          <6>1. indexer'[p] = [indexer[p] EXCEPT !.alone = FALSE]
            BY <2>1, <5>2 DEF IndexSource
          <6>2. indexer[p] \in IndexJobs
            BY <2>0, <5>2, JobTyped DEF AtWorkOn
          <6> QED  BY <3>3, <4>2, <6>1, <6>2 DEF IndexJobs, UploadsKept, At
        <5>3. CASE p # q /\ p \notin AtWorkOn(s)
          BY <2>1, <3>3, <4>2, <5>3 DEF IndexSource, UploadsKept, At
        <5> QED  BY <5>1, <5>2, <5>3
      <4> QED  BY <3>3, <4>1, <4>2 DEF UploadsKept, At
    <3> QED  BY <2>0, <2>1, <3>1, <3>2, <3>3 DEF VecRest, IndexSource
  <2>2. ASSUME NEW q \in Indexers, DeleteByFilter(q) PROVE VecRest'
    <3>1. kind' = kind /\ kind # "openai" /\ UNCHANGED <<sourceFiles, vecCalls, vecFaults>>
      BY <2>2 DEF DeleteByFilter, VecQuiet
    <3> QED  BY <2>0, <3>1, CountsStay DEF VecRest, NoFiles
  <2>3. ASSUME NEW q \in Indexers, DeleteFile(q) PROVE VecRest'
    <3>0. /\ kind' = kind /\ kind = "openai" /\ UNCHANGED <<vecCalls, vecFaults>>
          /\ indexer[q].at = "delete" /\ indexer[q] \in IndexJobs
      BY <2>0, <2>3, JobTyped DEF DeleteFile, VecQuiet, At
    <3>1. CASE indexer[q].todo = <<>>
      <4>1. Inserts(q, indexer[q].left) /\ UNCHANGED <<held, uploaded>>
        BY <2>3, <3>1 DEF DeleteFile, vecRemote
      <4>2. UploadsKept'
        BY <2>0, <3>0, <4>1, InsertsStays, UploadsStay
      <4> QED  BY <2>0, <3>0, <4>2, CountsStay DEF VecRest
    <3>2. CASE indexer[q].todo # <<>>
      <4> DEFINE f == Head(indexer[q].todo)
      <4>1. /\ held' = {e \in held : e.id # f} /\ uploaded' \in {uploaded, uploaded \ {f}}
            /\ Moves(q, [indexer[q] EXCEPT !.todo = Tail(@)])
        BY <2>3, <3>2 DEF DeleteFile
      <4>2. f \in Range(indexer[q].todo)
        <5>1. indexer[q].todo \in Seq(Nat)
          BY <3>0 DEF IndexJobs
        <5> QED  BY <3>2, <5>1 DEF Range
      <4>3. ASSUME NEW p \in Indexers, At(p, "attach") PROVE indexer[p].file # f
        <5>1. HandApart(p)
          BY <2>0, <3>0, <4>3 DEF FilesApart, InHand, At
        <5> QED  BY <3>0, <4>2, <5>1 DEF HandApart
      <4>4. OthersStay(q) /\ indexer'[q].at = "delete"
        BY <2>0, <3>0, <4>1, MovesStays DEF IndexJobs
      <4> HIDE DEF f
      <4>5. UploadsKept'
        <5>1. ASSUME NEW e \in held' PROVE e.id \in uploaded'
          BY <2>0, <3>0, <4>1, <5>1 DEF UploadsKept
        <5>2. ASSUME NEW p \in Indexers, At(p, "attach")' PROVE indexer'[p].file \in uploaded'
          <6>1. p # q /\ indexer'[p] = indexer[p]
            BY <4>4, <5>2 DEF At, OthersStay
          <6>2. indexer[p].file \in uploaded /\ indexer[p].file # f
            BY <2>0, <3>0, <4>3, <5>2, <6>1 DEF UploadsKept, At
          <6> QED  BY <4>1, <6>1, <6>2
        <5> QED  BY <5>1, <5>2 DEF UploadsKept
      <4> QED  BY <2>0, <3>0, <4>5, CountsStay DEF VecRest
    <3> QED  BY <3>1, <3>2
  <2>4. ASSUME NEW q \in Indexers, UpsertAll(q) PROVE VecRest'
    <3>1. kind # "openai"
      BY <2>0, <2>4 DEF UpsertAll, At, StagesFit, VecStage
    <3>2. kind' = kind /\ UNCHANGED <<sourceFiles, vecCalls, vecFaults>>
      BY <2>4 DEF UpsertAll, VecQuiet
    <3> QED  BY <2>0, <3>1, <3>2, CountsStay DEF VecRest, NoFiles
  <2>5. ASSUME NEW q \in Indexers, indexer[q].at \in {"upload", "attach", "wait"} PROVE kind = "openai"
    BY <2>0, <2>5 DEF StagesFit, VecStage
  <2>6. ASSUME NEW q \in Indexers, uploadChunkFile(q) PROVE VecRest'
    <3>1. /\ UNCHANGED <<kind, held, vecCalls, vecFaults>> /\ kind = "openai"
          /\ uploaded' = uploaded \cup {files'}
          /\ Moves(q, [indexer[q] EXCEPT !.at = "attach", !.file = files'])
          /\ indexer[q] \in IndexJobs
      BY <2>0, <2>5, <2>6, JobTyped DEF uploadChunkFile, At
    <3>2. OthersStay(q) /\ indexer'[q].file = files'
      <4> DEFINE j == [indexer[q] EXCEPT !.at = "attach", !.file = files']
      <4>1. Moves(q, j) /\ j.file = files'
        BY <3>1 DEF IndexJobs
      <4> HIDE DEF j
      <4> QED  BY <2>0, <4>1, MovesStays
    <3>3. UploadsKept'
      BY <2>0, <3>1, <3>2 DEF UploadsKept, At, OthersStay
    <3> QED  BY <2>0, <3>1, <3>3, CountsStay DEF VecRest
  <2>7. ASSUME NEW q \in Indexers, attachFile(q) PROVE VecRest'
    <3>1. /\ UNCHANGED <<kind, uploaded, vecCalls, vecFaults>> /\ kind = "openai"
          /\ held' = held \cup {Entry(indexer[q].file, indexer[q].source, Head(indexer[q].left))}
          /\ Moves(q, [indexer[q] EXCEPT !.at = "wait"])
          /\ indexer[q] \in IndexJobs /\ At(q, "attach")
      BY <2>0, <2>5, <2>7, JobTyped DEF attachFile, At, VecQuiet
    <3>2. OthersStay(q) /\ indexer'[q].at = "wait"
      BY <2>0, <3>1, MovesStays DEF IndexJobs
    <3>3. indexer[q].file \in uploaded
      BY <2>0, <3>1 DEF UploadsKept
    <3>4. UploadsKept'
      BY <2>0, <3>1, <3>2, <3>3, UploadsStay DEF Entry
    <3> QED  BY <2>0, <3>1, <3>4, CountsStay DEF VecRest
  <2>8. ASSUME NEW q \in Indexers, waitFileReady(q) PROVE VecRest'
    <3>1. /\ UNCHANGED <<kind, held, uploaded, vecCalls, vecFaults>> /\ kind = "openai"
          /\ Inserts(q, Tail(indexer[q].left)) /\ indexer[q].at # "idle"
      BY <2>5, <2>8 DEF waitFileReady, At, VecQuiet
    <3>2. UploadsKept'
      BY <2>0, <3>1, InsertsStays, UploadsStay
    <3> QED  BY <2>0, <3>1, <3>2, CountsStay DEF VecRest
  <2>9. ASSUME NEW q \in Indexers, VecCallFails(q) PROVE VecRest'
    <3>1. UNCHANGED <<kind, uploaded, sourceFiles>> /\ VecCounted' /\ Moves(q, NotIndexing)
      BY <2>0, <2>9, VecAssumption DEF VecCallFails, VecCounted
    <3>2. ASSUME kind = "openai" PROVE UploadsKept'
      <4>1. OthersStay(q) /\ indexer'[q].at # "attach"
        BY <2>0, <3>1, MovesStays DEF NotIndexing
      <4>2. ASSUME NEW e \in held', e \notin held PROVE e.id \in uploaded
        <5>1. CASE At(q, "upsert")
          BY <2>0, <3>2, <5>1 DEF At, StagesFit, VecStage
        <5>2. CASE ~At(q, "upsert")
          <6>1. /\ At(q, "attach")
                /\ e = Entry(indexer[q].file, indexer[q].source, Head(indexer[q].left))
            BY <2>9, <3>2, <4>2, <5>2 DEF VecCallFails
          <6> QED  BY <2>0, <3>2, <6>1 DEF Entry, UploadsKept
        <5> QED  BY <5>1, <5>2
      <4> QED  BY <2>0, <3>1, <3>2, <4>1, <4>2, UploadsStay
    <3> QED  BY <2>0, <3>1, <3>2 DEF VecRest, NoFiles
  <2>10. CASE VecRestarts
    BY <2>0, <2>10, VecAssumption
    DEF VecRest, VecCounted, VecRestarts, NoFiles, UploadsKept, At, NotIndexing
  <2>11. CASE UNCHANGED vecVars
    BY <2>0, <2>11 DEF VecRest, VecCounted, NoFiles, UploadsKept, At, vecVars
  <2> QED  BY <1>2, <2>1, <2>2, <2>3, <2>4, <2>6, <2>7, <2>8, <2>9, <2>10, <2>11 DEF VecNext
<1>3. ASSUME VecInv, VecRest PROVE VecTypeOK
  <2>1. ASSUME NEW e \in held PROVE e.source \in VecSources
    BY <1>3 DEF VecInv, HeldTyped, Entry
  <2>2. ASSUME NEW q \in Indexers PROVE indexer[q].at \in VecStages
    BY <1>3 DEF VecInv, StagesFit, VecStage, VecStages
  <2> QED  BY <1>3, <2>1, <2>2
           DEF VecTypeOK, VecInv, VecTypes, VecRest, VecCounted, UploadsKept, NoFiles
<1>4. VecInv /\ VecRest /\ [VecNext]_vecVars => VecRest'
  BY <1>2
<1>5. VecInv /\ VecRest => VecTypeOK
  BY <1>3
<1> QED  BY <1>1, <1>4, <1>5, VecInvariant, PTL DEF VecSpec

-----------------------------------------------------------------------------
(* The store of runs *)

Kept == {"plain", "redacted"}
ApprovalsKept == [there : {FALSE}] \cup [there : {TRUE}, summary : Texts]
Turns == [run : StoreRuns, state : States, role : {"user", "assistant", "none"},
          fresh : {"working", "paused", "completed", "failed", "cancelled"}]
StepRecords == [route : {"tool"}, index : Nat, text : Texts, result : Texts,
                approval : ApprovalsKept]
StepRows == [index : Nat, text : Kept, result : Kept, approval : ApprovalsKept]

RecordTypes ==
    /\ backend \in {"memory", "postgres"}
    /\ doing \in [StoreRequests -> StoreStages] /\ turn \in [StoreRequests -> Turns \cup {NoTurn}]
    /\ lastSaved \in [StoreRuns -> States \cup {NoState}]
    /\ stepRows \in [StoreRuns -> Seq(StepRows)] /\ recorded \in [StoreRuns -> Seq(StepRecords)]
    /\ msgRows \in [Conversations -> [{"user", "assistant"} -> Seq(Kept)]]
    /\ usageRows \in [Conversations -> Nat] /\ rollups \in [Conversations -> Nat]
    /\ lostRollups \in [Conversations -> Nat]

\* The row of a run is made of the state saved last.
RunsFit ==
    runRows = [r \in StoreRuns |->
                  IF lastSaved[r] = NoState THEN NoState ELSE toRunRecord(lastSaved[r])]

ApprovalListed(r) == \E k \in DOMAIN stepRows[r] : stepRows[r][k].approval.there

\* What a request has in hand.  Whoever pauses a run, or holds one that is
\* paused, has recorded what it waits for.
Pausing(at, t) == t.state.status = "paused" \/ (at \in {"save", "transition"} /\ t.fresh = "paused")
TurnOK(at, t) ==
    /\ t \in Turns
    /\ at \in {"usage", "rollup", "step", "save", "transition"} => t.role # "user"
    /\ t.role = "none" => t.fresh = "cancelled" /\ at \in {"step", "save", "transition"}
    /\ Pausing(at, t) => ApprovalListed(t.run)

TurnsFit == \A q \in StoreRequests : doing[q] # "idle" => TurnOK(doing[q], turn[q])

\* The rows of a run's steps are its steps, sorted.
StepsSorted(rows) == \A j, k \in DOMAIN rows : j < k => rows[j].index <= rows[k].index
StepsListed(steps, rows) ==
    /\ Len(rows) = Len(steps)
    /\ \A j \in DOMAIN steps : \E k \in DOMAIN rows : rows[k] = toRunStepRecord(steps[j])

HistoryFits ==
    \A r \in StoreRuns :
        /\ StepsSorted(stepRows[r]) /\ StepsListed(recorded[r], stepRows[r])
        /\ lastSaved[r] # NoState /\ lastSaved[r].status = "paused" => ApprovalListed(r)

\* Usage is counted, or is about to be; and it is of a message that is there.
HoldersAt(at, c) == {q \in StoreRequests : doing[q] = at /\ turn[q].state.conv = c}
UsageFits ==
    \A c \in Conversations :
        /\ rollups[c] + lostRollups[c] + Cardinality(HoldersAt("rollup", c)) = usageRows[c]
        /\ usageRows[c] + Cardinality(HoldersAt("usage", c)) <= Len(msgRows[c]["assistant"])

StoreInv == RecordTypes /\ RunsFit /\ TurnsFit /\ HistoryFits /\ UsageFits

-----------------------------------------------------------------------------
\* What is redacted holds no secret.
LEMMA Redacted == \A text \in Texts : RedactString(text) \in Kept
  BY DEF RedactString, Texts, Kept

\* The row of a step is the step without its route, redacted.
LEMMA RowIs ==
    ASSUME NEW p \in StepRecords
    PROVE  /\ toRunStepRecord(p) =
                [index |-> p.index, text |-> RedactString(p.text),
                 result |-> RedactString(p.result), approval |-> p.approval]
           /\ toRunStepRecord(p) \in StepRows
<1>1. p.approval.there \/ p.approval = NoApproval
  BY DEF StepRecords, ApprovalsKept, NoApproval
<1>2. sanitizeRunStep(p).text = RedactString(p.text) /\ sanitizeRunStep(p).result = RedactString(p.result)
  BY DEF sanitizeRunStep, StepRecords
<1>3. toRunStepRecord(p) =
        [index |-> p.index, text |-> RedactString(p.text),
         result |-> RedactString(p.result), approval |-> p.approval]
  BY <1>1, <1>2 DEF toRunStepRecord
<1> QED  BY <1>3, Redacted DEF StepRecords, StepRows

\* A state that was saved is read back, redacted.
LEMMA StateIs ==
    ASSUME NEW s \in States
    PROVE  /\ toRunRecord(s) # NoState /\ runStateFromRecord(toRunRecord(s)) = sanitizeRunState(s)
           /\ sanitizeRunState(s) \in States /\ sanitizeRunState(s).status = s.status
           /\ sanitizeRunState(s).text \in Kept /\ sanitizeRunState(s).result \in Kept
           /\ toRunRecord(s).status = s.status
<1>1. sanitizeRunState(s) = [s EXCEPT !.text = RedactString(s.text), !.result = RedactString(s.result)]
  BY DEF sanitizeRunState
<1>2. RedactString(s.text) \in Kept /\ RedactString(s.result) \in Kept
  BY Redacted DEF States
<1>3. /\ sanitizeRunState(s) \in States /\ sanitizeRunState(s).status = s.status
      /\ sanitizeRunState(s).text = RedactString(s.text)
      /\ sanitizeRunState(s).result = RedactString(s.result)
      /\ sanitizeRunState(s).conv = s.conv /\ sanitizeRunState(s).index = s.index
      /\ sanitizeRunState(s).approval = s.approval
  BY <1>1, <1>2 DEF States, Kept, Texts
<1>4. /\ toRunRecord(s).status = s.status /\ toRunRecord(s).conv = s.conv
      /\ toRunRecord(s).index = s.index /\ toRunRecord(s).approval = s.approval
      /\ toRunRecord(s).text = RedactString(s.text) /\ toRunRecord(s).state = sanitizeRunState(s)
  BY DEF toRunRecord
<1>5. toRunRecord(s) # NoState
  BY <1>4 DEF NoState, States, RunStatuses, Terminal
<1>6. runStateFromRecord(toRunRecord(s)) = sanitizeRunState(s)
  BY <1>3, <1>4 DEF runStateFromRecord, States
<1> QED  BY <1>2, <1>3, <1>4, <1>5, <1>6

\* A sequence with one more in its middle.
HasOneMore(S, s, at, e, more) ==
    /\ more \in Seq(S) /\ Len(more) = Len(s) + 1
    /\ \A j \in 1..at : more[j] = s[j]
    /\ more[at + 1] = e
    /\ \A j \in (at + 1)..Len(s) : more[j + 1] = s[j]

\* InsertAt moves what comes after, and nothing else.
LEMMA InsertedIs ==
    ASSUME NEW S, NEW s \in Seq(S), NEW e \in S, NEW at \in 0..Len(s)
    PROVE  HasOneMore(S, s, at, e, InsertAt(s, at + 1, e))
<1> DEFINE a == SubSeq(s, 1, at)
           b == SubSeq(s, at + 1, Len(s))
<1>1. /\ at \in Nat /\ Len(s) \in Nat /\ at <= Len(s)
      /\ a \in Seq(S) /\ Len(a) = at /\ \A j \in 1..at : a[j] = s[j]
  OBVIOUS
<1>2. /\ b \in Seq(S) /\ Len(b) = Len(s) - at /\ \A j \in 1..(Len(s) - at) : b[j] = s[at + j]
  BY <1>1
<1>3. InsertAt(s, at + 1, e) = a \o <<e>> \o b
  <2>1. InsertAt(s, at + 1, e) = SubSeq(s, 1, (at + 1) - 1) \o <<e>> \o SubSeq(s, at + 1, Len(s))
    BY Zenon DEF InsertAt
  <2>2. (at + 1) - 1 = at
    BY <1>1
  <2> QED  BY <2>1, <2>2, Zenon
<1> HIDE DEF a, b
<1>4. /\ a \o <<e>> \in Seq(S) /\ Len(a \o <<e>>) = at + 1
      /\ \A j \in 1..at : (a \o <<e>>)[j] = a[j]
      /\ (a \o <<e>>)[at + 1] = e
  BY <1>1
<1>5. PICK d : d = a \o <<e>>
  OBVIOUS
<1>6. /\ d \o b \in Seq(S) /\ Len(d \o b) = Len(s) + 1
      /\ \A j \in 1..(at + 1) : (d \o b)[j] = d[j]
      /\ \A j \in 1..(Len(s) - at) : (d \o b)[at + 1 + j] = b[j]
  BY <1>1, <1>2, <1>4, <1>5
<1>7. ASSUME NEW j \in (at + 1)..Len(s) PROVE (d \o b)[j + 1] = s[j]
  <2>1. j - at \in 1..(Len(s) - at) /\ at + 1 + (j - at) = j + 1 /\ at + (j - at) = j
    BY <1>1
  <2>2. (d \o b)[at + 1 + (j - at)] = b[j - at] /\ b[j - at] = s[at + (j - at)]
    BY <1>2, <1>6, <2>1
  <2> QED  BY <2>1, <2>2
<1>8. InsertAt(s, at + 1, e) = d \o b
  BY <1>3, <1>5, Zenon
<1>9. /\ \A j \in 1..at : (d \o b)[j] = s[j]
      /\ (d \o b)[at + 1] = e
  BY <1>1, <1>4, <1>5, <1>6
<1>10. HasOneMore(S, s, at, e, d \o b)
  BY <1>6, <1>7, <1>9, Zenon DEF HasOneMore
<1> QED  BY <1>8, <1>10, Zenon

-----------------------------------------------------------------------------
\* A request moves on, and the others keep what they have in hand.
LEMMA OneMovesOn ==
    ASSUME RecordTypes, TurnsFit, NEW q \in StoreRequests, NEW at \in StoreStages, NEW t,
           GoesOn(q, at, t), \A r \in StoreRuns : ApprovalListed(r) => ApprovalListed(r)',
           at = "idle" => t = NoTurn, at # "idle" => TurnOK(at, t)'
    PROVE  /\ TurnsFit' /\ doing' \in [StoreRequests -> StoreStages]
           /\ turn' \in [StoreRequests -> Turns \cup {NoTurn}]
<1>1. /\ doing' = [doing EXCEPT ![q] = at] /\ turn' = [turn EXCEPT ![q] = t]
      /\ doing \in [StoreRequests -> StoreStages] /\ turn \in [StoreRequests -> Turns \cup {NoTurn}]
  BY DEF GoesOn, RecordTypes
<1>2. at # "idle" => t \in Turns
  BY DEF TurnOK
<1>3. /\ doing' \in [StoreRequests -> StoreStages]
      /\ turn' \in [StoreRequests -> Turns \cup {NoTurn}]
  BY <1>1, <1>2
<1>4. ASSUME NEW p \in StoreRequests, doing'[p] # "idle" PROVE TurnOK(doing[p], turn[p])'
  <2>1. CASE p = q
    <3>1. doing'[q] = at /\ turn'[q] = t
      BY <1>1
    <3> QED  BY <1>4, <2>1, <3>1 DEF TurnOK, Pausing
  <2>2. CASE p # q
    <3>1. PICK a, u : a = doing[p] /\ u = turn[p] /\ a = doing'[p] /\ u = turn'[p]
      BY <1>1, <2>2
    <3>2. TurnOK(a, u)
      BY <1>4, <3>1 DEF TurnsFit
    <3>3. TurnOK(a, u)'
      BY <3>2 DEF TurnOK, Pausing, Turns
    <3> QED  BY <3>1, <3>3 DEF TurnOK, Pausing
  <2> QED  BY <2>1, <2>2
<1> QED  BY <1>3, <1>4 DEF TurnsFit

\* The requests that hold something are counted by their comings and goings.
IsAtWork(q, at, c) == doing[q] = at /\ turn[q].state.conv = c

\* Of a stage and a conversation the holders are one more or one fewer, as the
\* request that moves comes or goes.
LEMMA HoldersAreCounted ==
    ASSUME RecordTypes, NEW q \in StoreRequests, NEW to, NEW t, GoesOn(q, to, t), NEW at, NEW c
    PROVE  /\ Cardinality(HoldersAt(at, c)) \in Nat /\ Cardinality(HoldersAt(at, c))' \in Nat
           /\ IsAtWork(q, at, c) /\ IsAtWork(q, at, c)' =>
                 Cardinality(HoldersAt(at, c))' = Cardinality(HoldersAt(at, c))
           /\ ~IsAtWork(q, at, c) /\ ~IsAtWork(q, at, c)' =>
                 Cardinality(HoldersAt(at, c))' = Cardinality(HoldersAt(at, c))
           /\ IsAtWork(q, at, c) /\ ~IsAtWork(q, at, c)' =>
                 Cardinality(HoldersAt(at, c))' + 1 = Cardinality(HoldersAt(at, c))
           /\ ~IsAtWork(q, at, c) /\ IsAtWork(q, at, c)' =>
                 Cardinality(HoldersAt(at, c))' = Cardinality(HoldersAt(at, c)) + 1
<1>1. PICK H, I : H = HoldersAt(at, c) /\ I = HoldersAt(at, c)'
  OBVIOUS
<1>2. /\ H \subseteq StoreRequests /\ I \subseteq StoreRequests
      /\ \A p \in StoreRequests : p \in H <=> IsAtWork(p, at, c)
      /\ \A p \in StoreRequests : p \in I <=> IsAtWork(p, at, c)'
  BY <1>1 DEF HoldersAt, IsAtWork
<1>3. \A p \in StoreRequests : p # q => (IsAtWork(p, at, c)' <=> IsAtWork(p, at, c))
  BY DEF IsAtWork, GoesOn, RecordTypes
<1>4. IsFiniteSet(H) /\ IsFiniteSet(I)
  BY <1>2, FS_Subset, StoreAssumption
<1>5. Cardinality(H) \in Nat /\ Cardinality(I) \in Nat
  BY <1>4, FS_CardinalityType
<1>6. CASE IsAtWork(q, at, c) <=> IsAtWork(q, at, c)'
  <2>1. H = I
    BY <1>2, <1>3, <1>6
  <2> QED  BY <1>1, <1>5, <1>6, <2>1
<1>7. CASE IsAtWork(q, at, c) /\ ~IsAtWork(q, at, c)'
  <2>1. H = I \cup {q} /\ q \notin I
    BY <1>2, <1>3, <1>7
  <2>2. Cardinality(I \cup {q}) = Cardinality(I) + 1
    BY <1>4, <2>1, FS_AddElement
  <2> QED  BY <1>1, <1>5, <1>7, <2>1, <2>2
<1>8. CASE ~IsAtWork(q, at, c) /\ IsAtWork(q, at, c)'
  <2>1. I = H \cup {q} /\ q \notin H
    BY <1>2, <1>3, <1>8
  <2>2. Cardinality(H \cup {q}) = Cardinality(H) + 1
    BY <1>4, <2>1, FS_AddElement
  <2> QED  BY <1>1, <1>5, <1>8, <2>1, <2>2
<1> QED  BY <1>6, <1>7, <1>8

\* A step that changes no usage and no message, and brings nobody to one.
LEMMA UsageStays ==
    ASSUME RecordTypes, UsageFits, NEW q \in StoreRequests, NEW to, NEW t, GoesOn(q, to, t),
           to \notin {"usage", "rollup"}, doing[q] # "rollup",
           usageRows' = usageRows, rollups' = rollups, lostRollups' = lostRollups,
           msgRows' = msgRows
    PROVE  UsageFits'
<1> SUFFICES ASSUME NEW c \in Conversations
    PROVE  /\ rollups[c] + lostRollups[c] + Cardinality(HoldersAt("rollup", c))' = usageRows[c]
           /\ usageRows[c] + Cardinality(HoldersAt("usage", c))' <= Len(msgRows[c]["assistant"])
  BY DEF UsageFits
<1>1. ~IsAtWork(q, "rollup", c) /\ ~IsAtWork(q, "rollup", c)' /\ ~IsAtWork(q, "usage", c)'
  BY DEF IsAtWork, GoesOn, RecordTypes
<1>2. PICK a, b, d, e : /\ a = Cardinality(HoldersAt("rollup", c)) /\ b = Cardinality(HoldersAt("rollup", c))'
                        /\ d = Cardinality(HoldersAt("usage", c)) /\ e = Cardinality(HoldersAt("usage", c))'
  OBVIOUS
<1>3. /\ a = b /\ a \in Nat /\ d \in Nat /\ e \in Nat /\ (e = d \/ e + 1 = d)
  BY <1>1, <1>2, HoldersAreCounted
<1>4. /\ rollups[c] + lostRollups[c] + a = usageRows[c]
      /\ usageRows[c] + d <= Len(msgRows[c]["assistant"])
  BY <1>2 DEF UsageFits
<1>5. usageRows[c] \in Nat /\ Len(msgRows[c]["assistant"]) \in Nat
  BY DEF RecordTypes
<1> QED  BY <1>2, <1>3, <1>4, <1>5

-----------------------------------------------------------------------------
\* A state that is saved is the row of its run.
LEMMA RunIsSaved ==
    ASSUME RecordTypes, RunsFit, HistoryFits, NEW r \in StoreRuns, NEW s \in States, UpsertRun(r, s),
           stepRows' = stepRows, recorded' = recorded, s.status = "paused" => ApprovalListed(r)
    PROVE  lastSaved' \in [StoreRuns -> States \cup {NoState}] /\ RunsFit' /\ HistoryFits'
<1>1. runRows' = [runRows EXCEPT ![r] = toRunRecord(s)] /\ lastSaved' = [lastSaved EXCEPT ![r] = s]
  BY Zenon DEF UpsertRun
<1>2. s # NoState
  BY DEF States, NoState
<1>3. lastSaved \in [StoreRuns -> States \cup {NoState}]
  BY DEF RecordTypes
<1>4. RunsFit'
  BY <1>1, <1>2, <1>3 DEF RunsFit
<1>5. ASSUME NEW x \in StoreRuns, lastSaved'[x] # NoState, lastSaved'[x].status = "paused"
      PROVE  ApprovalListed(x)'
  <2>1. ApprovalListed(x)
    BY <1>1, <1>3, <1>5 DEF HistoryFits
  <2> QED  BY <2>1 DEF ApprovalListed
<1> QED  BY <1>1, <1>3, <1>4, <1>5 DEF HistoryFits

\* The indexes of the rows are numbers.
LEMMA IndexesAre ==
    ASSUME NEW rows \in Seq(StepRows)
    PROVE  \A j \in 1..Len(rows) : rows[j] \in StepRows /\ rows[j].index \in Nat
<1>1. \A j \in 1..Len(rows) : rows[j] \in StepRows
  OBVIOUS
<1>2. \A p \in StepRows : p.index \in Nat
  BY DEF StepRows
<1> QED  BY <1>1, <1>2

\* A row that is inserted where it belongs.
LEMMA SortedWithOneMore ==
    ASSUME NEW rows \in Seq(StepRows), NEW row \in StepRows, NEW at \in 0..Len(rows),
           StepsSorted(rows), \A j \in 1..at : rows[j].index <= row.index,
           \A j \in (at + 1)..Len(rows) : row.index <= rows[j].index
    PROVE  StepsSorted(InsertAt(rows, at + 1, row))
<1> DEFINE more == InsertAt(rows, at + 1, row)
<1>0. HasOneMore(StepRows, rows, at, row, more)
  BY InsertedIs, Zenon
<1> HIDE DEF more
<1>1. /\ more \in Seq(StepRows) /\ Len(more) = Len(rows) + 1
      /\ \A j \in 1..at : more[j] = rows[j]
      /\ more[at + 1] = row
      /\ \A j \in (at + 1)..Len(rows) : more[j + 1] = rows[j]
  BY <1>0, Zenon DEF HasOneMore
<1>2. /\ at \in Nat /\ Len(rows) \in Nat /\ at <= Len(rows)
      /\ \A j \in 1..Len(rows) : rows[j].index \in Nat
      /\ row.index \in Nat
  <2>1. \A j \in 1..Len(rows) : rows[j].index \in Nat
    BY IndexesAre
  <2>2. row.index \in Nat
    BY DEF StepRows
  <2> QED  BY <2>1, <2>2
<1>3. DOMAIN more = 1..(Len(rows) + 1)
  BY <1>1
<1> SUFFICES ASSUME NEW j \in 1..(Len(rows) + 1), NEW k \in 1..(Len(rows) + 1), j < k
             PROVE  more[j].index <= more[k].index
  BY <1>3 DEF StepsSorted, more
<1>4. CASE k <= at
  <2>1. j \in 1..at /\ k \in 1..at /\ j \in DOMAIN rows /\ k \in DOMAIN rows
    BY <1>2, <1>4
  <2>2. more[j] = rows[j] /\ more[k] = rows[k]
    BY <1>1, <2>1
  <2>3. rows[j].index <= rows[k].index
    BY <2>1 DEF StepsSorted
  <2> QED  BY <2>2, <2>3
<1>5. CASE k = at + 1
  <2>1. j \in 1..at /\ more[j] = rows[j] /\ more[k] = row
    BY <1>1, <1>2, <1>5
  <2>2. rows[j].index <= row.index
    BY <2>1
  <2> QED  BY <2>1, <2>2
<1>6. CASE k > at + 1
  <2>1. k - 1 \in (at + 1)..Len(rows) /\ (k - 1) + 1 = k
    BY <1>2, <1>6
  <2>2. more[k] = rows[k - 1]
    BY <1>1, <2>1
  <2>3. CASE j <= at
    <3>1. j \in 1..at /\ j \in DOMAIN rows /\ k - 1 \in DOMAIN rows /\ j < k - 1
      BY <1>2, <2>1, <2>3
    <3>2. more[j] = rows[j] /\ rows[j].index <= rows[k - 1].index
      BY <1>1, <3>1 DEF StepsSorted
    <3> QED  BY <2>2, <3>2
  <2>4. CASE j = at + 1
    BY <1>1, <2>1, <2>2, <2>4
  <2>5. CASE j > at + 1
    <3>1. j - 1 \in (at + 1)..Len(rows) /\ (j - 1) + 1 = j /\ j - 1 < k - 1
      BY <1>2, <1>6, <2>5
    <3>2. more[j] = rows[j - 1]
      BY <1>1, <3>1
    <3>3. rows[j - 1].index <= rows[k - 1].index
      BY <1>2, <2>1, <3>1 DEF StepsSorted
    <3> QED  BY <2>2, <3>2, <3>3
  <2> QED  BY <1>2, <2>3, <2>4, <2>5
<1> QED  BY <1>2, <1>4, <1>5, <1>6

\* A sequence with one more at its end.
LEMMA AppendedStep ==
    ASSUME NEW S, NEW s \in Seq(S), NEW e \in S
    PROVE  /\ Append(s, e) \in Seq(S) /\ Len(Append(s, e)) = Len(s) + 1 /\ Len(s) \in Nat
           /\ \A j \in 1..Len(s) : Append(s, e)[j] = s[j]
           /\ Append(s, e)[Len(s) + 1] = e
  OBVIOUS

\* A step that is saved is listed, and nothing else is lost.
LEMMA StepIsSaved ==
    ASSUME RecordTypes, HistoryFits, NEW r \in StoreRuns, NEW p \in StepRecords,
           UpsertStep(r, toRunStepRecord(p)),
           recorded' = [recorded EXCEPT ![r] = Append(@, p)], lastSaved' = lastSaved
    PROVE  /\ stepRows' \in [StoreRuns -> Seq(StepRows)] /\ recorded' \in [StoreRuns -> Seq(StepRecords)]
           /\ HistoryFits' /\ \A x \in StoreRuns : ApprovalListed(x) => ApprovalListed(x)'
           /\ p.approval.there => ApprovalListed(r)'
<1>1. PICK row, rows, steps, grown : /\ row = toRunStepRecord(p) /\ rows = stepRows[r]
                                     /\ steps = recorded[r] /\ grown = Append(steps, p)
  OBVIOUS
<1>2. row \in StepRows /\ row.approval = p.approval
  BY <1>1, RowIs DEF StepRows
<1>3. /\ rows \in Seq(StepRows) /\ steps \in Seq(StepRecords)
      /\ stepRows \in [StoreRuns -> Seq(StepRows)] /\ recorded \in [StoreRuns -> Seq(StepRecords)]
      /\ StepsSorted(rows) /\ StepsListed(steps, rows)
  BY <1>1 DEF RecordTypes, HistoryFits
<1>4. PICK at \in 0..Len(rows) :
         /\ \A j \in 1..at : rows[j].index <= row.index
         /\ \A j \in (at + 1)..Len(rows) :
               row.index < rows[j].index \/ (backend = "memory" /\ row.index = rows[j].index)
         /\ stepRows' = [stepRows EXCEPT ![r] = InsertAt(rows, at + 1, row)]
  BY <1>1, Zenon DEF UpsertStep
<1> DEFINE more == InsertAt(rows, at + 1, row)
<1>5. HasOneMore(StepRows, rows, at, row, more)
  BY <1>2, <1>3, InsertedIs, Zenon
<1>6. /\ more \in Seq(StepRows) /\ Len(more) = Len(rows) + 1
      /\ \A j \in 1..at : more[j] = rows[j]
      /\ more[at + 1] = row
      /\ \A j \in (at + 1)..Len(rows) : more[j + 1] = rows[j]
  BY <1>5, Zenon DEF HasOneMore
<1>7. stepRows' = [stepRows EXCEPT ![r] = more] /\ recorded' = [recorded EXCEPT ![r] = grown]
  BY <1>1, <1>4
<1>8. /\ grown \in Seq(StepRecords) /\ Len(grown) = Len(steps) + 1 /\ Len(steps) \in Nat
      /\ \A j \in 1..Len(steps) : grown[j] = steps[j]
      /\ grown[Len(steps) + 1] = p
  BY <1>1, <1>3, AppendedStep
<1>9. StepsSorted(more)
  <2>1. \A j \in 1..Len(rows) : rows[j].index \in Nat
    BY <1>3, IndexesAre
  <2>2. \A j \in (at + 1)..Len(rows) : row.index <= rows[j].index
    BY <1>2, <1>4, <2>1 DEF StepRows
  <2> QED  BY <1>2, <1>3, <1>4, <2>2, SortedWithOneMore
<1> HIDE DEF more
<1>10. \A k \in DOMAIN rows : \E i \in DOMAIN more : more[i] = rows[k]
  <2>0. DOMAIN rows = 1..Len(rows)
    BY <1>3
  <2> SUFFICES ASSUME NEW k \in 1..Len(rows) PROVE \E i \in DOMAIN more : more[i] = rows[k]
    BY <2>0
  <2>1. DOMAIN more = 1..(Len(rows) + 1) /\ Len(rows) \in Nat /\ at \in Nat
    BY <1>3, <1>6
  <2>2. CASE k <= at
    BY <1>6, <2>1, <2>2
  <2>3. CASE k > at
    BY <1>6, <2>1, <2>3
  <2> QED  BY <2>1, <2>2, <2>3
<1>11. at + 1 \in DOMAIN more
  BY <1>3, <1>6
<1>12. StepsListed(grown, more)
  <2>1. Len(more) = Len(grown)
    BY <1>3, <1>6, <1>8 DEF StepsListed
  <2>2. ASSUME NEW j \in DOMAIN grown PROVE \E k \in DOMAIN more : more[k] = toRunStepRecord(grown[j])
    <3>1. CASE j = Len(steps) + 1
      BY <1>1, <1>6, <1>8, <1>11, <3>1
    <3>2. CASE j # Len(steps) + 1
      <4>1. j \in DOMAIN steps /\ grown[j] = steps[j]
        BY <1>3, <1>8, <3>2
      <4>2. PICK k \in DOMAIN rows : rows[k] = toRunStepRecord(steps[j])
        BY <1>3, <4>1 DEF StepsListed
      <4> QED  BY <1>10, <4>1, <4>2
    <3> QED  BY <3>1, <3>2
  <2> QED  BY <2>1, <2>2 DEF StepsListed
<1>13. ASSUME NEW x \in StoreRuns, ApprovalListed(x) PROVE ApprovalListed(x)'
  <2>1. CASE x = r
    <3>1. PICK k \in DOMAIN rows : rows[k].approval.there
      BY <1>1, <1>13, <2>1 DEF ApprovalListed
    <3>2. PICK i \in DOMAIN more : more[i] = rows[k]
      BY <1>10, <3>1
    <3>3. stepRows'[x] = more
      BY <1>3, <1>7, <2>1
    <3> QED  BY <3>1, <3>2, <3>3 DEF ApprovalListed
  <2>2. CASE x # r
    BY <1>3, <1>7, <1>13, <2>2 DEF ApprovalListed
  <2> QED  BY <2>1, <2>2
<1>14. p.approval.there => ApprovalListed(r)'
  <2>1. stepRows'[r] = more
    BY <1>3, <1>7
  <2> QED  BY <1>2, <1>6, <1>11, <2>1 DEF ApprovalListed
<1>15. ASSUME NEW x \in StoreRuns
       PROVE  StepsSorted(stepRows'[x]) /\ StepsListed(recorded'[x], stepRows'[x])
  <2>1. CASE x = r
    <3>1. stepRows'[x] = more /\ recorded'[x] = grown
      BY <1>3, <1>7, <2>1
    <3> QED  BY <1>9, <1>12, <3>1
  <2>2. CASE x # r
    <3>1. stepRows'[x] = stepRows[x] /\ recorded'[x] = recorded[x]
      BY <1>3, <1>7, <2>2
    <3> QED  BY <3>1 DEF HistoryFits
  <2> QED  BY <2>1, <2>2
<1>16. HistoryFits'
  BY <1>13, <1>15 DEF HistoryFits
<1> QED  BY <1>3, <1>6, <1>7, <1>8, <1>13, <1>14, <1>16

-----------------------------------------------------------------------------
\* What a request has in hand.
LEMMA TurnInHand ==
    ASSUME StoreInv, NEW q \in StoreRequests, doing[q] # "idle"
    PROVE  /\ turn[q] \in Turns /\ TurnOK(doing[q], turn[q])
           /\ turn[q].run \in StoreRuns /\ turn[q].state \in States
           /\ turn[q].state.conv \in Conversations /\ turn[q].state.text \in Texts
<1>1. TurnOK(doing[q], turn[q])
  BY DEF StoreInv, TurnsFit
<1>2. turn[q] \in Turns
  BY <1>1 DEF TurnOK
<1>3. turn[q].run \in StoreRuns /\ turn[q].state \in States
  BY <1>2 DEF Turns
<1> QED  BY <1>1, <1>2, <1>3 DEF States

\* Runs and their steps as they are, a request goes on.
LEMMA RunsStay ==
    ASSUME StoreInv, NEW q \in StoreRequests, NEW at \in StoreStages, NEW t, GoesOn(q, at, t),
           runRows' = runRows, lastSaved' = lastSaved, stepRows' = stepRows, recorded' = recorded,
           at = "idle" => t = NoTurn, at # "idle" => TurnOK(at, t)
    PROVE  /\ RunsFit' /\ TurnsFit' /\ HistoryFits'
           /\ doing' \in [StoreRequests -> StoreStages]
           /\ turn' \in [StoreRequests -> Turns \cup {NoTurn}]
<1>1. RunsFit'
  BY DEF StoreInv, RunsFit
<1>2. \A r \in StoreRuns : ApprovalListed(r)' <=> ApprovalListed(r)
  BY DEF ApprovalListed
<1>3. HistoryFits'
  BY <1>2 DEF StoreInv, HistoryFits
<1>4. at # "idle" => TurnOK(at, t)'
  BY <1>2 DEF TurnOK, Turns, ApprovalListed
<1>5. RecordTypes /\ TurnsFit
  BY DEF StoreInv
<1> QED  BY <1>1, <1>2, <1>3, <1>4, <1>5, OneMovesOn

\* A request goes on, and nothing is written.
LEMMA OnlyMoves ==
    ASSUME StoreInv, NEW q \in StoreRequests, NEW at \in StoreStages, NEW t, GoesOn(q, at, t),
           at = "idle" => t = NoTurn, at # "idle" => TurnOK(at, t),
           at \notin {"usage", "rollup"}, doing[q] # "rollup",
           backend' = backend, UNCHANGED storeRows, UNCHANGED storeHistory
    PROVE  StoreInv'
<1>1. /\ runRows' = runRows /\ lastSaved' = lastSaved /\ stepRows' = stepRows /\ recorded' = recorded
      /\ usageRows' = usageRows /\ rollups' = rollups /\ lostRollups' = lostRollups
      /\ msgRows' = msgRows
  BY DEF storeRows, storeHistory
<1>2. /\ RunsFit' /\ TurnsFit' /\ HistoryFits'
      /\ doing' \in [StoreRequests -> StoreStages]
      /\ turn' \in [StoreRequests -> Turns \cup {NoTurn}]
  BY <1>1, RunsStay
<1>3. UsageFits'
  BY <1>1, UsageStays DEF StoreInv
<1>4. RecordTypes'
  BY <1>1, <1>2 DEF StoreInv, RecordTypes
<1> QED  BY <1>2, <1>3, <1>4 DEF StoreInv

\* A request goes on and saves a state.
LEMMA OnlySaves ==
    ASSUME StoreInv, NEW q \in StoreRequests, NEW at \in StoreStages, NEW t, GoesOn(q, at, t),
           at = "idle" => t = NoTurn, at # "idle" => TurnOK(at, t),
           at \notin {"usage", "rollup"}, doing[q] # "rollup",
           NEW r \in StoreRuns, NEW s \in States, UpsertRun(r, s),
           s.status = "paused" => ApprovalListed(r), backend' = backend,
           UNCHANGED <<stepRows, msgRows, usageRows, rollups, recorded, lostRollups>>
    PROVE  StoreInv'
<1>1. lastSaved' \in [StoreRuns -> States \cup {NoState}] /\ RunsFit' /\ HistoryFits'
  BY RunIsSaved DEF StoreInv
<1>2. \A x \in StoreRuns : ApprovalListed(x)' <=> ApprovalListed(x)
  BY DEF ApprovalListed
<1>3. at # "idle" => TurnOK(at, t)'
  BY <1>2 DEF TurnOK, Turns, ApprovalListed
<1>4. /\ TurnsFit' /\ doing' \in [StoreRequests -> StoreStages]
      /\ turn' \in [StoreRequests -> Turns \cup {NoTurn}]
  BY <1>2, <1>3, OneMovesOn DEF StoreInv
<1>5. UsageFits'
  BY UsageStays DEF StoreInv
<1>6. RecordTypes'
  BY <1>1, <1>4 DEF StoreInv, RecordTypes
<1> QED  BY <1>1, <1>4, <1>5, <1>6 DEF StoreInv

-----------------------------------------------------------------------------
\* One lemma per action.
LEMMA StartsRun ==
    ASSUME StoreInv, NEW q \in StoreRequests, NEW r \in StoreRuns, NEW c \in Conversations,
           NEW text \in StoreTexts, StartRun(q, r, c, text)
    PROVE  StoreInv'
<1>1. PICK s, t : /\ s = [conv |-> c, status |-> "received", index |-> 0, approval |-> FALSE,
                          text |-> text, result |-> "plain"]
                  /\ t = [run |-> r, state |-> s, role |-> "user", fresh |-> "working"]
  OBVIOUS
<1>2. s \in States /\ s.status = "received"
  BY <1>1, StoreAssumption DEF States, RunStatuses, Texts
<1>3. TurnOK("message", t)
  BY <1>1, <1>2 DEF TurnOK, Turns, Pausing
<1>4. /\ UpsertRun(r, s) /\ GoesOn(q, "message", t) /\ doing[q] = "idle" /\ backend' = backend
      /\ UNCHANGED <<stepRows, msgRows, usageRows, rollups, recorded, lostRollups>>
  BY <1>1 DEF StartRun, Works, Same
<1>5. "message" \in StoreStages
  BY DEF StoreStages
<1> QED  BY <1>2, <1>3, <1>4, <1>5, OnlySaves

\* What is read of a run is the state that was saved, redacted.
LEMMA ReadBack ==
    ASSUME StoreInv, NEW r \in StoreRuns, runRows[r] # NoState
    PROVE  /\ lastSaved[r] \in States /\ GetRun(r) = sanitizeRunState(lastSaved[r])
           /\ GetRun(r) \in States /\ GetRun(r).status = lastSaved[r].status
           /\ GetRun(r).text \in Kept /\ GetRun(r).result \in Kept
           /\ GetRun(r).status = "paused" => ApprovalListed(r)
<1>1. lastSaved[r] \in States \cup {NoState}
  BY DEF StoreInv, RecordTypes
<1>2. lastSaved[r] \in States /\ runRows[r] = toRunRecord(lastSaved[r]) /\ lastSaved[r] # NoState
  BY <1>1 DEF StoreInv, RunsFit
<1>3. GetRun(r) = sanitizeRunState(lastSaved[r])
  BY <1>2, StateIs DEF GetRun
<1>4. /\ GetRun(r) \in States /\ GetRun(r).status = lastSaved[r].status
      /\ GetRun(r).text \in Kept /\ GetRun(r).result \in Kept
  BY <1>2, <1>3, StateIs
<1> QED  BY <1>2, <1>3, <1>4 DEF StoreInv, HistoryFits

\* A run that is taken up again, or cancelled, is in hand as it was saved.
LEMMA ResumesPaused ==
    ASSUME StoreInv, NEW q \in StoreRequests, NEW r \in StoreRuns,
           ResumePaused(q, r) \/ CancelStored(q, r)
    PROVE  StoreInv'
<1>1. runRows[r] # NoState
  <2>1. CASE ResumePaused(q, r)
    <3>1. runRows[r].status \in {"paused"}
      BY <2>1 DEF ResumePaused, ListRunsByStatus
    <3> QED  BY <3>1 DEF NoState
  <2>2. CASE CancelStored(q, r)
    BY <2>2 DEF CancelStored
  <2> QED  BY <2>1, <2>2
<1>2. PICK who, fresh, t : /\ t = [run |-> r, state |-> GetRun(r), role |-> who, fresh |-> fresh]
                            /\ GoesOn(q, "step", t)
                            /\ \/ who = "assistant" /\ fresh = "working"
                               \/ who = "none" /\ fresh = "cancelled"
  <2>1. CASE ResumePaused(q, r)
    BY <2>1 DEF ResumePaused
  <2>2. CASE CancelStored(q, r)
    BY <2>2 DEF CancelStored
  <2> QED  BY <2>1, <2>2
<1>3. TurnOK("step", t)
  <2>1. t \in Turns /\ t.run = r /\ t.state.status = GetRun(r).status
    BY <1>1, <1>2, ReadBack DEF Turns
  <2>2. Pausing("step", t) => ApprovalListed(r)
    BY <1>1, <2>1, ReadBack DEF Pausing
  <2> QED  BY <1>2, <2>1, <2>2 DEF TurnOK
<1>4. /\ doing[q] = "idle" /\ backend' = backend /\ UNCHANGED storeRows /\ UNCHANGED storeHistory
  BY DEF ResumePaused, CancelStored, Works, Same
<1>5. "step" \in StoreStages
  BY DEF StoreStages
<1> QED  BY <1>2, <1>3, <1>4, <1>5, OnlyMoves

\* A failure that is to be recorded.
LEMMA FailedTurn ==
    ASSUME NEW at, NEW t, TurnOK(at, t), t.role # "user", t.role # "none"
    PROVE  TurnOK("step", [t EXCEPT !.fresh = "failed"])
<1>1. PICK f : f = [t EXCEPT !.fresh = "failed"]
  OBVIOUS
<1>2. t \in Turns
  BY DEF TurnOK
<1>3. /\ f \in Turns /\ f.run = t.run /\ f.state = t.state /\ f.role = t.role /\ f.fresh = "failed"
  BY <1>1, <1>2 DEF Turns
<1>4. TurnOK("step", f)
  BY <1>3 DEF TurnOK, Pausing
<1> QED  BY <1>1, <1>4

\* A message or usage that cannot be written ends the turn or fails the run.
LEMMA MessageIsRefused ==
    ASSUME StoreInv, NEW q \in StoreRequests, MessageFails(q)
    PROVE  StoreInv'
<1>1. /\ doing[q] \in {"message", "usage"} /\ backend' = backend /\ UNCHANGED storeRows
      /\ UNCHANGED storeHistory
  BY DEF MessageFails
<1>2. PICK t : t = turn[q]
  OBVIOUS
<1>3. TurnOK(doing[q], t) /\ t \in Turns
  BY <1>1, <1>2, TurnInHand
<1>4. t.role # "none"
  BY <1>1, <1>3 DEF TurnOK
<1>5. "step" \in StoreStages /\ "idle" \in StoreStages
  BY DEF StoreStages
<1>6. CASE t.role = "user"
  <2>1. GoesOn(q, "idle", NoTurn)
    BY <1>2, <1>6 DEF MessageFails, Turn, Leaves
  <2> QED  BY <1>1, <1>5, <2>1, OnlyMoves
<1>7. CASE t.role # "user"
  <2>1. PICK f : f = [t EXCEPT !.fresh = "failed"]
    OBVIOUS
  <2>2. GoesOn(q, "step", f)
    BY <1>2, <1>7, <2>1 DEF MessageFails, Turn, FailsRun
  <2>3. TurnOK("step", f)
    BY <1>3, <1>4, <1>7, <2>1, FailedTurn
  <2> QED  BY <1>1, <1>5, <2>2, <2>3, OnlyMoves
<1> QED  BY <1>6, <1>7

\* The state a step is recorded with.
LEMMA SteppedIs ==
    ASSUME StoreInv, NEW q \in StoreRequests, doing[q] = "step"
    PROVE  /\ Stepped(q) \in Turns /\ Stepped(q).run = turn[q].run
           /\ Stepped(q).role = turn[q].role /\ Stepped(q).fresh = turn[q].fresh
           /\ Stepped(q).state.status = turn[q].state.status
<1>1. PICK t : t = turn[q]
  OBVIOUS
<1>2. PICK i, a : i = t.state.index + 1 /\ a = (t.state.approval \/ t.fresh = "paused")
  OBVIOUS
<1>3. t \in Turns /\ t.state \in States
  BY <1>1, TurnInHand
<1>4. i \in Nat /\ a \in BOOLEAN
  BY <1>2, <1>3 DEF States
<1>5. Stepped(q) = [t EXCEPT !.state.index = i, !.state.approval = a]
  BY <1>1, <1>2 DEF Stepped, Turn
<1>6. PICK s : s = [t.state EXCEPT !.index = i, !.approval = a]
  OBVIOUS
<1>7. s \in States /\ s.status = t.state.status
  BY <1>3, <1>4, <1>6 DEF States
<1>8. Stepped(q) = [t EXCEPT !.state = s]
  BY <1>3, <1>5, <1>6 DEF Turns, States
<1> QED  BY <1>1, <1>3, <1>7, <1>8 DEF Turns

\* A step or state that cannot be written fails the run, or ends the turn.
LEMMA RecordingFails ==
    ASSUME StoreInv, NEW q \in StoreRequests, RecordStepFails(q)
    PROVE  StoreInv'
<1>1. /\ doing[q] \in {"step", "save"} /\ backend' = backend /\ UNCHANGED storeRows
      /\ UNCHANGED storeHistory
  BY DEF RecordStepFails
<1>2. PICK t : t = IF doing[q] = "step" THEN Stepped(q) ELSE turn[q]
  OBVIOUS
<1>3. "step" \in StoreStages /\ "idle" \in StoreStages
  BY DEF StoreStages
<1>4. CASE turn[q].fresh \in {"failed", "cancelled"}
  <2>1. GoesOn(q, "idle", NoTurn)
    BY <1>4 DEF RecordStepFails, Turn, Leaves
  <2> QED  BY <1>1, <1>3, <2>1, OnlyMoves
<1>5. CASE turn[q].fresh \notin {"failed", "cancelled"}
  <2>1. PICK f : f = [t EXCEPT !.fresh = "failed"]
    OBVIOUS
  <2>2. GoesOn(q, "step", f)
    BY <1>2, <1>5, <2>1 DEF RecordStepFails, Turn
  <2>3. /\ TurnOK(doing[q], turn[q]) /\ turn[q] \in Turns
    BY <1>1, TurnInHand
  <2>4. /\ t \in Turns /\ t.run = turn[q].run /\ t.role = turn[q].role
        /\ t.state.status = turn[q].state.status
    BY <1>1, <1>2, <2>3, SteppedIs
  <2>5. /\ f \in Turns /\ f.run = t.run /\ f.state = t.state /\ f.role = t.role /\ f.fresh = "failed"
    BY <2>1, <2>4 DEF Turns
  <2>6. t.role # "user" /\ t.role # "none"
    BY <1>1, <1>5, <2>3, <2>4 DEF TurnOK
  <2>7. TurnOK("step", f)
    BY <1>1, <2>3, <2>4, <2>5, <2>6 DEF TurnOK, Pausing
  <2> QED  BY <1>1, <1>3, <2>2, <2>7, OnlyMoves
<1> QED  BY <1>4, <1>5

\* The state a step was recorded with is saved.
LEMMA SavesState ==
    ASSUME StoreInv, NEW q \in StoreRequests, SaveState(q)
    PROVE  StoreInv'
<1>1. PICK r, s, t : t = turn[q] /\ r = t.run /\ s = t.state
  OBVIOUS
<1>2. /\ doing[q] = "save" /\ backend' = backend /\ UpsertRun(r, s) /\ GoesOn(q, "transition", t)
      /\ UNCHANGED <<stepRows, msgRows, usageRows, rollups, recorded, lostRollups>>
  BY <1>1 DEF SaveState, Works, Same, Turn
<1>3. /\ TurnOK("save", t) /\ r \in StoreRuns /\ s \in States
  BY <1>1, <1>2, TurnInHand
<1>4. TurnOK("transition", t) /\ (s.status = "paused" => ApprovalListed(r))
  BY <1>1, <1>3 DEF TurnOK, Pausing
<1>5. "transition" \in StoreStages
  BY DEF StoreStages
<1> QED  BY <1>2, <1>3, <1>4, <1>5, OnlySaves

\* The state is saved in its new status, or not at all.
LEMMA MovesToStatus ==
    ASSUME StoreInv, NEW q \in StoreRequests, NEW next \in {"working", "paused", "completed"},
           NEW result \in StoreTexts, Transition(q, next, result)
    PROVE  StoreInv'
<1>1. PICK t : t = turn[q]
  OBVIOUS
<1>2. PICK s : s = [t.state EXCEPT !.status = t.fresh,
                             !.result = IF t.fresh = "working" THEN result ELSE t.state.result,
                             !.approval = t.state.approval /\ t.fresh # "working"]
  OBVIOUS
<1>3. /\ doing[q] = "transition" /\ backend' = backend
      /\ UNCHANGED <<stepRows, msgRows, usageRows, rollups, recorded, lostRollups>>
  BY DEF Transition, Works
<1>4. /\ TurnOK("transition", t) /\ t \in Turns /\ t.run \in StoreRuns /\ t.state \in States
      /\ t.role # "user"
  BY <1>1, <1>3, TurnInHand DEF TurnOK
<1>5. s \in States /\ s.status = t.fresh
  <2>1. PICK a, b : /\ a = (IF t.fresh = "working" THEN result ELSE t.state.result)
                    /\ b = (t.state.approval /\ t.fresh # "working")
    OBVIOUS
  <2>2. s = [t.state EXCEPT !.status = t.fresh, !.result = a, !.approval = b]
    BY <1>2, <2>1
  <2>3. a \in Texts
    BY <1>4, <2>1, StoreAssumption DEF States, Texts
  <2>4. b \in BOOLEAN
    BY <1>4, <2>1 DEF States
  <2>5. t.fresh \in RunStatuses
    BY <1>4 DEF Turns, RunStatuses, Terminal
  <2> QED  BY <1>4, <2>2, <2>3, <2>4, <2>5 DEF States
<1>6. s.status = "paused" => ApprovalListed(t.run)
  BY <1>4, <1>5 DEF TurnOK, Pausing
<1>7. PICK r : r = t.run
  OBVIOUS
<1>8. \/ UpsertRun(r, s)
      \/ runRows' = runRows /\ savedOrder' = savedOrder /\ lastSaved' = lastSaved
  BY <1>1, <1>2, <1>7 DEF Transition, Turn
<1>9. PICK at, u : /\ GoesOn(q, at, u) /\ at \in StoreStages /\ at \notin {"usage", "rollup"}
                   /\ (at = "idle" => u = NoTurn) /\ (at # "idle" => TurnOK(at, u))
  <2>1. CASE t.fresh = "working"
    <3>1. PICK at, u : /\ u = [t EXCEPT !.state = s, !.fresh = next] /\ GoesOn(q, at, u)
                       /\ at = IF next = "completed" THEN "message" ELSE "step"
      BY <1>1, <1>2, <2>1 DEF Transition, Turn
    <3>2. u \in Turns /\ u.state = s /\ u.role = t.role /\ u.fresh = next
      BY <1>4, <1>5, <3>1 DEF Turns
    <3>3. t.role # "none"
      BY <1>4, <2>1 DEF TurnOK
    <3>4. TurnOK(at, u)
      BY <1>4, <1>5, <2>1, <3>1, <3>2, <3>3 DEF TurnOK, Pausing
    <3> QED  BY <3>1, <3>4 DEF StoreStages
  <2>2. CASE t.fresh = "paused"
    <3>1. PICK u : u = [t EXCEPT !.state = s] /\ GoesOn(q, "message", u)
      BY <1>1, <1>2, <2>2 DEF Transition, Turn
    <3>2. u \in Turns /\ u.run = t.run /\ u.state = s /\ u.role = t.role /\ u.fresh = t.fresh
      BY <1>4, <1>5, <3>1 DEF Turns
    <3>3. t.role # "none"
      BY <1>4, <2>2 DEF TurnOK
    <3>4. TurnOK("message", u)
      BY <1>4, <1>5, <1>6, <2>2, <3>2, <3>3 DEF TurnOK, Pausing
    <3> QED  BY <3>1, <3>4 DEF StoreStages
  <2>3. CASE t.fresh # "working" /\ t.fresh # "paused"
    <3>1. GoesOn(q, "idle", NoTurn)
      BY <1>1, <2>3 DEF Transition, Turn, Leaves
    <3> QED  BY <3>1 DEF StoreStages
  <2> QED  BY <2>1, <2>2, <2>3
<1>10. CASE UpsertRun(r, s)
  BY <1>3, <1>4, <1>5, <1>6, <1>7, <1>9, <1>10, OnlySaves
<1>11. CASE runRows' = runRows /\ savedOrder' = savedOrder /\ lastSaved' = lastSaved
  <2>1. UNCHANGED storeRows /\ UNCHANGED storeHistory
    BY <1>3, <1>11 DEF storeRows, storeHistory
  <2> QED  BY <1>3, <1>9, <2>1, OnlyMoves
<1> QED  BY <1>8, <1>10, <1>11

\* A step is recorded before the state that goes with it.
LEMMA RecordsStep ==
    ASSUME StoreInv, NEW q \in StoreRequests, NEW summary \in StoreTexts,
           SaveStep(q, "plain", [there |-> TRUE, summary |-> summary])
    PROVE  StoreInv'
<1>1. summary \in Texts /\ SaveStep(q, "plain", [there |-> TRUE, summary |-> summary])
  BY StoreAssumption DEF Texts
<1>2. PICK t : t = Stepped(q)
  OBVIOUS
<1>3. PICK p : p = [route |-> "tool", index |-> t.state.index, text |-> "plain",
                    result |-> t.state.result,
                    approval |-> IF t.fresh = "paused" THEN [there |-> TRUE, summary |-> summary]
                                 ELSE NoApproval]
  OBVIOUS
<1>4. /\ doing[q] = "step" /\ backend' = backend
      /\ runRows' = runRows /\ msgRows' = msgRows /\ usageRows' = usageRows /\ rollups' = rollups
      /\ lastSaved' = lastSaved /\ lostRollups' = lostRollups
  BY <1>1 DEF SaveStep, Works, Same
<1>5. /\ TurnOK("step", turn[q]) /\ t \in Turns /\ t.run = turn[q].run /\ t.role = turn[q].role
      /\ t.fresh = turn[q].fresh /\ t.state.status = turn[q].state.status
  BY <1>2, <1>4, TurnInHand, SteppedIs
<1>6. PICK r : r = t.run
  OBVIOUS
<1>7. /\ UpsertStep(r, toRunStepRecord(p))
      /\ recorded' = [recorded EXCEPT ![r] = Append(@, p)]
      /\ GoesOn(q, "save", t)
  BY <1>1, <1>2, <1>3, <1>6 DEF SaveStep
<1>8. r \in StoreRuns /\ t.state \in States
  BY <1>5, <1>6 DEF Turns
<1>9. p \in StepRecords /\ (p.approval.there <=> t.fresh = "paused")
  <2>1. t.state.index \in Nat /\ t.state.result \in Texts /\ "plain" \in Texts
    BY <1>8 DEF States, Texts
  <2>2. CASE t.fresh = "paused"
    <3>1. p.approval = [there |-> TRUE, summary |-> summary] /\ p.approval \in ApprovalsKept
      BY <1>1, <1>3, <2>2 DEF ApprovalsKept
    <3> QED  BY <1>3, <2>1, <2>2, <3>1 DEF StepRecords
  <2>3. CASE t.fresh # "paused"
    <3>1. p.approval = [there |-> FALSE] /\ p.approval \in ApprovalsKept
      BY <1>3, <2>3 DEF ApprovalsKept, NoApproval
    <3> QED  BY <1>3, <2>1, <2>3, <3>1 DEF StepRecords
  <2> QED  BY <2>2, <2>3
<1>10. RecordTypes /\ RunsFit /\ TurnsFit /\ HistoryFits /\ UsageFits
  BY DEF StoreInv
<1>11. /\ stepRows' \in [StoreRuns -> Seq(StepRows)] /\ recorded' \in [StoreRuns -> Seq(StepRecords)]
       /\ HistoryFits' /\ \A x \in StoreRuns : ApprovalListed(x) => ApprovalListed(x)'
       /\ p.approval.there => ApprovalListed(r)'
  BY <1>4, <1>7, <1>8, <1>9, <1>10, StepIsSaved
<1>12. TurnOK("save", t)'
  <2>1. t.role # "user" /\ (t.role = "none" => t.fresh = "cancelled")
    BY <1>5 DEF TurnOK
  <2>2. Pausing("save", t) => ApprovalListed(r)'
    BY <1>5, <1>6, <1>8, <1>9, <1>11 DEF TurnOK, Pausing
  <2>3. Pausing("save", t)' <=> Pausing("save", t)
    BY DEF Pausing
  <2> QED  BY <1>5, <1>6, <2>1, <2>2, <2>3 DEF TurnOK
<1>13. /\ TurnsFit' /\ doing' \in [StoreRequests -> StoreStages]
       /\ turn' \in [StoreRequests -> Turns \cup {NoTurn}]
  BY <1>7, <1>10, <1>11, <1>12, OneMovesOn DEF StoreStages
<1>14. UsageFits'
  BY <1>4, <1>7, <1>10, UsageStays
<1>15. RunsFit'
  BY <1>4, <1>10 DEF RunsFit
<1>16. RecordTypes'
  BY <1>4, <1>10, <1>11, <1>13 DEF RecordTypes
<1> QED  BY <1>11, <1>13, <1>14, <1>15, <1>16 DEF StoreInv

\* A message comes before the usage that is counted of it.
LEMMA CreatesMessage ==
    ASSUME StoreInv, NEW q \in StoreRequests, CreateMessage(q)
    PROVE  StoreInv'
<1>1. PICK t, who, c, text : /\ t = turn[q] /\ who = t.role /\ c = t.state.conv
                              /\ text = RedactString(t.state.text)
  OBVIOUS
<1>2. /\ doing[q] = "message" /\ backend' = backend
      /\ msgRows' = [msgRows EXCEPT ![c][who] = Append(@, text)]
      /\ runRows' = runRows /\ stepRows' = stepRows /\ usageRows' = usageRows /\ rollups' = rollups
      /\ lastSaved' = lastSaved /\ recorded' = recorded /\ lostRollups' = lostRollups
  BY <1>1 DEF CreateMessage, Works, Same, Turn, storeHistory
<1>3. /\ TurnOK("message", t) /\ t \in Turns /\ c \in Conversations /\ text \in Kept
  BY <1>1, <1>2, TurnInHand, Redacted
<1>4. who \in {"user", "assistant"}
  BY <1>1, <1>3 DEF TurnOK, Turns
<1>5. RecordTypes /\ UsageFits
  BY DEF StoreInv
<1>6. PICK at, u : /\ GoesOn(q, at, u) /\ u.state = t.state /\ TurnOK(at, u)
                   /\ \/ who = "user" /\ at = "step"
                      \/ who = "assistant" /\ at = "usage"
  <2>1. CASE who = "user"
    <3>1. PICK u : u = [t EXCEPT !.role = "assistant"] /\ GoesOn(q, "step", u)
      BY <1>1, <2>1 DEF CreateMessage, Turn
    <3>2. /\ u \in Turns /\ u.run = t.run /\ u.state = t.state /\ u.role = "assistant"
          /\ u.fresh = t.fresh
      BY <1>3, <3>1 DEF Turns
    <3>3. TurnOK("step", u)
      BY <1>3, <3>2 DEF TurnOK, Pausing
    <3> QED  BY <2>1, <3>1, <3>2, <3>3
  <2>2. CASE who = "assistant"
    <3>1. GoesOn(q, "usage", t)
      BY <1>1, <2>2 DEF CreateMessage, Turn
    <3>2. TurnOK("usage", t)
      BY <1>1, <1>3, <2>2 DEF TurnOK, Pausing
    <3> QED  BY <2>2, <3>1, <3>2
  <2> QED  BY <1>4, <2>1, <2>2
<1>7. at \in StoreStages /\ at # "idle" /\ at # "rollup"
  BY <1>6 DEF StoreStages
<1>8. /\ RunsFit' /\ TurnsFit' /\ HistoryFits'
      /\ doing' \in [StoreRequests -> StoreStages]
      /\ turn' \in [StoreRequests -> Turns \cup {NoTurn}]
  BY <1>2, <1>6, <1>7, RunsStay
<1>9. PICK of, grown : of = msgRows[c] /\ grown = Append(of[who], text)
  OBVIOUS
<1>10. /\ msgRows \in [Conversations -> [{"user", "assistant"} -> Seq(Kept)]]
       /\ of \in [{"user", "assistant"} -> Seq(Kept)] /\ of[who] \in Seq(Kept)
  BY <1>3, <1>4, <1>5, <1>9 DEF RecordTypes
<1>11. grown \in Seq(Kept) /\ Len(grown) = Len(of[who]) + 1 /\ Len(of[who]) \in Nat
  BY <1>3, <1>9, <1>10, AppendedStep
<1>12. msgRows' = [msgRows EXCEPT ![c] = [of EXCEPT ![who] = grown]]
  BY <1>2, <1>9
<1>13. msgRows' \in [Conversations -> [{"user", "assistant"} -> Seq(Kept)]]
  BY <1>10, <1>11, <1>12
<1>14. ASSUME NEW d \in Conversations
       PROVE  /\ d = c /\ who = "assistant" =>
                    Len(msgRows'[d]["assistant"]) = Len(msgRows[d]["assistant"]) + 1
              /\ ~(d = c /\ who = "assistant") =>
                    Len(msgRows'[d]["assistant"]) = Len(msgRows[d]["assistant"])
  <2>1. Len(msgRows[d]["assistant"]) \in Nat
    BY <1>10
  <2>2. CASE d = c /\ who = "assistant"
    <3>1. msgRows'[d] = [of EXCEPT ![who] = grown]
      BY <1>10, <1>12, <2>2
    <3>2. msgRows'[d]["assistant"] = grown
      BY <1>10, <2>2, <3>1
    <3> QED  BY <1>9, <1>11, <2>2, <3>2
  <2>3. CASE d # c \/ who # "assistant"
    <3>1. msgRows'[d]["assistant"] = msgRows[d]["assistant"]
      BY <1>9, <1>10, <1>12, <2>3
    <3> QED  BY <2>1, <2>3, <3>1
  <2> QED  BY <2>2, <2>3
<1>15. UsageFits'
  <2> SUFFICES ASSUME NEW d \in Conversations
      PROVE  /\ rollups[d] + lostRollups[d] + Cardinality(HoldersAt("rollup", d))' = usageRows[d]
             /\ usageRows[d] + Cardinality(HoldersAt("usage", d))' <= Len(msgRows'[d]["assistant"])
    BY <1>2 DEF UsageFits
  <2>1. /\ ~IsAtWork(q, "rollup", d) /\ ~IsAtWork(q, "rollup", d)' /\ ~IsAtWork(q, "usage", d)
        /\ IsAtWork(q, "usage", d)' <=> at = "usage" /\ d = c
    BY <1>1, <1>2, <1>5, <1>6, <1>7 DEF IsAtWork, GoesOn, RecordTypes
  <2>2. PICK a, b, e, f : /\ a = Cardinality(HoldersAt("rollup", d)) /\ b = Cardinality(HoldersAt("rollup", d))'
                          /\ e = Cardinality(HoldersAt("usage", d)) /\ f = Cardinality(HoldersAt("usage", d))'
    OBVIOUS
  <2>3. /\ a = b /\ e \in Nat
        /\ at = "usage" /\ d = c => f = e + 1
        /\ ~(at = "usage" /\ d = c) => f = e
    BY <1>5, <1>6, <2>1, <2>2, HoldersAreCounted
  <2>4. rollups[d] + lostRollups[d] + a = usageRows[d] /\ usageRows[d] + e <= Len(msgRows[d]["assistant"])
    BY <1>5, <2>2 DEF UsageFits
  <2>5. usageRows[d] \in Nat /\ Len(msgRows[d]["assistant"]) \in Nat
    BY <1>5, <1>10 DEF RecordTypes
  <2> QED  BY <1>6, <1>14, <2>2, <2>3, <2>4, <2>5
<1>16. RecordTypes'
  BY <1>2, <1>5, <1>8, <1>13 DEF RecordTypes
<1> QED  BY <1>8, <1>15, <1>16 DEF StoreInv

\* Usage is written before it is counted.
LEMMA CreatesUsage ==
    ASSUME StoreInv, NEW q \in StoreRequests, CreateUsage(q)
    PROVE  StoreInv'
<1>1. PICK t, c : t = turn[q] /\ c = t.state.conv
  OBVIOUS
<1>2. /\ doing[q] = "usage" /\ backend' = backend /\ GoesOn(q, "rollup", t)
      /\ usageRows' = [usageRows EXCEPT ![c] = @ + 1]
      /\ runRows' = runRows /\ stepRows' = stepRows /\ msgRows' = msgRows /\ rollups' = rollups
      /\ lastSaved' = lastSaved /\ recorded' = recorded /\ lostRollups' = lostRollups
  BY <1>1 DEF CreateUsage, Works, Same, Turn, storeHistory
<1>3. TurnOK("usage", t) /\ c \in Conversations
  BY <1>1, <1>2, TurnInHand
<1>4. TurnOK("rollup", t)
  BY <1>3 DEF TurnOK, Pausing
<1>5. RecordTypes /\ UsageFits
  BY DEF StoreInv
<1>6. "rollup" \in StoreStages
  BY DEF StoreStages
<1>7. /\ RunsFit' /\ TurnsFit' /\ HistoryFits'
      /\ doing' \in [StoreRequests -> StoreStages]
      /\ turn' \in [StoreRequests -> Turns \cup {NoTurn}]
  BY <1>2, <1>4, <1>6, RunsStay
<1>8. UsageFits'
  <2> SUFFICES ASSUME NEW d \in Conversations
      PROVE  /\ rollups[d] + lostRollups[d] + Cardinality(HoldersAt("rollup", d))' = usageRows'[d]
             /\ usageRows'[d] + Cardinality(HoldersAt("usage", d))' <= Len(msgRows[d]["assistant"])
    BY <1>2 DEF UsageFits
  <2>1. /\ ~IsAtWork(q, "rollup", d) /\ ~IsAtWork(q, "usage", d)'
        /\ IsAtWork(q, "rollup", d)' <=> d = c
        /\ IsAtWork(q, "usage", d) <=> d = c
    BY <1>1, <1>2, <1>5 DEF IsAtWork, GoesOn, RecordTypes
  <2>2. PICK a, b, e, f : /\ a = Cardinality(HoldersAt("rollup", d)) /\ b = Cardinality(HoldersAt("rollup", d))'
                          /\ e = Cardinality(HoldersAt("usage", d)) /\ f = Cardinality(HoldersAt("usage", d))'
    OBVIOUS
  <2>3. /\ a \in Nat /\ b \in Nat /\ e \in Nat /\ f \in Nat
        /\ d = c => b = a + 1 /\ f + 1 = e
        /\ d # c => b = a /\ f = e
    BY <1>2, <1>5, <2>1, <2>2, HoldersAreCounted
  <2>4. rollups[d] + lostRollups[d] + a = usageRows[d] /\ usageRows[d] + e <= Len(msgRows[d]["assistant"])
    BY <1>5, <2>2 DEF UsageFits
  <2>5. /\ usageRows[d] \in Nat /\ rollups[d] \in Nat /\ lostRollups[d] \in Nat
        /\ Len(msgRows[d]["assistant"]) \in Nat
        /\ d = c => usageRows'[d] = usageRows[d] + 1
        /\ d # c => usageRows'[d] = usageRows[d]
    BY <1>2, <1>5 DEF RecordTypes
  <2>6. PICK x, y, u, v, w : /\ x = rollups[d] /\ y = lostRollups[d] /\ u = usageRows[d]
                             /\ v = usageRows'[d] /\ w = Len(msgRows[d]["assistant"])
    OBVIOUS
  <2>7. /\ x \in Nat /\ y \in Nat /\ u \in Nat /\ w \in Nat /\ v \in Nat
        /\ x + y + a = u /\ u + e <= w
        /\ \/ v = u + 1 /\ b = a + 1 /\ f + 1 = e
           \/ v = u /\ b = a /\ f = e
    BY <2>3, <2>4, <2>5, <2>6
  <2>8. x + y + b = v /\ v + f <= w
    BY <2>3, <2>7
  <2> QED  BY <2>2, <2>6, <2>8, Zenon
<1>9. usageRows' \in [Conversations -> Nat]
  BY <1>2, <1>3, <1>5 DEF RecordTypes
<1>10. RecordTypes'
  BY <1>2, <1>5, <1>7, <1>9 DEF RecordTypes
<1> QED  BY <1>7, <1>8, <1>10 DEF StoreInv

\* Usage is counted, or its increment is lost.
LEMMA IncrementsRollup ==
    ASSUME StoreInv, NEW q \in StoreRequests, IncrementRollup(q)
    PROVE  StoreInv'
<1>1. PICK t, c : t = turn[q] /\ c = t.state.conv
  OBVIOUS
<1>2. /\ doing[q] = "rollup" /\ backend' = backend
      /\ \/ rollups' = [rollups EXCEPT ![c] = @ + 1] /\ lostRollups' = lostRollups
         \/ lostRollups' = [lostRollups EXCEPT ![c] = @ + 1] /\ rollups' = rollups
      /\ runRows' = runRows /\ stepRows' = stepRows /\ msgRows' = msgRows /\ usageRows' = usageRows
      /\ lastSaved' = lastSaved /\ recorded' = recorded
  BY <1>1 DEF IncrementRollup, Works, Turn
<1>3. TurnOK("rollup", t) /\ c \in Conversations
  BY <1>1, <1>2, TurnInHand
<1>4. PICK at, u : /\ GoesOn(q, at, u) /\ at \in {"idle", "step"}
                   /\ (at = "idle" => u = NoTurn) /\ (at # "idle" => TurnOK(at, u))
  <2>1. CASE t.fresh = "paused"
    BY <1>1, <2>1 DEF IncrementRollup, Leaves, Turn
  <2>2. CASE t.fresh # "paused"
    <3>1. GoesOn(q, "step", t)
      BY <1>1, <2>2 DEF IncrementRollup, Turn
    <3>2. TurnOK("step", t)
      BY <1>3 DEF TurnOK, Pausing
    <3> QED  BY <3>1, <3>2
  <2> QED  BY <2>1, <2>2
<1>5. RecordTypes /\ UsageFits
  BY DEF StoreInv
<1>6. at \in StoreStages
  BY <1>4 DEF StoreStages
<1>7. /\ RunsFit' /\ TurnsFit' /\ HistoryFits'
      /\ doing' \in [StoreRequests -> StoreStages]
      /\ turn' \in [StoreRequests -> Turns \cup {NoTurn}]
  BY <1>2, <1>4, <1>6, RunsStay
<1>8. UsageFits'
  <2> SUFFICES ASSUME NEW d \in Conversations
      PROVE  /\ rollups'[d] + lostRollups'[d] + Cardinality(HoldersAt("rollup", d))' = usageRows[d]
             /\ usageRows[d] + Cardinality(HoldersAt("usage", d))' <= Len(msgRows[d]["assistant"])
    BY <1>2 DEF UsageFits
  <2>1. /\ ~IsAtWork(q, "usage", d) /\ ~IsAtWork(q, "usage", d)' /\ ~IsAtWork(q, "rollup", d)'
        /\ IsAtWork(q, "rollup", d) <=> d = c
    BY <1>1, <1>2, <1>4, <1>5 DEF IsAtWork, GoesOn, RecordTypes
  <2>2. PICK a, b, e, f : /\ a = Cardinality(HoldersAt("rollup", d)) /\ b = Cardinality(HoldersAt("rollup", d))'
                          /\ e = Cardinality(HoldersAt("usage", d)) /\ f = Cardinality(HoldersAt("usage", d))'
    OBVIOUS
  <2>3. /\ a \in Nat /\ b \in Nat /\ e \in Nat /\ f \in Nat /\ f = e
        /\ d = c => b + 1 = a
        /\ d # c => b = a
    BY <1>4, <1>5, <2>1, <2>2, HoldersAreCounted
  <2>4. rollups[d] + lostRollups[d] + a = usageRows[d] /\ usageRows[d] + e <= Len(msgRows[d]["assistant"])
    BY <1>5, <2>2 DEF UsageFits
  <2>5. /\ rollups[d] \in Nat /\ lostRollups[d] \in Nat /\ usageRows[d] \in Nat
        /\ d = c => \/ rollups'[d] = rollups[d] + 1 /\ lostRollups'[d] = lostRollups[d]
                    \/ lostRollups'[d] = lostRollups[d] + 1 /\ rollups'[d] = rollups[d]
        /\ d # c => rollups'[d] = rollups[d] /\ lostRollups'[d] = lostRollups[d]
    BY <1>2, <1>5 DEF RecordTypes
  <2>6. PICK x, y, m, n, w, z : /\ x = rollups[d] /\ y = lostRollups[d] /\ m = rollups'[d]
                                /\ n = lostRollups'[d] /\ w = usageRows[d]
                                /\ z = Len(msgRows[d]["assistant"])
    OBVIOUS
  <2>7. /\ x \in Nat /\ y \in Nat /\ m \in Nat /\ w \in Nat /\ n \in Nat
        /\ x + y + a = w /\ w + e <= z
        /\ \/ m = x + 1 /\ n = y /\ b + 1 = a
           \/ m = x /\ n = y + 1 /\ b + 1 = a
           \/ m = x /\ n = y /\ b = a
    BY <2>3, <2>4, <2>5, <2>6
  <2>8. m + n + b = w /\ w + f <= z
    BY <2>3, <2>7
  <2> QED  BY <2>2, <2>6, <2>8, Zenon
<1>9. rollups' \in [Conversations -> Nat] /\ lostRollups' \in [Conversations -> Nat]
  <2>1. rollups \in [Conversations -> Nat] /\ lostRollups \in [Conversations -> Nat]
    BY <1>5 DEF RecordTypes
  <2> QED  BY <1>2, <1>3, <2>1
<1>10. RecordTypes'
  BY <1>2, <1>5, <1>7, <1>9 DEF RecordTypes
<1> QED  BY <1>7, <1>8, <1>10 DEF StoreInv

\* With no request at work nothing is held.
LEMMA NobodyHolds ==
    ASSUME NEW at, NEW c, at # "idle", doing = [q \in StoreRequests |-> "idle"]
    PROVE  Cardinality(HoldersAt(at, c)) = 0
<1>1. HoldersAt(at, c) = {}
  BY DEF HoldersAt
<1> QED  BY <1>1, FS_EmptySet

\* What a step is made of, and as what it is read back.
LEMMA ReadStepIs ==
    ASSUME NEW row
    PROVE  /\ runStepFromRecord(row).index = row.index
           /\ runStepFromRecord(row).approval = row.approval
  BY DEF runStepFromRecord

\* Nothing has been written, and nobody writes.
StoreIsEmpty ==
    /\ backend \in {"memory", "postgres"} /\ runRows = NoStates /\ stepRows = NoSteps
    /\ msgRows = NoMessages /\ usageRows = None /\ rollups = None
    /\ lastSaved = NoStates /\ recorded = NoSteps /\ lostRollups = None
    /\ doing = [q \in StoreRequests |-> "idle"] /\ turn = [q \in StoreRequests |-> NoTurn]

\* An empty store that nobody writes to is in order.
LEMMA StartsEmpty == StoreIsEmpty => StoreInv
<1> SUFFICES ASSUME StoreIsEmpty PROVE StoreInv
  OBVIOUS
<1> USE DEF StoreIsEmpty
<1>1. RecordTypes
  <2>1. /\ doing \in [StoreRequests -> StoreStages] /\ turn \in [StoreRequests -> Turns \cup {NoTurn}]
        /\ lastSaved \in [StoreRuns -> States \cup {NoState}]
        /\ usageRows \in [Conversations -> Nat] /\ rollups \in [Conversations -> Nat]
        /\ lostRollups \in [Conversations -> Nat]
    BY DEF StoreStages, NoStates, None
  <2>2. /\ stepRows \in [StoreRuns -> Seq(StepRows)] /\ recorded \in [StoreRuns -> Seq(StepRecords)]
        /\ msgRows \in [Conversations -> [{"user", "assistant"} -> Seq(Kept)]]
    BY DEF NoSteps, NoMessages
  <2> QED  BY <2>1, <2>2 DEF RecordTypes
<1>2. RunsFit
  BY DEF RunsFit, NoStates
<1>3. TurnsFit
  BY DEF TurnsFit
<1>4. HistoryFits
  <2> SUFFICES ASSUME NEW r \in StoreRuns
      PROVE  /\ StepsSorted(stepRows[r]) /\ StepsListed(recorded[r], stepRows[r])
             /\ lastSaved[r] = NoState
    BY DEF HistoryFits
  <2>1. stepRows[r] = <<>> /\ recorded[r] = <<>> /\ lastSaved[r] = NoState
    BY DEF NoSteps, NoStates
  <2> QED  BY <2>1 DEF StepsSorted, StepsListed
<1>5. UsageFits
  <2> SUFFICES ASSUME NEW c \in Conversations
      PROVE  /\ rollups[c] + lostRollups[c] + Cardinality(HoldersAt("rollup", c)) = usageRows[c]
             /\ usageRows[c] + Cardinality(HoldersAt("usage", c)) <= Len(msgRows[c]["assistant"])
    BY DEF UsageFits
  <2>1. Cardinality(HoldersAt("rollup", c)) = 0 /\ Cardinality(HoldersAt("usage", c)) = 0
    BY NobodyHolds
  <2>2. /\ rollups[c] = 0 /\ lostRollups[c] = 0 /\ usageRows[c] = 0
        /\ msgRows[c]["assistant"] = <<>>
    BY DEF None, NoMessages
  <2> QED  BY <2>1, <2>2
<1> QED  BY <1>1, <1>2, <1>3, <1>4, <1>5 DEF StoreInv

\* A restart leaves what Postgres holds, or an empty store.
LEMMA Restarts ==
    ASSUME StoreInv, StoreRestarts
    PROVE  StoreInv'
<1>1. /\ doing' = [q \in StoreRequests |-> "idle"] /\ turn' = [q \in StoreRequests |-> NoTurn]
      /\ backend' = backend /\ backend \in {"memory", "postgres"}
  BY DEF StoreRestarts, StoreInv, RecordTypes
<1>2. CASE backend = "postgres"
  <2>1. /\ lostRollups' = [c \in Conversations |-> usageRows[c] - rollups[c]]
        /\ runRows' = runRows /\ stepRows' = stepRows /\ msgRows' = msgRows
        /\ usageRows' = usageRows /\ rollups' = rollups
        /\ lastSaved' = lastSaved /\ recorded' = recorded
    BY <1>2 DEF StoreRestarts, storeRows
  <2>2. ASSUME NEW c \in Conversations
        PROVE  /\ lostRollups'[c] \in Nat /\ rollups[c] + lostRollups'[c] = usageRows[c]
               /\ usageRows[c] <= Len(msgRows[c]["assistant"])
    <3>1. PICK a, b : /\ a = Cardinality(HoldersAt("rollup", c)) /\ b = Cardinality(HoldersAt("usage", c))
                      /\ a \in Nat /\ b \in Nat
      <4>1. HoldersAt("rollup", c) \subseteq StoreRequests /\ HoldersAt("usage", c) \subseteq StoreRequests
        BY DEF HoldersAt
      <4> QED  BY <4>1, FS_Subset, FS_CardinalityType, StoreAssumption
    <3>2. /\ usageRows[c] \in Nat /\ rollups[c] \in Nat /\ lostRollups[c] \in Nat
          /\ Len(msgRows[c]["assistant"]) \in Nat
      BY DEF StoreInv, RecordTypes
    <3>3. /\ rollups[c] + lostRollups[c] + a = usageRows[c]
          /\ usageRows[c] + b <= Len(msgRows[c]["assistant"])
      BY <3>1 DEF StoreInv, UsageFits
    <3>4. PICK x, y, u, w : /\ x = rollups[c] /\ y = lostRollups[c] /\ u = usageRows[c]
                            /\ w = Len(msgRows[c]["assistant"])
      OBVIOUS
    <3>5. lostRollups'[c] = u - x
      BY <2>1, <3>4
    <3>6. /\ x \in Nat /\ y \in Nat /\ u \in Nat /\ w \in Nat /\ x + y + a = u /\ u + b <= w
      BY <3>2, <3>3, <3>4
    <3>7. u - x \in Nat /\ x + (u - x) = u /\ u <= w
      BY <3>1, <3>6
    <3> QED  BY <3>4, <3>5, <3>7
  <2>3. UsageFits'
    <3> SUFFICES ASSUME NEW c \in Conversations
        PROVE  /\ rollups[c] + lostRollups'[c] + Cardinality(HoldersAt("rollup", c))' = usageRows[c]
               /\ usageRows[c] + Cardinality(HoldersAt("usage", c))' <= Len(msgRows[c]["assistant"])
      BY <2>1 DEF UsageFits
    <3>1. HoldersAt("rollup", c)' = {} /\ HoldersAt("usage", c)' = {}
      BY <1>1 DEF HoldersAt
    <3>2. Cardinality(HoldersAt("rollup", c))' = 0 /\ Cardinality(HoldersAt("usage", c))' = 0
      BY <3>1, FS_EmptySet
    <3>3. /\ usageRows[c] \in Nat /\ rollups[c] \in Nat /\ lostRollups'[c] \in Nat
          /\ Len(msgRows[c]["assistant"]) \in Nat
      BY <2>2 DEF StoreInv, RecordTypes
    <3> QED  BY <2>2, <3>2, <3>3
  <2>4. lostRollups' \in [Conversations -> Nat]
    BY <2>1, <2>2
  <2>5. /\ doing' \in [StoreRequests -> StoreStages]
        /\ turn' \in [StoreRequests -> Turns \cup {NoTurn}]
    BY <1>1 DEF StoreStages
  <2>6. RecordTypes'
    BY <1>1, <2>1, <2>4, <2>5 DEF StoreInv, RecordTypes
  <2>7. RunsFit'
    BY <2>1 DEF StoreInv, RunsFit
  <2>8. HistoryFits'
    BY <2>1 DEF StoreInv, HistoryFits, ApprovalListed
  <2>9. TurnsFit'
    BY <1>1 DEF TurnsFit
  <2> QED  BY <2>3, <2>6, <2>7, <2>8, <2>9 DEF StoreInv
<1>3. CASE backend # "postgres"
  <2>1. /\ runRows' = NoStates /\ stepRows' = NoSteps /\ msgRows' = NoMessages
        /\ usageRows' = None /\ rollups' = None /\ lastSaved' = NoStates
        /\ recorded' = NoSteps /\ lostRollups' = None
    BY <1>3 DEF StoreRestarts
  <2>2. StoreIsEmpty'
    BY <1>1, <2>1 DEF StoreIsEmpty, NoStates, NoSteps, NoMessages, None
  <2> QED  BY <2>2, StartsEmpty, PTL
<1> QED  BY <1>2, <1>3

-----------------------------------------------------------------------------
\* The inductive invariant of the store, for any requests, runs, conversations
\* and limits.
THEOREM StoreInvariant == StoreSpec => []StoreInv
<1>1. StoreInit => StoreInv
  BY StartsEmpty DEF StoreInit, StoreIsEmpty
<1>2. StoreInv /\ [StoreNext]_storeVars => StoreInv'
  <2> SUFFICES ASSUME StoreInv, [StoreNext]_storeVars PROVE StoreInv'
    OBVIOUS
  <2>1. CASE StoreNext
    <3>1. CASE StoreRestarts
      BY <3>1, Restarts
    <3>2. ASSUME NEW q \in StoreRequests, NEW r \in StoreRuns, NEW c \in Conversations,
                 NEW text \in StoreTexts, StartRun(q, r, c, text)
          PROVE  StoreInv'
      BY <3>2, StartsRun
    <3>3. ASSUME NEW q \in StoreRequests, NEW r \in StoreRuns,
                 ResumePaused(q, r) \/ CancelStored(q, r)
          PROVE  StoreInv'
      BY <3>3, ResumesPaused
    <3>4. ASSUME NEW q \in StoreRequests, CreateMessage(q) PROVE StoreInv'
      BY <3>4, CreatesMessage
    <3>5. ASSUME NEW q \in StoreRequests, MessageFails(q) PROVE StoreInv'
      BY <3>5, MessageIsRefused
    <3>6. ASSUME NEW q \in StoreRequests, CreateUsage(q) PROVE StoreInv'
      BY <3>6, CreatesUsage
    <3>7. ASSUME NEW q \in StoreRequests, IncrementRollup(q) PROVE StoreInv'
      BY <3>7, IncrementsRollup
    <3>8. ASSUME NEW q \in StoreRequests, SaveState(q) PROVE StoreInv'
      BY <3>8, SavesState
    <3>9. ASSUME NEW q \in StoreRequests, RecordStepFails(q) PROVE StoreInv'
      BY <3>9, RecordingFails
    <3>10. ASSUME NEW q \in StoreRequests, NEW summary \in StoreTexts,
                  SaveStep(q, "plain", [there |-> TRUE, summary |-> summary])
           PROVE  StoreInv'
      BY <3>10, RecordsStep
    <3>11. ASSUME NEW q \in StoreRequests, NEW next \in {"working", "paused", "completed"},
                  NEW result \in StoreTexts, Transition(q, next, result)
           PROVE  StoreInv'
      BY <3>11, MovesToStatus
    <3> QED  BY <2>1, <3>1, <3>2, <3>3, <3>4, <3>5, <3>6, <3>7, <3>8, <3>9, <3>10, <3>11 DEF StoreNext
  <2>2. CASE UNCHANGED storeVars
    <3>1. /\ UNCHANGED <<backend, doing, turn>> /\ UNCHANGED storeRows /\ UNCHANGED storeHistory
      BY <2>2 DEF storeVars, storeLocal
    <3> QED  BY <3>1 DEF StoreInv, RecordTypes, RunsFit, TurnsFit, TurnOK, Pausing, HistoryFits,
                        ApprovalListed, UsageFits, HoldersAt, storeRows, storeHistory
  <2> QED  BY <2>1, <2>2
<1> QED  BY <1>1, <1>2, PTL DEF StoreSpec

\* What the store promises follows.
LEMMA StepsAsRecorded ==
    ASSUME StoreInv, NEW r \in StoreRuns
    PROVE  LET steps == ListSteps(r) IN
           /\ \A j, k \in DOMAIN steps : j < k => steps[j].index <= steps[k].index
           /\ Len(steps) = Len(recorded[r])
           /\ \A j \in DOMAIN recorded[r] : \E k \in DOMAIN steps :
                steps[k] = RedactedStep(recorded[r][j])
           /\ ApprovalListed(r) => \E k \in DOMAIN steps : steps[k].approval.there
<1>1. PICK rows, all, steps : rows = stepRows[r] /\ all = recorded[r] /\ steps = ListSteps(r)
  OBVIOUS
<1>2. /\ rows \in Seq(StepRows) /\ all \in Seq(StepRecords)
      /\ StepsSorted(rows) /\ StepsListed(all, rows)
  BY <1>1 DEF StoreInv, RecordTypes, HistoryFits
<1>3. steps = [k \in 1..Len(rows) |-> runStepFromRecord(rows[k])] /\ DOMAIN rows = 1..Len(rows)
  BY <1>1, <1>2 DEF ListSteps
<1>4. DOMAIN steps = 1..Len(rows) /\ Len(rows) \in Nat /\ Len(steps) = Len(rows)
  BY <1>2, <1>3
<1>5. \A k \in 1..Len(rows) : steps[k] = runStepFromRecord(rows[k])
  BY <1>3
<1>6. \A k \in 1..Len(rows) : steps[k].index = rows[k].index /\ steps[k].approval = rows[k].approval
  <2> SUFFICES ASSUME NEW k \in 1..Len(rows)
      PROVE  steps[k].index = rows[k].index /\ steps[k].approval = rows[k].approval
    OBVIOUS
  <2>1. PICK row : row = rows[k]
    OBVIOUS
  <2>2. steps[k] = runStepFromRecord(row)
    BY <1>5, <2>1
  <2> QED  BY <2>1, <2>2, ReadStepIs
<1>7. \A j, k \in DOMAIN steps : j < k => steps[j].index <= steps[k].index
  BY <1>2, <1>3, <1>4, <1>6 DEF StepsSorted
<1>8. ASSUME NEW j \in DOMAIN all
      PROVE  \E k \in DOMAIN steps :
                steps[k] = RedactedStep(all[j])
  <2>1. PICK p : p = all[j] /\ p \in StepRecords
    BY <1>2
  <2>2. PICK k \in DOMAIN rows : rows[k] = toRunStepRecord(p)
    BY <1>2, <2>1 DEF StepsListed
  <2>3. steps[k] = [route |-> "", index |-> p.index, text |-> RedactString(p.text),
                    result |-> RedactString(p.result), approval |-> p.approval]
    <3>1. PICK row : row = rows[k]
      OBVIOUS
    <3>2. row = [index |-> p.index, text |-> RedactString(p.text),
                 result |-> RedactString(p.result), approval |-> p.approval]
      BY <2>1, <2>2, <3>1, RowIs
    <3>3. steps[k] = runStepFromRecord(row)
      BY <1>3, <1>5, <3>1
    <3> QED  BY <3>2, <3>3 DEF runStepFromRecord
  <2> QED  BY <1>3, <1>4, <2>1, <2>2, <2>3 DEF RedactedStep
<1>9. ApprovalListed(r) => \E k \in DOMAIN steps : steps[k].approval.there
  BY <1>1, <1>3, <1>4, <1>6 DEF ApprovalListed
<1> QED  BY <1>1, <1>2, <1>4, <1>7, <1>8, <1>9 DEF StepsListed

\* Runs are read back as they were saved, histories are complete and in order,
\* usage is counted once, and no secret is kept.
THEOREM RecordsKept == StoreSpec => []RecordsAreKept
<1>1. StoreInv => RecordsAreKept
  <2> SUFFICES ASSUME StoreInv PROVE RecordsAreKept
    OBVIOUS
  <2>1. RunsAsSaved
    <3> SUFFICES ASSUME NEW r \in StoreRuns
        PROVE  /\ (runRows[r] = NoState) <=> (lastSaved[r] = NoState)
               /\ runRows[r] # NoState => GetRun(r) = sanitizeRunState(lastSaved[r])
      BY DEF RunsAsSaved
    <3>1. runRows[r] = IF lastSaved[r] = NoState THEN NoState ELSE toRunRecord(lastSaved[r])
      BY DEF StoreInv, RunsFit
    <3>2. lastSaved[r] \in States \cup {NoState}
      BY DEF StoreInv, RecordTypes
    <3>3. lastSaved[r] # NoState => runRows[r] # NoState
      BY <3>1, <3>2, StateIs
    <3> QED  BY <3>1, <3>3, ReadBack
  <2>2. HistoryInOrder
    BY StepsAsRecorded, ReadBack DEF HistoryInOrder
  <2>3. RollupCountsUsage
    <3> SUFFICES ASSUME NEW c \in Conversations
        PROVE  /\ rollups[c] + lostRollups[c] + Cardinality(HoldersAt("rollup", c)) = usageRows[c]
               /\ usageRows[c] <= Len(msgRows[c]["assistant"])
      BY DEF RollupCountsUsage, HoldersAt
    <3>1. PICK a : a = Cardinality(HoldersAt("usage", c)) /\ a \in Nat
      <4>1. HoldersAt("usage", c) \subseteq StoreRequests
        BY DEF HoldersAt
      <4> QED  BY <4>1, FS_Subset, FS_CardinalityType, StoreAssumption
    <3>2. usageRows[c] \in Nat /\ Len(msgRows[c]["assistant"]) \in Nat
      BY DEF StoreInv, RecordTypes
    <3> QED  BY <3>1, <3>2 DEF StoreInv, UsageFits
  <2>4. NoSecretKept
    <3>1. ASSUME NEW c \in Conversations, NEW who \in {"user", "assistant"}
          PROVE  "secret" \notin Range(msgRows[c][who])
      <4>1. msgRows[c][who] \in Seq(Kept)
        BY DEF StoreInv, RecordTypes
      <4>2. \A j \in DOMAIN msgRows[c][who] : msgRows[c][who][j] # "secret"
        BY <4>1 DEF Kept
      <4> QED  BY <4>2 DEF Range
    <3>2. ASSUME NEW r \in StoreRuns, runRows[r] # NoState
          PROVE  "secret" \notin {GetRun(r).text, GetRun(r).result}
      BY <3>2, ReadBack DEF Kept
    <3>3. ASSUME NEW r \in StoreRuns, NEW k \in DOMAIN stepRows[r]
          PROVE  "secret" \notin {stepRows[r][k].text, stepRows[r][k].result}
      <4>1. stepRows[r][k] \in StepRows
        BY DEF StoreInv, RecordTypes
      <4> QED  BY <4>1 DEF StepRows, Kept
    <3> QED  BY <3>1, <3>2, <3>3 DEF NoSecretKept
  <2> QED  BY <2>1, <2>2, <2>3, <2>4 DEF RecordsAreKept
<1> QED  BY <1>1, StoreInvariant, PTL

\* A request that is through holds nothing, and failures are counted.
IdleHoldsNothing == \A q \in StoreRequests : doing[q] = "idle" => turn[q] = NoTurn
StoreRest == IdleHoldsNothing /\ storeFaults \in 0..MaxStoreFaults

\* A request that goes on holds something, or is through.
LEMMA GoesOnHolding ==
    ASSUME StoreInv, IdleHoldsNothing, NEW q \in StoreRequests, NEW at, NEW t,
           at = "idle" => t = NoTurn, GoesOn(q, at, t)
    PROVE  IdleHoldsNothing'
<1>1. /\ doing \in [StoreRequests -> StoreStages] /\ turn \in [StoreRequests -> Turns \cup {NoTurn}]
      /\ doing' = [doing EXCEPT ![q] = at] /\ turn' = [turn EXCEPT ![q] = t]
  BY DEF StoreInv, RecordTypes, GoesOn
<1>2. ASSUME NEW p \in StoreRequests, doing'[p] = "idle" PROVE turn'[p] = NoTurn
  <2>1. CASE p = q
    BY <1>1, <1>2, <2>1
  <2>2. CASE p # q
    BY <1>1, <1>2, <2>2 DEF IdleHoldsNothing
  <2> QED  BY <2>1, <2>2
<1> QED  BY <1>2 DEF IdleHoldsNothing

\* What is idle is not a turn.
LEMMA NoTurnIsNone == NoTurn \notin Turns
  BY DEF NoTurn, Turns

\* One more failure is within the bound.
LEMMA FaultCounted ==
    ASSUME storeFaults \in 0..MaxStoreFaults, StoreFault \/ UNCHANGED storeFaults
    PROVE  storeFaults' \in 0..MaxStoreFaults
  BY StoreAssumption DEF StoreFault

\* The variables of the store have their types.
THEOREM StoreTyped == StoreSpec => []StoreTypeOK
<1>1. StoreInit => StoreRest
  BY StoreAssumption DEF StoreInit, StoreRest, IdleHoldsNothing
<1>2. ASSUME StoreInv, StoreRest, [StoreNext]_storeVars PROVE StoreRest'
  <2>0. IdleHoldsNothing /\ storeFaults \in 0..MaxStoreFaults
    BY <1>2 DEF StoreRest
  <2>1. ASSUME NEW q \in StoreRequests, NEW at, NEW t, at = "idle" => t = NoTurn, GoesOn(q, at, t),
               StoreFault \/ UNCHANGED storeFaults
        PROVE  StoreRest'
    BY <1>2, <2>0, <2>1, GoesOnHolding, FaultCounted DEF StoreRest
  <2>2. ASSUME NEW q \in StoreRequests, NEW r \in StoreRuns, NEW c, NEW text, StartRun(q, r, c, text)
        PROVE  StoreRest'
    <3>1. PICK t : GoesOn(q, "message", t)
      BY <2>2 DEF StartRun
    <3> QED  BY <2>1, <2>2, <3>1 DEF StartRun, Same
  <2>3. ASSUME NEW q \in StoreRequests, NEW r \in StoreRuns, ResumePaused(q, r) \/ CancelStored(q, r)
        PROVE  StoreRest'
    <3>1. PICK t : GoesOn(q, "step", t)
      BY <2>3 DEF ResumePaused, CancelStored
    <3> QED  BY <2>1, <2>3, <3>1 DEF ResumePaused, CancelStored, Same
  <2>4. ASSUME NEW q \in StoreRequests, CreateMessage(q) PROVE StoreRest'
    <3>1. PICK at, t : GoesOn(q, at, t) /\ at \in {"step", "usage"}
      BY <2>4 DEF CreateMessage
    <3> QED  BY <2>1, <2>4, <3>1 DEF CreateMessage, Same
  <2>5. ASSUME NEW q \in StoreRequests, MessageFails(q) PROVE StoreRest'
    <3>0. StoreFault \/ UNCHANGED storeFaults
      BY <2>5 DEF MessageFails
    <3>1. CASE Turn(q).role = "user"
      <4>1. GoesOn(q, "idle", NoTurn)
        BY <2>5, <3>1 DEF MessageFails, Leaves
      <4> QED  BY <2>1, <3>0, <4>1
    <3>2. CASE Turn(q).role # "user"
      <4>1. GoesOn(q, "step", [Turn(q) EXCEPT !.fresh = "failed"])
        BY <2>5, <3>2 DEF MessageFails, FailsRun
      <4> QED  BY <2>1, <3>0, <4>1
    <3> QED  BY <3>1, <3>2
  <2>6. ASSUME NEW q \in StoreRequests, CreateUsage(q) PROVE StoreRest'
    <3>1. GoesOn(q, "rollup", Turn(q))
      BY <2>6 DEF CreateUsage
    <3> QED  BY <2>1, <2>6, <3>1 DEF CreateUsage, Same
  <2>7. ASSUME NEW q \in StoreRequests, IncrementRollup(q) PROVE StoreRest'
    <3>0. StoreFault \/ UNCHANGED storeFaults
      BY <2>7 DEF IncrementRollup
    <3>1. CASE Turn(q).fresh = "paused"
      <4>1. GoesOn(q, "idle", NoTurn)
        BY <2>7, <3>1 DEF IncrementRollup, Leaves
      <4> QED  BY <2>1, <3>0, <4>1
    <3>2. CASE Turn(q).fresh # "paused"
      <4>1. GoesOn(q, "step", Turn(q))
        BY <2>7, <3>2 DEF IncrementRollup
      <4> QED  BY <2>1, <3>0, <4>1
    <3> QED  BY <3>1, <3>2
  <2>8. ASSUME NEW q \in StoreRequests, SaveState(q) PROVE StoreRest'
    <3>1. GoesOn(q, "transition", Turn(q))
      BY <2>8 DEF SaveState
    <3> QED  BY <2>1, <2>8, <3>1 DEF SaveState, Same
  <2>9. ASSUME NEW q \in StoreRequests, RecordStepFails(q) PROVE StoreRest'
    <3>0. StoreFault \/ UNCHANGED storeFaults
      BY <2>9 DEF RecordStepFails
    <3>1. CASE Turn(q).fresh \in {"failed", "cancelled"}
      <4>1. GoesOn(q, "idle", NoTurn)
        BY <2>9, <3>1 DEF RecordStepFails, Leaves
      <4> QED  BY <2>1, <3>0, <4>1
    <3>2. CASE Turn(q).fresh \notin {"failed", "cancelled"}
      <4>1. GoesOn(q, "step", [(IF doing[q] = "step" THEN Stepped(q) ELSE Turn(q))
                                EXCEPT !.fresh = "failed"])
        BY <2>9, <3>2 DEF RecordStepFails
      <4> QED  BY <2>1, <3>0, <4>1
    <3> QED  BY <3>1, <3>2
  <2>10. ASSUME NEW q \in StoreRequests, NEW text, NEW approval, SaveStep(q, text, approval)
         PROVE  StoreRest'
    <3>1. PICK t : GoesOn(q, "save", t)
      BY <2>10 DEF SaveStep
    <3> QED  BY <2>1, <2>10, <3>1 DEF SaveStep, Same
  <2>11. ASSUME NEW q \in StoreRequests, NEW next, NEW result, Transition(q, next, result)
         PROVE  StoreRest'
    <3> DEFINE s == [Turn(q).state EXCEPT !.status = Turn(q).fresh,
                             !.result = IF Turn(q).fresh = "working" THEN result ELSE @,
                             !.approval = @ /\ Turn(q).fresh # "working"]
    <3>0. StoreFault \/ UNCHANGED storeFaults
      BY <2>11 DEF Transition
    <3>1. CASE Turn(q).fresh = "working"
      <4> DEFINE at == IF next = "completed" THEN "message" ELSE "step"
      <4>1. GoesOn(q, at, [Turn(q) EXCEPT !.state = s, !.fresh = next])
        BY <2>11, <3>1 DEF Transition
      <4>2. at # "idle"
        OBVIOUS
      <4> HIDE DEF at, s
      <4> QED  BY <2>1, <3>0, <4>1, <4>2
    <3>2. CASE Turn(q).fresh = "paused"
      <4>1. GoesOn(q, "message", [Turn(q) EXCEPT !.state = s])
        BY <2>11, <3>2 DEF Transition
      <4> HIDE DEF s
      <4> QED  BY <2>1, <3>0, <4>1
    <3>3. CASE Turn(q).fresh \notin {"working", "paused"}
      <4>1. GoesOn(q, "idle", NoTurn)
        BY <2>11, <3>3 DEF Transition, Leaves
      <4> QED  BY <2>1, <3>0, <4>1
    <3> QED  BY <3>1, <3>2, <3>3
  <2>12. CASE StoreRestarts
    BY <2>0, <2>12, StoreAssumption DEF StoreRest, IdleHoldsNothing, StoreRestarts
  <2>13. CASE UNCHANGED storeVars
    BY <2>0, <2>13 DEF StoreRest, IdleHoldsNothing, storeVars, storeLocal
  <2> QED  BY <1>2, <2>2, <2>3, <2>4, <2>5, <2>6, <2>7, <2>8, <2>9, <2>10, <2>11, <2>12, <2>13 DEF StoreNext
<1>3. ASSUME StoreInv, StoreRest PROVE StoreTypeOK
  <2>1. ASSUME NEW r \in StoreRuns
        PROVE  /\ lastSaved[r] = NoState \/ lastSaved[r] \in States
               /\ runRows[r] = NoState \/ GetRun(r) \in States
    <3>1. lastSaved[r] \in States \cup {NoState}
      BY <1>3 DEF StoreInv, RecordTypes
    <3> QED  BY <1>3, <3>1, ReadBack
  <2>2. ASSUME NEW q \in StoreRequests PROVE (doing[q] = "idle") = (turn[q] = NoTurn)
    <3>1. CASE doing[q] = "idle"
      BY <1>3, <3>1 DEF StoreRest, IdleHoldsNothing
    <3>2. CASE doing[q] # "idle"
      <4>1. turn[q] \in Turns
        BY <1>3, <3>2 DEF StoreInv, TurnsFit, TurnOK
      <4> QED  BY <3>2, <4>1, NoTurnIsNone
    <3> QED  BY <3>1, <3>2
  <2> QED  BY <1>3, <2>1, <2>2 DEF StoreTypeOK, StoreInv, RecordTypes, StoreRest
<1>4. StoreInv /\ StoreRest => StoreTypeOK
  BY <1>3
<1>5. StoreInv /\ StoreRest /\ [StoreNext]_storeVars => StoreRest'
  BY <1>2
<1> QED  BY <1>1, <1>4, <1>5, StoreInvariant, PTL DEF StoreSpec

=============================================================================
