------------------------------- MODULE GitTool -------------------------------
(***************************************************************************)
(* internal/tools/gittools: the git.* tools.  Each runs git one or several *)
(* times and keeps nothing; what it read in one run may have changed before*)
(* the next, by another request or by the user at the same workspace.      *)
(*                                                                         *)
(* A file has a version in the working tree, one in the index and one in   *)
(* the last commit; version 0 is no file.  Git's output is cut, and the    *)
(* names that are read from it with it.                                    *)
(***************************************************************************)
EXTENDS Integers, FiniteSets, FiniteSetsExt

CONSTANTS
    GitCallers,     \* the requests at work at a time
    GitFiles,       \* the files, numbers in the order of their names
    GitPaths,       \* the sets of paths a call may name
    NamesLimit,     \* the names that fit in max_output_bytes
    MaxGitCalls, MaxGitEdits    \* bounds: calls, and edits by the user

ASSUME GitAssumption ==
    /\ GitFiles \subseteq Nat \ {0} /\ IsFiniteSet(GitFiles)
    /\ GitFiles # {} /\ GitPaths \subseteq SUBSET GitFiles
    /\ NamesLimit \in Nat \ {0} /\ MaxGitCalls \in Nat /\ MaxGitEdits \in Nat

VARIABLES
    work, staging, head,    \* the versions in the tree, the index and the commit
    gitJob,                 \* what a request does
    gitDone,                \* the last answer of all
    gitCalls, gitEdits

gitTrees == <<work, staging, head>>
gitVars == <<gitTrees, gitJob, gitDone, gitCalls, gitEdits>>

GitOperations == {"add", "restore", "clean", "diff_summary", "commit"}
NoGitJob == [at |-> "idle"]
NoGitAnswer == [op |-> "none"]

\* A repository with every file changed and one of them staged.
GitInit ==
    /\ head = [f \in GitFiles |-> 1] /\ work = [f \in GitFiles |-> 2]
    /\ staging = [head EXCEPT ![Min(GitFiles)] = 2]
    /\ gitJob = [q \in GitCallers |-> NoGitJob]
    /\ gitDone = NoGitAnswer /\ gitCalls = 0 /\ gitEdits = 0

-----------------------------------------------------------------------------
(* Reading *)

\* appendPathspec: no paths are all of them.
Pathspec(paths) == IF paths = {} THEN GitFiles ELSE paths
Changed(from, to, paths) == {f \in Pathspec(paths) : from[f] # to[f]}

\* The output of --name-only, cut by truncateBytes.  If a name is cut,
\* too, a piece of it is left, -f.
GitNames(changed) ==
    LET before(f) == Cardinality({g \in changed : g < f})
        kept == {f \in changed : before(f) < NamesLimit}
        piece == {-f : f \in {g \in changed : before(g) = NamesLimit}}
        whole == Cardinality(changed) <= NamesLimit
    IN  {[names |-> kept, whole |-> whole]} \cup
        (IF whole THEN {} ELSE {[names |-> kept \cup piece, whole |-> FALSE]})

\* outsideFiles
OutsideFiles(allFiles, scoped) == allFiles \ scoped

-----------------------------------------------------------------------------
(* The operations *)

\* Another request that relies on what it has read of the index.
Touches(q, job_) ==
    gitJob' = [p \in GitCallers |->
        IF p = q THEN job_
        ELSE IF gitJob[p].at = "idle" THEN gitJob[p] ELSE [gitJob[p] EXCEPT !.alone = FALSE]]
Proceeds(q, job_) == gitJob' = [gitJob EXCEPT ![q] = job_]
Answers(answer) == gitDone' = answer
GitReads == UNCHANGED <<gitTrees, gitCalls, gitEdits>>

\* Executor.Execute; add and restore want a path.
GitExecute(q, op, paths, cached) ==
    /\ gitJob[q].at = "idle" /\ gitCalls < MaxGitCalls /\ gitCalls' = gitCalls + 1
    /\ op \in {"add", "restore"} => paths # {}
    /\ Proceeds(q, [op |-> op, paths |-> paths, cached |-> cached, alone |-> TRUE,
                    seen |-> {}, whole |-> TRUE,
                    at |-> CASE op = "commit" -> "staged" [] op = "diff_summary" -> "numstat"
                             [] OTHER -> "run"])
    /\ Answers(NoGitAnswer)
    /\ UNCHANGED <<gitTrees, gitEdits>>

\* git add, git restore and git clean -fd, in one run of git.  A path that
\* git does not know is an error, and nothing is done.
RunOnce(q) ==
    LET job_ == gitJob[q]
        known == IF job_.op = "add" THEN {f \in GitFiles : work[f] # 0 \/ staging[f] # 0}
                 ELSE {f \in GitFiles : staging[f] # 0}
        done == job_.op = "clean" \/ job_.paths \subseteq known
        untracked == {f \in Pathspec(job_.paths) : staging[f] = 0}
    IN  /\ job_.at = "run"
        /\ staging' = IF done /\ job_.op = "add"
                      THEN [f \in GitFiles |-> IF f \in job_.paths THEN work[f] ELSE staging[f]]
                      ELSE staging
        /\ work' = CASE done /\ job_.op = "restore" ->
                           [f \in GitFiles |-> IF f \in job_.paths THEN staging[f] ELSE work[f]]
                     [] job_.op = "clean" ->
                           [f \in GitFiles |-> IF f \in untracked THEN 0 ELSE work[f]]
                     [] OTHER -> work
        /\ Touches(q, NoGitJob)
        /\ Answers([op |-> job_.op, exit |-> IF done THEN 0 ELSE 128])
        /\ UNCHANGED <<head, gitCalls, gitEdits>>

\* executeDiffSummary: the names and numbers, then the names once more.
DiffOf(job_) ==
    IF job_.cached THEN Changed(head, staging, job_.paths) ELSE Changed(staging, work, job_.paths)

Numstat(q) ==
    /\ gitJob[q].at = "numstat"
    /\ \E out \in GitNames(DiffOf(gitJob[q])) :
          Proceeds(q, [gitJob[q] EXCEPT !.at = "names", !.seen = out.names, !.whole = out.whole])
    /\ UNCHANGED gitDone /\ GitReads

NameStatus(q) ==
    LET job_ == gitJob[q] IN
    /\ job_.at = "names"
    /\ \E out \in GitNames(DiffOf(job_)) :
          Answers([op |-> "diff_summary", files |-> job_.seen, statuses |-> out.names,
                      whole |-> job_.whole /\ out.whole, alone |-> job_.alone])
    /\ Proceeds(q, NoGitJob)
    /\ GitReads

\* executeCommit: what is staged under the paths, and then all that is staged.
ReadStaged(q) ==
    /\ gitJob[q].at = "staged"
    /\ \E out \in GitNames(Changed(head, staging, gitJob[q].paths)) :
          Proceeds(q, [gitJob[q] EXCEPT !.seen = out.names, !.whole = out.whole,
                                        !.at = IF @ = "staged" /\ gitJob[q].paths # {}
                                               THEN "all" ELSE "check"])
    /\ UNCHANGED gitDone /\ GitReads

\* A mutant: what is staged outside of the paths is let through.
ReadAllStagedOnly(q) ==
    /\ gitJob[q].at = "all"
    /\ \E out \in GitNames(Changed(head, staging, {})) :
          Proceeds(q, [gitJob[q] EXCEPT !.whole = @ /\ out.whole, !.at = "check"])
    /\ UNCHANGED gitDone /\ GitReads

ReadAllStaged(q) ==
    LET job_ == gitJob[q] IN
    /\ job_.at = "all"
    /\ \E out \in GitNames(Changed(head, staging, {})) :
          IF OutsideFiles(out.names, job_.seen) # {}
          THEN /\ Proceeds(q, NoGitJob)
               /\ Answers([op |-> "commit", exit |-> 1])
          ELSE /\ Proceeds(q, [job_ EXCEPT !.whole = @ /\ out.whole, !.at = "check"])
               /\ UNCHANGED gitDone
    /\ GitReads

\* With nothing staged there is no commit.
CheckStaged(q) ==
    LET job_ == gitJob[q] IN
    /\ job_.at = "check"
    /\ IF job_.seen = {}
       THEN /\ Proceeds(q, NoGitJob)
            /\ Answers([op |-> "commit", exit |-> 1])
       ELSE Proceeds(q, [job_ EXCEPT !.at = "commit"]) /\ UNCHANGED gitDone
    /\ GitReads

\* git commit takes no paths: it commits the index as it is by now.
GitCommit(q) ==
    LET job_ == gitJob[q]
        staged_ == Changed(head, staging, {})
    IN  /\ job_.at = "commit"
        /\ head' = staging
        /\ Answers([op |-> "commit", exit |-> IF staged_ = {} THEN 1 ELSE 0,
                       files |-> job_.seen, whole |-> job_.whole,
                       committed |-> staged_, alone |-> job_.alone, paths |-> job_.paths])
        /\ Touches(q, NoGitJob)
        /\ UNCHANGED <<work, staging, gitCalls, gitEdits>>

\* A run of git fails or is out of time; a commit may have been made then.
GitFails(q) ==
    LET job_ == gitJob[q] IN
    /\ job_.at \notin {"idle", "check"}
    /\ head' \in IF job_.at = "commit" THEN {head, staging} ELSE {head}
    /\ Touches(q, NoGitJob)
    /\ Answers([op |-> "error"])
    /\ UNCHANGED <<work, staging, gitCalls, gitEdits>>

\* The user writes or removes a file, and may add it.
UserEdits(f, version, adds) ==
    /\ gitEdits < MaxGitEdits /\ gitEdits' = gitEdits + 1
    /\ work' = [work EXCEPT ![f] = version]
    /\ staging' = IF adds THEN [staging EXCEPT ![f] = version] ELSE staging
    /\ Touches("user", NoGitJob)
    /\ UNCHANGED <<head, gitDone, gitCalls>>

GitNext ==
    \/ \E q \in GitCallers :
          \/ \E op \in GitOperations, paths \in GitPaths, cached \in BOOLEAN :
                (cached => op = "diff_summary") /\ GitExecute(q, op, paths, cached)
          \/ RunOnce(q) \/ Numstat(q) \/ NameStatus(q)
          \/ ReadStaged(q) \/ ReadAllStaged(q) \/ CheckStaged(q) \/ GitCommit(q)
          \/ GitFails(q)
    \/ \E f \in GitFiles, version \in {0, gitEdits + 3}, adds \in BOOLEAN :
          UserEdits(f, version, adds)

GitSpec == GitInit /\ [][GitNext]_gitVars

-----------------------------------------------------------------------------
(* Properties *)

GitTypeOK ==
    /\ work \in [GitFiles -> Nat] /\ staging \in [GitFiles -> Nat] /\ head \in [GitFiles -> Nat]
    /\ gitCalls \in 0..MaxGitCalls /\ gitEdits \in 0..MaxGitEdits
    /\ \A q \in GitCallers :
         gitJob[q].at \in {"idle", "run", "numstat", "names", "staged", "all", "check", "commit"}
    /\ gitDone.op \in GitOperations \cup {"none", "error"}

\* A commit for some paths holds nothing else and is what the answer says was
\* staged, if nobody touched the repository between the checks and the commit
\* and nothing was cut from what the checks read: git itself is told no paths,
\* and the answer does not say that the list of all that is staged was cut.
CommitIsScoped ==
    LET a == gitDone IN
    a.op = "commit" /\ a.exit = 0 /\ a.alone /\ a.whole =>
        /\ a.committed = a.files /\ a.committed # {}
        /\ a.committed \subseteq Pathspec(a.paths)

\* The files that a summary counts are the ones whose status it gives, if it
\* was alone with the repository and nothing of it was cut.
SummaryAgrees ==
    LET a == gitDone IN
    a.op = "diff_summary" /\ a.alone /\ a.whole => a.files = a.statuses

GitIsScoped == CommitIsScoped /\ SummaryAgrees
=============================================================================
