----------------------------- MODULE SkillRunner -----------------------------
(***************************************************************************)
(* internal/tools/skills: one run of a skill, from its preparation to its  *)
(* result, with the processes that it starts.  A run waits until its       *)
(* process has ended and nobody holds its output any more; when its time   *)
(* is up, os/exec kills the process and a goroutine of the run the group.  *)
(***************************************************************************)
EXTENDS Integers, FiniteSets, SequencesExt

CONSTANTS
    RunCalls,       \* the calls, [isolated, limits, mode, document, output, paths]
    Descendants,    \* the processes that a skill's process may start
    OutputChars,    \* the runner's MaxOutputChars
    MaxWritten      \* bound: pieces of output

ASSUME RunnerAssumption ==
    /\ OutputChars \in Nat \ {0} /\ MaxWritten \in Nat
    /\ \A c \in RunCalls : c.output \in Nat \ {0} /\ c.document \in Nat \ {0}

VARIABLES
    skillCall,      \* the call
    runAt,          \* where the run is
    process,        \* what became of its process
    descendants,    \* those alive, [id, group, holds]
    runCtx,         \* the context of the run
    watcher,        \* the goroutine that kills the group
    written,        \* the pieces of output there have been
    runResult

runnerVars == <<skillCall, runAt, process, descendants, runCtx, watcher, written, runResult>>

NoCall == [isolated |-> FALSE]
NoRunResult == [status |-> "none"]

RunnerInit ==
    /\ skillCall = NoCall /\ runAt = "idle"
    /\ process = "none" /\ descendants = {} /\ written = 0
    /\ runCtx = "live" /\ watcher = "none" /\ runResult = NoRunResult

-----------------------------------------------------------------------------
(* Preparing *)

\* validateInputPaths: a path to write must be within the write paths; one to
\* read within these or the read paths, of which the skill's root is one.
PathAllowed(p) ==
    p.local => CASE p.access = "write" -> p.within = "write"
                 [] p.access = "read" -> p.within \in {"write", "read"}
                 [] OTHER -> TRUE

\* buildExecutionProfile: the lower of both limits counts.
maxOutput(c) == IF OutputChars < c.output THEN OutputChars ELSE c.output

ReturnsWith(result) ==
    /\ runAt' = "returned" /\ runResult' = result
    /\ runCtx' = IF runCtx = "live" THEN "cancelled" ELSE runCtx

FailedRun == [status |-> "error", kept |-> 0, cut |-> FALSE, late |-> FALSE]

\* Runner.Execute and prepareExecution.
prepareExecution(c) ==
    /\ runAt = "idle" /\ skillCall' = c
    /\ IF \A p \in c.paths : PathAllowed(p)
       THEN runAt' = "start" /\ UNCHANGED <<runCtx, runResult>>
       ELSE ReturnsWith(FailedRun)
    /\ UNCHANGED <<process, descendants, watcher, written>>

-----------------------------------------------------------------------------
(* The run *)

\* startAndWait; with limits to apply the process runs before they are.
StartSkill ==
    /\ runAt = "start" /\ runCtx = "live" /\ process' = "running"
    /\ IF skillCall.isolated /\ skillCall.limits
       THEN runAt' = "limits" /\ UNCHANGED watcher
       ELSE runAt' = "wait" /\ watcher' = "waiting"
    /\ UNCHANGED <<skillCall, descendants, runCtx, written, runResult>>

\* Only the local runner has a result for it, which tells when the time is up.
StartFails ==
    /\ runAt = "start"
    /\ ReturnsWith(IF runCtx # "deadline" \/ skillCall.isolated THEN FailedRun
                   ELSE [FailedRun EXCEPT !.status = "timeout", !.late = TRUE])
    /\ UNCHANGED <<skillCall, process, descendants, watcher, written>>

\* Outside of the isolation the others live on; in it they die with the first.
Dies(how) ==
    /\ process' = how
    /\ descendants' = IF skillCall.isolated THEN {} ELSE descendants

\* A mutant: the process itself, and not its group.
killProcessOnly ==
    IF process = "running" THEN Dies("killed") ELSE UNCHANGED <<process, descendants>>

killProcessGroup ==
    /\ process' = IF process = "running" THEN "killed" ELSE process
    /\ descendants' = IF skillCall.isolated /\ process = "running" THEN {}
                      ELSE {d \in descendants : ~d.group}

\* applyLinuxRlimits; if that fails, the process is killed and not waited for.
ApplyRlimits ==
    /\ runAt = "limits"
    /\ \/ /\ runAt' = "wait" /\ watcher' = "waiting"
          /\ UNCHANGED <<process, descendants, runCtx, runResult>>
       \/ /\ killProcessGroup /\ ReturnsWith(FailedRun) /\ UNCHANGED watcher
    /\ UNCHANGED <<skillCall, written>>

\* The time is up, or the caller has gone.
ContextEnds(how) ==
    /\ runAt \in {"start", "limits", "wait"} /\ runCtx = "live" /\ runCtx' = how
    /\ UNCHANGED <<skillCall, runAt, process, descendants, watcher, written, runResult>>

\* What exec.CommandContext does.
CommandKills ==
    /\ runAt \in {"limits", "wait"} /\ runCtx # "live" /\ process = "running"
    /\ Dies("killed")
    /\ UNCHANGED <<skillCall, runAt, runCtx, watcher, written, runResult>>

\* waitStartedProcess: the goroutine picks either, when the run has returned
\* and its context has ended.
WatcherKills ==
    /\ watcher = "waiting" /\ runCtx # "live" /\ watcher' = "left"
    /\ killProcessGroup
    /\ UNCHANGED <<skillCall, runAt, runCtx, written, runResult>>

WatcherLeaves ==
    /\ watcher = "waiting" /\ runAt = "returned" /\ watcher' = "left"
    /\ UNCHANGED <<skillCall, runAt, process, descendants, runCtx, written, runResult>>

\* parseOutput: text is anything, JSON is nothing or a document and no more.
Parses(kept, cut) == skillCall.mode = "text" \/ kept = 0 \/ (kept = skillCall.document /\ ~cut)

\* Wait returns; limitedBuffer has kept the beginning of the output.  Output
\* that cannot be parsed counts for more than the time.
WaitReturns ==
    LET limit == maxOutput(skillCall)
        cut == written > limit
        kept == IF cut THEN limit ELSE written
    IN  /\ runAt = "wait" /\ process # "running" /\ \A d \in descendants : ~d.holds
        /\ ReturnsWith([status |-> IF ~Parses(kept, cut) THEN "error"
                                   ELSE IF runCtx = "deadline" THEN "timeout"
                                   ELSE IF process # "exited" THEN "error" ELSE "ok",
                        kept |-> kept, cut |-> cut, late |-> runCtx = "deadline"])
        /\ UNCHANGED <<skillCall, process, descendants, watcher, written>>

-----------------------------------------------------------------------------
(* The processes *)

Forks(d, group, holds) ==
    /\ process = "running" /\ \A e \in descendants : e.id # d
    /\ descendants' = descendants \cup {[id |-> d, group |-> group, holds |-> holds]}
    /\ UNCHANGED <<skillCall, runAt, process, runCtx, watcher, written, runResult>>

\* Output is taken at any time: a full buffer drops it.
Writes ==
    /\ written < MaxWritten /\ runAt # "returned"
    /\ process = "running" \/ \E d \in descendants : d.holds
    /\ written' = written + 1
    /\ UNCHANGED <<skillCall, runAt, process, descendants, runCtx, watcher, runResult>>

ProcessExits(how) ==
    /\ process = "running" /\ Dies(how)
    /\ UNCHANGED <<skillCall, runAt, runCtx, watcher, written, runResult>>

DescendantExits(d) ==
    /\ \E e \in descendants : e.id = d
    /\ descendants' = {e \in descendants : e.id # d}
    /\ UNCHANGED <<skillCall, runAt, process, runCtx, watcher, written, runResult>>

RunnerNext ==
    \/ \E c \in RunCalls : prepareExecution(c)
    \/ StartSkill \/ StartFails \/ ApplyRlimits \/ WaitReturns
    \/ \E how \in {"deadline", "cancelled"} : ContextEnds(how)
    \/ CommandKills \/ WatcherKills \/ WatcherLeaves
    \/ \E d \in Descendants, group, holds \in BOOLEAN : Forks(d, group, holds)
    \/ \E d \in Descendants : DescendantExits(d)
    \/ \E how \in {"exited", "failed"} : ProcessExits(how)
    \/ Writes

RunnerSpec == RunnerInit /\ [][RunnerNext]_runnerVars

-----------------------------------------------------------------------------
(* Properties *)

RunnerTypeOK ==
    /\ skillCall \in RunCalls \cup {NoCall}
    /\ runAt \in {"idle", "start", "limits", "wait", "returned"}
    /\ process \in {"none", "running", "exited", "failed", "killed"}
    /\ descendants \subseteq [id : Descendants, group : BOOLEAN, holds : BOOLEAN]
    /\ runCtx \in {"live", "deadline", "cancelled"} /\ watcher \in {"none", "waiting", "left"}
    /\ written \in 0..MaxWritten

\* A result says ok only if the process ended well in time with an output that
\* was kept whole, if it was to be parsed; and timeout only if the time was up.
RunResultIsTrue ==
    runAt = "returned" =>
        /\ runResult.status = "ok" =>
              /\ process = "exited" /\ ~runResult.late
              /\ skillCall.mode = "json" =>
                    ~runResult.cut /\ written \in {0, skillCall.document}
        /\ runResult.status = "timeout" => runResult.late
        /\ runResult.kept <= maxOutput(skillCall)

\* Once its group is killed a run waits only for processes that have left the
\* group and hold its output; an isolated one waits for none.
WaitsOnlyForEscaped ==
    runAt = "wait" /\ process # "running" /\ (watcher = "left" \/ skillCall.isolated) =>
        \A d \in descendants : d.holds => ~d.group /\ ~skillCall.isolated

\* An isolated run that has returned, however that came, leaves no process.
IsolatedLeavesNone ==
    runAt = "returned" /\ skillCall.isolated =>
        process # "running" /\ descendants = {}

RunEndsClean == RunResultIsTrue /\ WaitsOnlyForEscaped /\ IsolatedLeavesNone
=============================================================================
