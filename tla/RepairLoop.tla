------------------------------ MODULE RepairLoop ------------------------------
(***************************************************************************)
(* internal/tools/code/test_runner.go: tests that are run, output that is  *)
(* parsed, and the bounded loop that repairs what fails.  The loop keeps   *)
(* nothing between two calls: its state is what a call returns and the     *)
(* caller hands back with the next, with what became of the patch that was *)
(* proposed in between.  A caller may hand back less.                      *)
(*                                                                         *)
(* Output is a sequence of lines, of which only counts what they look like *)
(* to the parsers and what they name.                                      *)
(***************************************************************************)
EXTENDS Integers, FiniteSets, SequencesExt

CONSTANTS
    Projects,       \* what the detection finds in a workspace, sets of names
    AskedCommands,  \* the commands asked for, [name, first, second, shell]
    TestOutcomes,   \* how a test run may end, [exit, timedOut, lines]; a line
                    \* is what it is like to the parsers and what it names
    LoopLimit,      \* MaxIterations of the executor, 3 as it is configured
    Wanted,         \* the limits a caller may ask for
    OutputLimit,    \* the lines kept of an output
    ParsedLimit,    \* the failures parsed, 8 for all but Go
    ContextLimit,   \* failure_context_max: the failures handed back, 3 unless asked
    MaxRepairCalls  \* bound: calls of the loop

ASSUME RepairAssumption ==
    /\ LoopLimit \in Nat \ {0} /\ Wanted \subseteq Int
    /\ TestOutcomes \subseteq [exit : Int, timedOut : BOOLEAN,
                               lines : Seq([like : STRING, name : STRING])]
    /\ OutputLimit \in Nat \ {0} /\ MaxRepairCalls \in Nat
    /\ ParsedLimit \in Nat \ {0} /\ ContextLimit \in Nat \ {0}

VARIABLES
    project,        \* the workspace
    carried,        \* what the caller has in hand
    repaired,       \* the result of the last call
    repairs,
    executed_,      \* history: test runs since the loop began
    lastOutcome     \* history: how the last one ended

repairVars == <<project, carried, repaired, repairs, executed_, lastOutcome>>

NoResult == [reason |-> "none"]
NoOutcome == [exit |-> -2]
\* The state that is handed back: the test runs and the failures before, and
\* whether a patch was rejected; and whether the history was ever lost.
EmptyState == [runs |-> <<>>, history |-> <<>>, rejected |-> FALSE, lost |-> FALSE]

RepairInit ==
    /\ project \in Projects /\ carried = EmptyState /\ repaired = NoResult
    /\ repairs = 0 /\ executed_ = 0 /\ lastOutcome = NoOutcome

-----------------------------------------------------------------------------
(* The command *)

Simple(name, first) == [name |-> name, first |-> first, second |-> "", shell |-> FALSE]

\* detectTestCommands: in this order.
detectTestCommands(found) ==
    SelectSeq(<<Simple("go", "test"), Simple("npm", "test"), Simple("pytest", ""),
                Simple("cargo", "test"), Simple("make", "test")>>,
              LAMBDA c : c.name \in found)

\* validateTestCommand, with requireFirstArg.
validateTestCommand(c) ==
    /\ ~c.shell
    /\ \/ c.name \in {"go", "cargo", "make"} /\ c.first = "test"
       \/ c.name \in {"npm", "pnpm", "yarn"}
          /\ (c.first = "test" \/ (c.first = "run" /\ c.second = "test"))
       \/ c.name = "pytest"
       \/ c.name \in {"python", "python3"} /\ c.first = "-m" /\ c.second = "pytest"

\* testCommand: the one asked for, or the first that is detected.
NoCommand == [name |-> "", first |-> "", second |-> "", shell |-> FALSE]
testCommand(asked, found) ==
    IF asked # NoCommand THEN asked
    ELSE IF detectTestCommands(found) = <<>> THEN NoCommand
    ELSE Head(detectTestCommands(found))

languageFromCommand(c) ==
    CASE c.name = "go" -> "go"
      [] c.name \in {"pytest", "python", "python3"} -> "python"
      [] c.name \in {"npm", "pnpm", "yarn"} -> "javascript"
      [] c.name = "cargo" -> "rust"
      [] OTHER -> "unknown"

\* RunTestsExecutor: redacted, cut, and passed only if it ended well in time.
Cut(found, limit) == SubSeq(found, 1, IF Len(found) > limit THEN limit ELSE Len(found))
truncateBytes(lines) == Cut(lines, OutputLimit)
TestRun(c, o) ==
    [command |-> c, exit |-> IF o.timedOut THEN -1 ELSE o.exit,
     passed |-> o.exit = 0 /\ ~o.timedOut, lines |-> truncateBytes(o.lines)]

-----------------------------------------------------------------------------
(* The parsers *)

Failure(test, file_) == [test |-> test, file |-> file_]

\* The lines that look alike, in their order.
oneMore(like, acc, l) == IF l.like = like THEN Append(acc, l) ELSE acc
Lines(lines, like) ==
    FoldLeft(LAMBDA acc, l : oneMore(like, acc, l), <<>>, lines)
FirstName(lines) == IF lines = <<>> THEN "" ELSE Head(lines).name

\* parseGoFailures: a location goes to the test that failed last, and replaces
\* the one it had.
goLine(acc, l) ==
    IF l.like = "fail" THEN Append(acc, Failure(l.name, ""))
    ELSE IF l.like = "location" /\ acc # <<>> THEN [acc EXCEPT ![Len(acc)].file = l.name]
    ELSE acc
parseGoFailures(lines) == FoldLeft(goLine, <<>>, lines)

\* parsePythonFailures: every location, under the first title.
parsePythonFailures(lines) ==
    LET found == Cut(Lines(lines, "location"), ParsedLimit) IN
    [k \in DOMAIN found |-> Failure(FirstName(Lines(lines, "title")), found[k].name)]

\* parseNodeFailures: every failed file, at the first location.
parseNodeFailures(lines) ==
    LET found == Cut(Lines(lines, "fail"), ParsedLimit)
        at_ == FirstName(Lines(lines, "location"))
        test == FirstName(Lines(lines, "title"))
    IN  IF found = <<>> THEN IF at_ = "" THEN <<>> ELSE <<Failure(test, at_)>>
        ELSE [k \in DOMAIN found |-> Failure(test, IF at_ = "" THEN found[k].name ELSE at_)]

\* parseRustFailures: every panic says where.
parseRustFailures(lines) ==
    LET found == Cut(Lines(lines, "panic"), ParsedLimit) IN
    [k \in DOMAIN found |-> Failure(found[k].name, found[k].name)]

\* parseGenericFailures, with firstErrorLine: any line that is not blank.
parseGenericFailures(lines) ==
    IF \A k \in DOMAIN lines : lines[k].like = "blank" THEN <<>> ELSE <<Failure("", "")>>

ParseTestFailure(run) ==
    LET found == CASE languageFromCommand(run.command) = "go" -> parseGoFailures(run.lines)
                   [] languageFromCommand(run.command) = "python" -> parsePythonFailures(run.lines)
                   [] languageFromCommand(run.command) = "javascript" -> parseNodeFailures(run.lines)
                   [] languageFromCommand(run.command) = "rust" -> parseRustFailures(run.lines)
                   [] OTHER -> <<>>
    IN  [passed |-> run.exit = 0,
         failures |-> IF found = <<>> THEN parseGenericFailures(run.lines) ELSE found]

-----------------------------------------------------------------------------
(* The loop *)

\* A limit that is not positive, or too high, is replaced by the executor's.
clampIterations(wanted) == IF wanted <= 0 \/ wanted > LoopLimit THEN LoopLimit ELSE wanted

\* A mutant: runs that were handed back are not counted.
nextIterationAlone(said, runs) == IF said > 0 THEN said ELSE 1

\* The iteration the caller names, or the one after the runs it hands back.
nextIteration(said, runs) == IF said > 0 THEN said ELSE Len(runs) + 1

Result(reason, iteration, limit, runs, history, failures) ==
    [reason |-> reason, passed |-> reason = "tests_passed", iterations |-> iteration,
     limit |-> limit, runs |-> runs, history |-> history, failures |-> failures]

\* FixTestFailureLoopExecutor.Execute.
FixTestFailureLoop(asked, wanted, said) ==
    LET limit == clampIterations(wanted)
        iteration == nextIteration(said, carried.runs)
        c == testCommand(asked, project)
        stops == carried.rejected \/ iteration > limit
    IN  /\ repairs < MaxRepairCalls /\ repairs' = repairs + 1
        /\ \/ /\ stops
              /\ repaired' = Result(IF carried.rejected THEN "approval_rejected"
                                    ELSE "max_iterations_reached",
                                    Len(carried.runs), limit, carried.runs, carried.history, <<>>)
              /\ UNCHANGED <<executed_, lastOutcome>>
           \/ /\ ~stops /\ c # NoCommand /\ validateTestCommand(c)
              /\ \E o \in TestOutcomes :
                    LET run == TestRun(c, o)
                        runs == Append(carried.runs, run)
                        parsed == ParseTestFailure(run)
                    IN  /\ lastOutcome' = o /\ executed_' = executed_ + 1
                        /\ repaired' =
                             IF run.passed
                             THEN Result("tests_passed", iteration, limit, runs, carried.history, <<>>)
                             ELSE Result(IF iteration >= limit THEN "max_iterations_reached"
                                         ELSE "waiting_for_patch_proposal",
                                         iteration, limit, runs,
                                         Append(carried.history, parsed),
                                         Cut(parsed.failures, ContextLimit))
           \/ /\ ~stops /\ (c = NoCommand \/ ~validateTestCommand(c))
              /\ repaired' = [reason |-> "error"]
              /\ UNCHANGED <<executed_, lastOutcome>>
        /\ UNCHANGED <<project, carried>>

\* The caller hands back what it got, with the patch applied or rejected.  If
\* that is all of it, the last failures are taken for the history: of the two
\* names the first that is there counts.
HandBack(applied, all) ==
    /\ repaired.reason = "waiting_for_patch_proposal"
    /\ carried' = [runs |-> repaired.runs, rejected |-> ~applied,
                   history |-> IF all THEN repaired.failures ELSE repaired.history,
                   lost |-> carried.lost \/ all]
    /\ repaired' = NoResult
    /\ UNCHANGED <<project, repairs, executed_, lastOutcome>>

\* It begins anew, with nothing in hand.
BeginAnew ==
    /\ repaired.reason \notin {"none", "waiting_for_patch_proposal"}
    /\ carried' = EmptyState /\ repaired' = NoResult
    /\ executed_' = 0 /\ lastOutcome' = NoOutcome
    /\ UNCHANGED <<project, repairs>>

RepairNext ==
    \/ repaired = NoResult /\ \E asked \in AskedCommands \cup {NoCommand}, wanted \in Wanted :
          FixTestFailureLoop(asked, wanted, 0)
    \/ repaired = NoResult /\ FixTestFailureLoop(NoCommand, LoopLimit, Len(carried.runs) + 1)
    \/ \E applied, all \in BOOLEAN : HandBack(applied, all)
    \/ BeginAnew

RepairSpec == RepairInit /\ [][RepairNext]_repairVars

-----------------------------------------------------------------------------
(* Properties *)

RepairTypeOK ==
    /\ project \in Projects /\ repairs \in 0..MaxRepairCalls /\ executed_ \in 0..MaxRepairCalls
    /\ repaired.reason \in {"none", "error", "tests_passed", "approval_rejected",
                            "max_iterations_reached", "waiting_for_patch_proposal"}
    /\ Len(carried.runs) <= MaxRepairCalls

\* The tests of one loop are run at most as often as its limit says, never
\* after a patch was rejected, and the loop asks for another patch only when
\* its tests may be run again.
LoopIsBounded ==
    /\ executed_ <= LoopLimit
    /\ carried.rejected => Len(carried.runs) = executed_
    /\ repaired.reason = "waiting_for_patch_proposal" => repaired.iterations < repaired.limit
    /\ repaired.reason = "max_iterations_reached" => repaired.iterations >= repaired.limit

\* The loop says that the tests passed if the last run did, and hands back
\* every run, with what each that failed was parsed to, if only this history
\* was handed to it.
LoopTellsTheTruth ==
    repaired.reason \notin {"none", "error"} =>
        /\ repaired.passed => lastOutcome.exit = 0 /\ ~lastOutcome.timedOut
        /\ Len(repaired.runs) = executed_
        /\ ~carried.lost => Len(repaired.history) = 
             Cardinality({k \in DOMAIN repaired.runs : ~repaired.runs[k].passed})

\* Of a test that failed in line k, line l is the last that says where.
Locates(lines, k, l) ==
    /\ k < l /\ lines[l].like = "location" /\ \A m \in k+1..l : lines[m].like # "fail"
    /\ \A m \in l+1..Len(lines) : lines[m].like = "location" => \E i \in l+1..m : lines[i].like = "fail"

\* A run that failed and said anything has a failure to repair; and the tests
\* that Go reports as failed are the failures, as many as are handed back, each
\* with the last location that follows it before the next one.
FailuresAreFound ==
    repaired.reason = "waiting_for_patch_proposal" =>
        LET run == Last(repaired.runs)
            failed == {k \in DOMAIN run.lines : run.lines[k].like = "fail"}
        IN  /\ (\E k \in DOMAIN run.lines : run.lines[k].like # "blank") => repaired.failures # <<>>
            /\ run.command.name = "go" /\ failed # {} =>
                 /\ Len(repaired.failures) = IF Cardinality(failed) > ContextLimit THEN ContextLimit
                                             ELSE Cardinality(failed)
                 /\ \A k \in failed : \E f \in Range(Last(repaired.history).failures) :
                      /\ f.test = run.lines[k].name
                      /\ \A l \in DOMAIN run.lines : Locates(run.lines, k, l) => f.file = run.lines[l].name

\* The repair loop is bounded, truthful, and has something to repair.
RepairIsSound == LoopIsBounded /\ LoopTellsTheTruth /\ FailuresAreFound
=============================================================================
