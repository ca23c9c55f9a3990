-------------------------------- MODULE Evals --------------------------------
(***************************************************************************)
(* internal/evals: the store of eval cases, a file per case, which is      *)
(* edited under a lock and listed without it; the suite that lists the     *)
(* cases and judges one after the other against mocked tools; and the      *)
(* replay of a run as a case of its own.                                   *)
(*                                                                         *)
(* A tool stands for what the policy (module ToolGate) makes of it:        *)
(*   read      runs without a person       answer   so does kb.answer, and *)
(*                                                  cites                  *)
(*   write     needs approval              denied   is refused             *)
(***************************************************************************)
EXTENDS Naturals, FiniteSets, SequencesExt

CONSTANTS
    EvalIds,        \* ids of cases, numbers: cases are sorted by them
    EvalCases,      \* the contents of cases, a set of EvalCase
    EvalModes,      \* the approval modes asked for
    SourceRuns,     \* the runs to be replayed, a set of SourceRun
    EvalSteps,      \* the limit on the steps of a case
    MaxEvalEdits,   \* bound: edits of the cases
    MaxEvalFaults   \* bound: failed writes and deaths of the process

EvalTools == {"read", "answer", "write", "denied"}
Tristate == {"unset", "yes", "no"}

\* A case: the tools the planner proposes one after the other for its input,
\* and what is expected and forbidden.
EvalCase == [plan : Seq(EvalTools), tools : SUBSET EvalTools, sequence : Seq(EvalTools),
             approval : Tristate, refusal : Tristate, citation : Tristate,
             sources : BOOLEAN, forbidden : SUBSET EvalTools]

\* A finished run: what was proposed, whether it asked, whether its message
\* holds a secret, and what the planner proposes for that message today.
SourceRun == [tools : Seq(EvalTools), approvals : BOOLEAN, secret : BOOLEAN,
              plan : Seq(EvalTools)]

ASSUME EvalAssumption ==
    /\ EvalIds \subseteq Nat /\ EvalCases \subseteq EvalCase /\ SourceRuns \subseteq SourceRun
    /\ EvalModes \subseteq {"reject_all_writes", "approve_expected_writes", "auto_approve_readonly"}
    /\ EvalSteps \in Nat \ {0} /\ MaxEvalEdits \in Nat /\ MaxEvalFaults \in Nat

\* Two of the five categories, each a directory, in the order they are walked.
Categories == <<"chat", "code">>

VARIABLES
    caseFiles,      \* [category -> [id -> content]]
    edit,           \* what the holder of the lock is to write, and where
    suite,          \* the suite or the replay in progress
    saved,          \* the run or the replay that was saved, and that ends the model
    evalEdits, evalFaults,
    touched         \* history: cases somebody edited since the suite began

evalVars == <<caseFiles, edit, suite, saved, evalEdits, evalFaults, touched>>

NoCase == [state |-> "absent"]
Torn == [state |-> "torn"]
Written(c) == [state |-> "written", case |-> c]
CaseFiles == {NoCase, Torn} \cup [state : {"written"}, case : EvalCases]

NoEdit == [stage |-> "none"]
NoSuite == [stage |-> "idle"]

\* What is recorded of a case while it is judged.
Fresh(id, c) == [id |-> id, case |-> c, step |-> 0, pos |-> 0, calls |-> <<>>,
                 asked |-> FALSE, ran |-> {}, refused |-> FALSE, cited |-> FALSE]

EvalInit ==
    /\ caseFiles \in [ToSet(Categories) -> [EvalIds -> {NoCase} \cup {Written(c) : c \in EvalCases}]]
    /\ \A i \in EvalIds : caseFiles[Categories[2]][i] = NoCase
    /\ edit = NoEdit /\ suite = NoSuite
    /\ saved = NoSuite
    /\ evalEdits = 0 /\ evalFaults = 0 /\ touched = {}

-----------------------------------------------------------------------------
(* The store of cases *)

\* A file that does not parse fails every listing.
Listable == \A d \in DOMAIN caseFiles, i \in EvalIds : caseFiles[d][i] # Torn

\* GetCase: a case of the id; ids are unique in a category only.
CategoriesOf(id) == {d \in DOMAIN caseFiles : caseFiles[d][id].state = "written"}

Edits(id) ==
    /\ edit = NoEdit /\ saved = NoSuite
    /\ evalEdits < MaxEvalEdits /\ evalEdits' = evalEdits + 1
    /\ touched' = touched \cup {id}
    /\ UNCHANGED <<suite, saved, evalFaults>>

CreateCase(id, d, c) ==
    /\ Edits(id)
    /\ caseFiles[d][id] = NoCase
    /\ edit' = [stage |-> "write", category |-> d, id |-> id, case |-> c]
    /\ UNCHANGED caseFiles

\* A case that changes its category is removed before it is written.
UpdateCase(id, d, c) ==
    /\ Edits(id) /\ Listable
    /\ \E old \in CategoriesOf(id) :
          caseFiles' = IF old = d THEN caseFiles ELSE [caseFiles EXCEPT ![old][id] = NoCase]
    /\ edit' = [stage |-> "write", category |-> d, id |-> id, case |-> c]

DeleteCase(id) ==
    /\ Edits(id) /\ Listable
    /\ \E old \in CategoriesOf(id) : caseFiles' = [caseFiles EXCEPT ![old][id] = NoCase]
    /\ UNCHANGED edit

\* os.WriteFile: the file is emptied, then filled, and either may fail.
WriteCase ==
    /\ edit.stage = "write"
    /\ caseFiles' = [caseFiles EXCEPT ![edit.category][edit.id] = Torn]
    /\ edit' = [edit EXCEPT !.stage = "fill"]
    /\ UNCHANGED <<suite, saved, evalEdits, evalFaults, touched>>

FillCase ==
    /\ edit.stage = "fill"
    /\ caseFiles' = [caseFiles EXCEPT ![edit.category][edit.id] = Written(edit.case)]
    /\ edit' = NoEdit
    /\ UNCHANGED <<suite, saved, evalEdits, evalFaults, touched>>

WriteCaseFails ==
    /\ edit.stage \in {"write", "fill"}
    /\ evalFaults < MaxEvalFaults /\ evalFaults' = evalFaults + 1
    /\ edit' = NoEdit
    /\ UNCHANGED <<caseFiles, suite, saved, evalEdits, touched>>

\* The process dies and starts again: the files are all that is left.
EvalDies ==
    /\ evalFaults < MaxEvalFaults /\ evalFaults' = evalFaults + 1
    /\ edit' = NoEdit /\ suite' = NoSuite
    /\ UNCHANGED <<caseFiles, saved, evalEdits, touched>>

-----------------------------------------------------------------------------
(* A suite: ListCases *)

\* A suite over the cases whose ids are wanted, in one approval mode.
RunSuite(mode, wanted) ==
    /\ suite = NoSuite /\ saved = NoSuite
    /\ suite' = [stage |-> "dir", kind |-> "suite", mode |-> mode, wanted |-> wanted,
                 dirs |-> Categories, names |-> {}, listed |-> <<>>, results |-> <<>>]
    /\ touched' = IF edit = NoEdit THEN {} ELSE {edit.id}
    /\ UNCHANGED <<caseFiles, edit, saved, evalEdits, evalFaults>>

\* sort.Slice by id, in the ways it may put cases of one id.
ById(cases) ==
    LET orders == {p \in [DOMAIN cases -> DOMAIN cases] : \A k \in DOMAIN cases : \E j \in DOMAIN cases : p[j] = k}
    IN  {s \in {[k \in DOMAIN cases |-> cases[p[k]]] : p \in orders} :
            \A j, k \in DOMAIN cases : j < k => s[j].id <= s[k].id}

\* The names in the next directory; after the last one the cases are sorted,
\* and a suite without cases is an error.
WalkDir ==
    /\ suite.stage = "dir"
    /\ IF suite.dirs # <<>>
       THEN suite' = [suite EXCEPT !.stage = "files",
                        !.names = {i \in EvalIds : caseFiles[Head(suite.dirs)][i] # NoCase}]
       ELSE IF suite.listed = <<>> THEN suite' = NoSuite
       ELSE \E sorted \in ById(suite.listed) :
               suite' = [suite EXCEPT !.stage = "judge", !.listed = sorted]
    /\ UNCHANGED <<caseFiles, edit, saved, evalEdits, evalFaults, touched>>

\* One file: gone or torn by now, it fails the listing.
ReadCase ==
    /\ suite.stage = "files"
    /\ IF suite.names = {}
       THEN suite' = [suite EXCEPT !.stage = "dir", !.dirs = Tail(@)]
       ELSE LET i == CHOOSE n \in suite.names : \A m \in suite.names : n <= m
                f == caseFiles[Head(suite.dirs)][i]
            IN  suite' = IF f.state # "written" THEN NoSuite
                         ELSE [suite EXCEPT !.names = @ \ {i},
                               !.listed = IF i \in suite.wanted
                                          THEN Append(@, Fresh(i, f.case)) ELSE @]
    /\ UNCHANGED <<caseFiles, edit, saved, evalEdits, evalFaults, touched>>

-----------------------------------------------------------------------------
(* runCase *)

\* A mutant: an expected tool is approved in every mode.
shouldApproveInEvalAlways(mode, c, tool) == tool \in c.tools \cup ToSet(c.sequence)

shouldApproveInEval(mode, c, tool) ==
    /\ mode = "approve_expected_writes"
    /\ tool \in c.tools \cup ToSet(c.sequence)

\* mergeToolOutput of a mocked tool: kb.answer cites the expected sources, and
\* refuses if that is expected or it has to cite and cannot.
Mocked(r, tool) ==
    [r EXCEPT !.ran = @ \cup {tool}, !.pos = @ + 1,
              !.cited = @ \/ (tool = "answer" /\ r.case.sources),
              !.refused = @ \/ (tool = "answer" /\
                  (r.case.refusal = "yes" \/ (r.case.citation = "yes" /\ ~r.case.sources)))]

\* One proposal.  What is not approved leaves no result, and so the input is
\* planned anew, from its first tool.
proposeInEval(r, mode) ==
    LET tool == r.case.plan[r.pos + 1]
        called == [r EXCEPT !.step = @ + 1, !.calls = Append(@, tool)]
    IN  CASE tool = "denied" -> [called EXCEPT !.refused = TRUE, !.pos = @ + 1]
          [] tool = "write" ->
                IF shouldApproveInEval(mode, r.case, tool)
                THEN Mocked([called EXCEPT !.asked = TRUE], tool)
                ELSE [called EXCEPT !.asked = TRUE, !.pos = 0]
          [] OTHER -> Mocked(called, tool)

Judging == suite.listed[1]

ProposeInEval ==
    /\ suite.stage = "judge"
    /\ Judging.step < EvalSteps /\ Judging.pos < Len(Judging.case.plan)
    /\ suite' = [suite EXCEPT !.listed[1] = proposeInEval(@, suite.mode)]
    /\ UNCHANGED <<caseFiles, edit, saved, evalEdits, evalFaults, touched>>

\* Unset, or as expected.
As(expected, actual) == expected # "unset" => (expected = "yes") = actual

\* assertCase, but for the assertions on texts, risks and profiles.
assertionsPassed(r) ==
    /\ r.case.tools \subseteq ToSet(r.calls)
    /\ IsPrefix(r.case.sequence, r.calls)
    /\ As(r.case.approval, r.asked) /\ As(r.case.refusal, r.refused) /\ As(r.case.citation, r.cited)
    /\ r.case.sources => r.cited
    /\ r.case.forbidden \cap ToSet(r.calls) = {}

\* The case is over: its plan has come to its end, or its steps have.
\* The assertions left out hold or fail.
AssertCase ==
    /\ suite.stage = "judge" /\ suite.kind = "suite"
    /\ Judging.step = EvalSteps \/ Judging.pos = Len(Judging.case.plan)
    /\ \E others \in BOOLEAN :
         suite' = [suite EXCEPT
            !.results = Append(@, [judged |-> Judging,
                status |-> IF others /\ assertionsPassed(Judging) THEN "passed" ELSE "failed"]),
            !.listed = Tail(@),
            !.stage = IF Len(suite.listed) = 1 THEN "report" ELSE "judge"]
    /\ UNCHANGED <<caseFiles, edit, saved, evalEdits, evalFaults, touched>>

Count(results, status) == Cardinality({k \in DOMAIN results : results[k].status = status})

\* The counts and the status of a run.  Its report is saved before it; if either
\* fails, the run is not there.
SaveRun ==
    /\ suite.stage = "report"
    /\ \/ saved' = [stage |-> "run", mode |-> suite.mode, wanted |-> suite.wanted,
                    results |-> suite.results,
                    passed |-> Count(suite.results, "passed"),
                    failed |-> Count(suite.results, "failed"),
                    status |-> IF Count(suite.results, "failed") > 0 THEN "failed" ELSE "passed"]
          /\ UNCHANGED evalFaults
       \/ evalFaults < MaxEvalFaults /\ evalFaults' = evalFaults + 1 /\ UNCHANGED saved
    /\ suite' = NoSuite
    /\ UNCHANGED <<caseFiles, edit, evalEdits, touched>>

-----------------------------------------------------------------------------
(* ReplayRun *)

\* behaviorReplay: the run is a case that expects what it did; a message with a
\* secret in it is not run at all.
ReplayRun(s, compareTools, compareApprovals) ==
    /\ suite = NoSuite /\ saved = NoSuite
    /\ LET c == [plan |-> IF s.secret THEN <<>> ELSE s.plan, tools |-> {}, sequence |-> s.tools,
                 approval |-> IF s.approvals THEN "yes" ELSE "no", refusal |-> "unset",
                 citation |-> "unset", sources |-> FALSE, forbidden |-> {}]
       IN  suite' = [stage |-> "judge", kind |-> "replay", mode |-> "reject_all_writes",
                     source |-> s, compareTools |-> compareTools,
                     compareApprovals |-> compareApprovals, listed |-> <<Fresh(0, c)>>]
    /\ UNCHANGED <<caseFiles, edit, saved, evalEdits, evalFaults, touched>>

\* The differences that were to be looked for decide, not the assertions.
SaveReplay ==
    /\ suite.stage = "judge" /\ suite.kind = "replay"
    /\ Judging.step = EvalSteps \/ Judging.pos = Len(Judging.case.plan)
    /\ saved' = [stage |-> "replay", judged |-> Judging, source |-> suite.source,
         status |-> IF \/ suite.compareTools /\ suite.source.tools # Judging.calls
                       \/ suite.compareApprovals /\ suite.source.approvals # Judging.asked
                    THEN "failed" ELSE "passed"]
    /\ suite' = NoSuite
    /\ UNCHANGED <<caseFiles, edit, evalEdits, evalFaults, touched>>

EvalNext ==
    \/ \E id \in EvalIds, d \in ToSet(Categories), c \in EvalCases :
          CreateCase(id, d, c) \/ UpdateCase(id, d, c)
    \/ \E id \in EvalIds : DeleteCase(id)
    \/ WriteCase \/ FillCase \/ WriteCaseFails \/ EvalDies
    \/ \E mode \in EvalModes, wanted \in SUBSET EvalIds : RunSuite(mode, wanted)
    \/ WalkDir \/ ReadCase \/ ProposeInEval \/ AssertCase \/ SaveRun
    \/ \E s \in SourceRuns, t \in BOOLEAN, a \in BOOLEAN : ReplayRun(s, t, a)
    \/ SaveReplay

EvalSpec == EvalInit /\ [][EvalNext]_evalVars

-----------------------------------------------------------------------------
(* Properties *)

EvalTypeOK ==
    /\ caseFiles \in [ToSet(Categories) -> [EvalIds -> CaseFiles]]
    /\ edit.stage \in {"none", "write", "fill"}
    /\ suite.stage \in {"idle", "dir", "files", "judge", "report"}
    /\ saved.stage \in {"idle", "run", "replay"}
    /\ evalEdits \in 0..MaxEvalEdits /\ evalFaults \in 0..MaxEvalFaults
    /\ touched \subseteq EvalIds

\* What runs where tools are judged: nothing that needs approval, unless the
\* mode approves what is expected and the case expects it; and nothing denied.
SafeMode(r, mode) ==
    /\ "denied" \notin r.ran
    /\ "write" \in r.ran => /\ mode = "approve_expected_writes"
                            /\ "write" \in r.case.tools \cup ToSet(r.case.sequence)

\* A saved run tells the truth: every case that was wanted and that nobody
\* edited meanwhile was judged; it passed only if every case did what it was
\* expected to do; and nothing ran in a case, or in a replay, that safe mode
\* keeps from running, however often its plan was begun anew.
SuiteIsFaithful ==
    /\ saved.stage = "run" =>
        /\ \A i \in saved.wanted \ touched :
              (\E d \in DOMAIN caseFiles : caseFiles[d][i] # NoCase) =>
                  \E k \in DOMAIN saved.results : saved.results[k].judged.id = i
        /\ saved.status = "passed" =>
              \A k \in DOMAIN saved.results :
                 LET r == saved.results[k].judged
                 IN  r.case.tools \subseteq ToSet(r.calls) /\ r.case.forbidden \cap ToSet(r.calls) = {}
        /\ \A k \in DOMAIN saved.results : SafeMode(saved.results[k].judged, saved.mode)
    /\ saved.stage = "replay" => SafeMode(saved.judged, "reject_all_writes")

=============================================================================
