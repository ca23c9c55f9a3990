------------------------------- MODULE Planner -------------------------------
(***************************************************************************)
(* internal/agent/planner with hybrid_planner.go and planner.go: what is   *)
(* proposed for one message, from the routing of the conversation to the   *)
(* end of the chain of tools that follow from each other's results.        *)
(*                                                                         *)
(* A message is what the normalizer and the word lists find in it.  The    *)
(* model may answer anything, and a tool is scored as the text falls: the  *)
(* candidates are any tools of the catalog in any order.  What happens to  *)
(* a proposal (module ToolGate) and the run it belongs to (AgentRuntime)   *)
(* are left to their modules; here a tool succeeds, or the run ends.       *)
(***************************************************************************)
EXTENDS Naturals, SequencesExt

CONSTANTS
    PlannerConfigs,     \* the configurations, a set of PlannerConfig
    Catalog,            \* the tools of the catalog, in their order
    TopK,               \* the candidates shown at most
    RouterRetries, PlanRetries

ASSUME PlannerAssumption ==
    /\ PlannerConfigs # {} /\ Catalog \in Seq(ToSet(Catalog))
    /\ TopK \in Nat \ {0} /\ RouterRetries \in Nat /\ PlanRetries \in Nat

CatalogTools == ToSet(Catalog)

VARIABLES
    config, message,
    plpc,               \* the stage of planning
    attempts,           \* of the model, at this stage
    route,
    candidates,
    plan,               \* what is proposed or answered
    wants,              \* what else the message asks for
    modelCalls,         \* history: calls of the model in this pass
    named,              \* history: the tool the model named
    chain               \* history: the tools that have run

plannerHistory == <<modelCalls, named, chain>>
plannerVars == <<config, message, plpc, attempts, route, candidates, plan, wants,
                 plannerHistory>>

PlannerModes == {"heuristic", "semantic", "hybrid", "semantic_strict"}
PlannerConfig ==
    [mode : PlannerModes, requireLLM : BOOLEAN, allowCross : BOOLEAN,
     asContext : BOOLEAN, semantic : BOOLEAN,
     router : {"off", "lightweight", "llm"}]

\* NormalizeConfig: what a mode implies.
Strict(c) == c.mode = "semantic_strict"
RequireLLM(c) == Strict(c) \/ c.requireLLM
AllowFallback(c) == ~Strict(c) /\ ~c.requireLLM
\* newConversationRouter: strict mode turns a router on, a lightweight one if
\* none is named; no router at all is the lightweight one too.
RoutedByModel(c) == c.router = "llm"

\* A tool the catalog does not know, and no tool.
Foreign == "foreign.tool"
NoName == "none"
\* The tools the planner never selects.
Blocked == {"mcp.call_tool", "skill.run"}
PlanTools == CatalogTools \cup
    {"code.validate_patch", "code.apply_patch", "code.run_tests",
     "code.parse_test_failure", "ops.local.processes"}

\* Normalize, Classify and the word lists: an explicit tool id; whether there
\* is a structured slot or a local operation; whether a shell is mentioned.
Messages == {m \in [empty : BOOLEAN, explicit : CatalogTools \cup {Foreign, NoName},
                    local : BOOLEAN, shell : BOOLEAN] :
    /\ m.empty => m.explicit = NoName /\ ~m.local /\ ~m.shell
    /\ m.explicit # NoName \/ m.shell => m.local
    /\ m.explicit = "shell.exec" => m.shell}
NoMessage == [empty |-> TRUE, explicit |-> NoName, local |-> FALSE, shell |-> FALSE]

\* A step of a plan: whether its input passes the schema, the slots, the path
\* and the secret checks, and whether its command is in the message.
PlanStep == [tool : CatalogTools \cup {Foreign}, sound : BOOLEAN, quoted : BOOLEAN]
\* A semantic plan: its first step, and whether the steps after it pass too.
ToolPlans == [decision : {"tool"}, step : PlanStep, rest : BOOLEAN]
OtherPlans == [decision : {"no_tool", "clarify", "capability_limitation", "answer", "invalid"}]

Decisions == {"none", "runner", "clarify", "capability_limitation", "tool", "stop", "failed"}
Decided(decision) == [decision |-> decision, tool |-> NoName, quoted |-> FALSE]
Proposed(tool, quoted) == [decision |-> "tool", tool |-> tool, quoted |-> quoted]

PlannerTypeOK ==
    /\ config \in PlannerConfigs /\ message \in Messages
    /\ plpc \in {"idle", "route", "select", "choose", "plan", "tool", "end"}
    /\ attempts \in 0..(RouterRetries + PlanRetries)
    /\ route \in {"none", "direct_answer", "tool_needed", "clarify"}
    /\ candidates \in Seq(CatalogTools)
    /\ plan \in [decision : Decisions, tool : PlanTools \cup {NoName}, quoted : BOOLEAN]
    /\ wants \subseteq {"tests", "apply", "validate", "execute"}
    /\ modelCalls \in Nat /\ named \in CatalogTools \cup {Foreign, NoName}
    /\ chain \in Seq(PlanTools)

PlannerInit ==
    /\ config = CHOOSE c \in PlannerConfigs : TRUE
    /\ message = NoMessage /\ plpc = "idle"
    /\ attempts = 0 /\ route = "none"
    /\ candidates = <<>> /\ plan = Decided("none") /\ wants = {}
    /\ modelCalls = 0 /\ named = NoName /\ chain = <<>>

-----------------------------------------------------------------------------
(* The route *)

\* The lightweight router.
Lightweight(m) ==
    IF m.empty THEN "clarify" ELSE IF m.local THEN "tool_needed" ELSE "direct_answer"

\* Where a route leads.
Routed(r) ==
    /\ route' = r
    /\ attempts' = 0
    /\ plan' = CASE r = "direct_answer" -> Decided("runner")
                 [] r = "clarify" -> Decided("clarify")
                 [] OTHER -> plan
    /\ plpc' = IF r = "tool_needed" THEN "select" ELSE "end"

PlanFails == plan' = Decided("failed") /\ plpc' = "end" /\ attempts' = 0

AskPlanner ==
    /\ plpc = "idle"
    /\ config' \in PlannerConfigs
    /\ message' \in Messages
    /\ IF RoutedByModel(config')
       THEN plpc' = "route" /\ UNCHANGED <<attempts, route, plan>>
       ELSE Routed(Lightweight(message'))
    /\ UNCHANGED <<candidates, wants, plannerHistory>>

\* LLMConversationRouter: a reply that is no route is asked for again; after
\* the last, or an error, the fallback decides, which ValidatePlannerConfig
\* wants to be the lightweight router.
RouteReply ==
    /\ plpc = "route"
    /\ modelCalls' = modelCalls + 1
    /\ \/ \E r \in {"direct_answer", "tool_needed", "clarify"} : Routed(r)
       \/ /\ attempts < RouterRetries
          /\ attempts' = attempts + 1
          /\ UNCHANGED <<plpc, route, plan>>
       \/ Routed(Lightweight(message))
    /\ UNCHANGED <<config, message, candidates, wants, named, chain>>

-----------------------------------------------------------------------------
(* The candidates *)

\* An explicit tool is the only one with a score; strict mode may show the
\* whole catalog instead of the best.
Selection ==
    IF Strict(config) /\ ~config.asContext THEN {Catalog}
    ELSE IF message.explicit # NoName
         THEN {IF message.explicit \in CatalogTools THEN <<message.explicit>> ELSE <<>>}
         ELSE {<<>>} \cup {s \in UNION {[1..n -> CatalogTools] : n \in 1..TopK} :
                              Cardinality(ToSet(s)) = Len(s)}

selectCandidates ==
    /\ plpc = "select"
    /\ candidates' \in Selection
    /\ plpc' = "choose"
    /\ UNCHANGED <<config, message, attempts, route, plan, wants, plannerHistory>>

-----------------------------------------------------------------------------
(* Validation and compilation *)

\* A tool of the catalog, of the candidates unless that is not required, and a
\* shell only if the message asks for one.
validateStep(step) ==
    /\ step.tool \in CatalogTools \ Blocked
    /\ config.allowCross \/ (~Strict(config) /\ candidates = <<>>)
         \/ step.tool \in ToSet(candidates)
    /\ step.tool = "shell.exec" => message.shell \/ step.quoted
    /\ step.sound

\* compileValid: the first step of a plan all steps of which are valid is
\* proposed; the steps after it are dropped.  Anything else is a question.
compileValid(p, source) ==
    /\ plan' =
        CASE p.decision = "tool" ->
               IF /\ RequireLLM(config) => source \in {"semantic_llm", "explicit_tool"}
                  /\ validateStep(p.step) /\ p.rest
               THEN Proposed(p.step.tool, p.step.quoted) ELSE Decided("clarify")
          [] p.decision = "no_tool" -> Decided("runner")
          [] p.decision = "capability_limitation" -> Decided("capability_limitation")
          [] OTHER -> Decided("clarify")
    /\ plpc' = IF plan'.decision = "tool" THEN "tool" ELSE "end"
    /\ attempts' = 0

Clarify == [decision |-> "clarify"]

\* PlanFromCandidates: the first of them, its input from its examples, its
\* defaults and the slots of the message.
PlanFromCandidates(tools, source) ==
    IF tools = <<>> THEN compileValid(Clarify, source)
    ELSE \E sound \in BOOLEAN, quoted \in BOOLEAN :
           compileValid([decision |-> "tool", rest |-> TRUE,
                         step |-> [tool |-> Head(tools), sound |-> sound, quoted |-> quoted]],
                        source)

\* A mutant: the explicit tool is taken to be the first candidate.
explicitCandidatesFirst(tools) == tools

explicitCandidates(tools) ==
    IF message.explicit \in ToSet(tools) THEN <<message.explicit>> ELSE <<>>

\* An explicit tool, or the local choice when the model is not to be asked.
Choose ==
    /\ plpc = "choose"
    /\ IF message.explicit # NoName
       THEN PlanFromCandidates(explicitCandidates(candidates), "explicit_tool")
       ELSE IF config.mode # "heuristic" /\ config.semantic
       THEN plpc' = "plan" /\ UNCHANGED <<attempts, plan>>
       ELSE IF AllowFallback(config) THEN PlanFromCandidates(candidates, "candidate_fallback")
       ELSE compileValid(Clarify, "clarify")
    /\ UNCHANGED <<config, message, route, candidates, wants, plannerHistory>>

\* LLMSemanticPlanner: a plan; or something that is none, which is asked for
\* again and then left to the fallback; or an error, which fails the run.
PlanReply ==
    /\ plpc = "plan"
    /\ modelCalls' = modelCalls + 1
    /\ \/ \E p \in ToolPlans : named' = p.step.tool /\ compileValid(p, "semantic_llm")
       \/ \E p \in OtherPlans : compileValid(p, "semantic_llm") /\ UNCHANGED named
       \/ /\ attempts < PlanRetries
          /\ attempts' = attempts + 1
          /\ UNCHANGED <<plpc, plan, named>>
       \/ /\ attempts = PlanRetries
          /\ IF AllowFallback(config)
             THEN PlanFromCandidates(candidates, "candidate_fallback")
             ELSE compileValid(Clarify, "tool_planner_unavailable")
          /\ UNCHANGED named
       \/ PlanFails /\ UNCHANGED named
    /\ UNCHANGED <<config, message, route, candidates, wants, chain>>

-----------------------------------------------------------------------------
(* After a tool *)

\* A mutant: parsed failures lead back to the tests.
planAfterToolAgain(tool, passed, asked) ==
    CASE tool \in {"code.inspect_project", "code.parse_test_failure"} -> {"code.run_tests"}
      [] tool = "code.run_tests" /\ ~passed -> {"code.parse_test_failure"}
      [] OTHER -> {NoName}

\* The tools that may follow a tool: whether an applied patch is tested also
\* depends on there being a workspace in the message, and whether a step of a
\* runbook runs on its having one that maps to a tool.
planAfterTool(tool, passed, asked) ==
    CASE tool = "runbook.plan" /\ "execute" \in asked -> {"ops.local.processes", NoName}
      [] tool = "code.run_tests" /\ ~passed -> {"code.parse_test_failure"}
      [] tool = "code.read_file" /\ "validate" \in asked -> {"code.validate_patch"}
      [] tool = "code.read_file" /\ asked \cap {"apply", "validate"} = {"apply"} -> {"code.apply_patch"}
      [] tool = "code.inspect_project" /\ "tests" \in asked -> {"code.run_tests"}
      [] tool = "code.apply_patch" ->
            {"code.run_tests"} \cup (IF "tests" \in asked THEN {} ELSE {NoName})
      [] OTHER -> {NoName}

\* The tool has run: the next one is proposed, past route, candidates and
\* validator, or the run stops.  What else the message asks for is looked at
\* here for the first time.
AfterTool ==
    /\ plpc = "tool"
    /\ chain' = Append(chain, plan.tool)
    /\ wants' \in IF chain = <<>> THEN SUBSET {"tests", "apply", "validate", "execute"}
                                  ELSE {wants}
    /\ \E passed \in BOOLEAN :
       \E next \in planAfterTool(plan.tool, passed, wants') :
         IF next = NoName THEN plan' = Decided("stop") /\ plpc' = "end"
         ELSE plan' = Proposed(next, FALSE) /\ UNCHANGED plpc
    /\ UNCHANGED <<config, message, attempts, route, candidates, modelCalls, named>>

PlannerNext ==
    AskPlanner \/ RouteReply \/ selectCandidates \/ Choose \/ PlanReply \/ AfterTool

PlannerSpec == PlannerInit /\ [][PlannerNext]_plannerVars

-----------------------------------------------------------------------------
(* Properties *)

\* In strict mode a first tool is one the user has named or the model has
\* chosen, from those it was shown, whatever the model answered before, how
\* often it was asked, and whichever way the candidates came to be.
StrictChoice ==
    Strict(config) /\ plan.decision = "tool" /\ chain = <<>> =>
        \/ plan.tool = message.explicit
        \/ plan.tool = named /\ (config.allowCross \/ plan.tool \in ToSet(candidates))

\* In no mode does the first tool come from outside the catalog, is it one that
\* is never selected, or a shell to a message that neither mentions one nor has
\* its command in it; nor is a tool proposed off the route to the tools.
ProposalAllowed ==
    plan.decision = "tool" /\ chain = <<>> =>
        /\ route = "tool_needed"
        /\ plan.tool \in CatalogTools \ Blocked
        /\ plan.tool = "shell.exec" => message.shell \/ plan.quoted

\* The first tool is one the user could want, by the rules of the mode.
FirstToolIsFair == StrictChoice /\ ProposalAllowed

\* Planning comes to an end by itself, the limit on the steps of a run apart:
\* so many calls of the model, and no tool runs twice for a message.
PlanningEnds ==
    /\ modelCalls <= RouterRetries + PlanRetries + 2
    /\ IsInjective(chain) /\ Len(chain) <= 4

\* Both: the planning of a message begins fairly and ends.
PlanningIsSound == FirstToolIsFair /\ PlanningEnds

=============================================================================
