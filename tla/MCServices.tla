----------------------------- MODULE MCServices ------------------------------
(***************************************************************************)
(* The services that share no state with each other, checked in one run:   *)
(* a behaviour is one of the service it begins with, and the others stay   *)
(* in their initial states.                                                *)
(***************************************************************************)
EXTENDS ToolGate, MemoryStore, SkillManager, CodeDiff, CodePatch, Planner,
        Evals, Ops, Startup, Retrieval, RunStore, VectorBackends, RepairLoop,
        Workspace, GitTool, SkillRunner

Holds(text, symbol, binary) == [text |-> text, symbol |-> symbol, binary |-> binary]

VARIABLE active     \* the service whose behaviour this is

ServicesVars == <<gateVars, memVars, docVars, skillVars, diffVars, patchVars,
                  plannerVars, evalVars, opsVars, startVars, retrievalVars,
                  storeVars, vecVars, repairVars, wsVars, gitVars, runnerVars>>

\* The services that are not at work begin in one state only.
ServicesInit ==
    /\ GateInit /\ MemInit /\ SkillInit /\ CodeDiffInit /\ PatchInit
    /\ PlannerInit /\ EvalInit /\ OpsInit /\ StartInit /\ RetrievalInit
    /\ StoreInit /\ VecInit /\ RepairInit /\ WorkspaceInit /\ GitInit
    /\ RunnerInit /\ DocInit
    /\ active \in {"gate", "memory", "skills", "diff", "patch", "planner",
                   "evals", "hosts", "runbooks", "startup", "retrieval",
                   "records", "vectors", "repair", "walks", "git", "runner",
                   "documents"}
    /\ active # "memory" => ~file.legacy
    /\ active # "documents" => handwritten = <<>>
    /\ active # "evals" => \A d \in DOMAIN caseFiles, i \in EvalIds : caseFiles[d][i] = NoCase
    /\ active # "startup" => \A s \in Scopes : remote[s] = NoCollection
    /\ active # "records" => backend = "memory"
    /\ active # "vectors" => kind = "memory"
    /\ active # "repair" => project = {}
    /\ active # "walks" => \A i \in Files : content[i] = Holds(2, 1, FALSE)

\* What a service does in a step of another one: nothing.
Others(vars) == UNCHANGED <<vars, active>>

ServicesNext ==
    \/ active = "gate" /\ GateNext
       /\ Others(<<memVars, skillVars, diffVars, patchVars, plannerVars,
                   evalVars, opsVars, startVars, retrievalVars, storeVars,
                   vecVars, repairVars, wsVars, gitVars, runnerVars, docVars>>)
    \/ active = "memory" /\ MemNext
       /\ Others(<<gateVars, skillVars, diffVars, patchVars, plannerVars,
                   evalVars, opsVars, startVars, retrievalVars, storeVars,
                   vecVars, repairVars, wsVars, gitVars, runnerVars, docVars>>)
    \/ active = "skills" /\ SkillNext
       /\ Others(<<gateVars, memVars, diffVars, patchVars, plannerVars,
                   evalVars, opsVars, startVars, retrievalVars, storeVars,
                   vecVars, repairVars, wsVars, gitVars, runnerVars, docVars>>)
    \/ active = "diff" /\ (TakeDiff \/ ApplyHunk)
       /\ Others(<<gateVars, memVars, skillVars, patchVars, plannerVars,
                   evalVars, opsVars, startVars, retrievalVars, storeVars,
                   vecVars, repairVars, wsVars, gitVars, runnerVars, docVars>>)
    \/ active = "patch" /\ PatchNext
       /\ Others(<<gateVars, memVars, skillVars, diffVars, plannerVars,
                   evalVars, opsVars, startVars, retrievalVars, storeVars,
                   vecVars, repairVars, wsVars, gitVars, runnerVars, docVars>>)
    \/ active = "planner" /\ PlannerNext
       /\ Others(<<gateVars, memVars, skillVars, diffVars, patchVars,
                   evalVars, opsVars, startVars, retrievalVars, storeVars,
                   vecVars, repairVars, wsVars, gitVars, runnerVars, docVars>>)
    \/ active = "evals" /\ EvalNext
       /\ Others(<<gateVars, memVars, skillVars, diffVars, patchVars,
                   plannerVars, opsVars, startVars, retrievalVars, storeVars,
                   vecVars, repairVars, wsVars, gitVars, runnerVars, docVars>>)
    \/ active = "hosts" /\ HostNext
       /\ Others(<<gateVars, memVars, skillVars, diffVars, patchVars,
                   plannerVars, evalVars, startVars, retrievalVars, storeVars,
                   vecVars, repairVars, wsVars, gitVars, runnerVars, docVars>>)
    \/ active = "runbooks" /\ RunbookNext
       /\ Others(<<gateVars, memVars, skillVars, diffVars, patchVars,
                   plannerVars, evalVars, startVars, retrievalVars, storeVars,
                   vecVars, repairVars, wsVars, gitVars, runnerVars, docVars>>)
    \/ active = "startup" /\ StartNext
       /\ Others(<<gateVars, memVars, skillVars, diffVars, patchVars,
                   plannerVars, evalVars, opsVars, retrievalVars, storeVars,
                   vecVars, repairVars, wsVars, gitVars, runnerVars, docVars>>)
    \/ active = "retrieval" /\ RetrievalNext
       /\ Others(<<gateVars, memVars, skillVars, diffVars, patchVars,
                   plannerVars, evalVars, opsVars, startVars, storeVars,
                   vecVars, repairVars, wsVars, gitVars, runnerVars, docVars>>)
    \/ active = "records" /\ StoreNext
       /\ Others(<<gateVars, memVars, skillVars, diffVars, patchVars,
                   plannerVars, evalVars, opsVars, startVars, retrievalVars,
                   vecVars, repairVars, wsVars, gitVars, runnerVars, docVars>>)
    \/ active = "vectors" /\ VecNext
       /\ Others(<<gateVars, memVars, skillVars, diffVars, patchVars,
                   plannerVars, evalVars, opsVars, startVars, retrievalVars,
                   storeVars, repairVars, wsVars, gitVars, runnerVars, docVars>>)
    \/ active = "repair" /\ RepairNext
       /\ Others(<<gateVars, memVars, skillVars, diffVars, patchVars,
                   plannerVars, evalVars, opsVars, startVars, retrievalVars,
                   storeVars, vecVars, wsVars, gitVars, runnerVars, docVars>>)
    \/ active = "walks" /\ WorkspaceNext
       /\ Others(<<gateVars, memVars, skillVars, diffVars, patchVars,
                   plannerVars, evalVars, opsVars, startVars, retrievalVars,
                   storeVars, vecVars, repairVars, gitVars, runnerVars, docVars>>)
    \/ active = "git" /\ GitNext
       /\ Others(<<gateVars, memVars, skillVars, diffVars, patchVars,
                   plannerVars, evalVars, opsVars, startVars, retrievalVars,
                   storeVars, vecVars, repairVars, wsVars, runnerVars, docVars>>)
    \/ active = "runner" /\ RunnerNext
       /\ Others(<<gateVars, memVars, skillVars, diffVars, patchVars,
                   plannerVars, evalVars, opsVars, startVars, retrievalVars,
                   storeVars, vecVars, repairVars, wsVars, gitVars, docVars>>)
    \/ active = "documents" /\ DocNext
       /\ Others(<<gateVars, memVars, skillVars, diffVars, patchVars,
                   plannerVars, evalVars, opsVars, startVars, retrievalVars,
                   storeVars, vecVars, repairVars, wsVars, gitVars, runnerVars>>)

ServicesSpec == ServicesInit /\ [][ServicesNext]_<<ServicesVars, active>>

\* The types of the service at work: the others are in their initial states.
ServicesTypeOK ==
    /\ active = "gate" => GateTypeOK
    /\ active = "memory" => MemTypeOK
    /\ active = "documents" => DocTypeOK
    /\ active = "skills" => SkillTypeOK
    /\ active = "diff" => CodeDiffTypeOK
    /\ active = "patch" => PatchTypeOK
    /\ active = "planner" => PlannerTypeOK
    /\ active = "evals" => EvalTypeOK
    /\ active \in {"hosts", "runbooks"} => OpsTypeOK
    /\ active = "startup" => StartTypeOK
    /\ active = "retrieval" => RetrievalTypeOK
    /\ active = "records" => StoreTypeOK
    /\ active = "vectors" => VecTypeOK
    /\ active = "repair" => RepairTypeOK
    /\ active = "walks" => WorkspaceTypeOK
    /\ active = "git" => GitTypeOK
    /\ active = "runner" => RunnerTypeOK

-----------------------------------------------------------------------------
(* Constants *)

MCDeclared == {<<>>, <<"read">>, <<"send">>, <<"unknown", "post">>}

MCGateTools ==
    [name : {"file", "ops_restart", "runbook"}, path : {TRUE}]
    \cup [name : {"file", "ops_restart"}, path : {FALSE}]
    \cup [name : {"shell"}, redirect : {FALSE}, path : {FALSE}, command : {"post"}]
    \cup [name : {"test"}, command : {"detected"}]
    \cup [name : {"mcp", "skill"}]

MCHandwritten == {<<>>, <<Title, DocText("x", 1)>>, <<DocText("secret", 0)>>}
MCDocTexts ==
    {<<DocText("x", 0)>>, <<DocText("x", 1), DocText("y", 2)>>,
     <<DocText("x", 0), DocText("end", 1)>>, <<DocText("end", 0), DocText("x", 0)>>}

MCSkillWants ==
    [profile : {"restricted"}, network : {"off", "hosts"},
     outside : {FALSE}, interpreter : {FALSE}, namespaces : {TRUE}]
    \cup [profile : {"restricted"}, network : {"on"},
     outside : {FALSE}, interpreter : {TRUE}, namespaces : {TRUE}]
    \cup [profile : {"linux_isolated"}, network : {"on"},
     outside : BOOLEAN, interpreter : {FALSE}, namespaces : {TRUE}]

MCInsertions == {<<>>, <<"x">>, <<"z">>, <<"y", "z">>}

Basic == [mode |-> "semantic_strict", requireLLM |-> FALSE, allowCross |-> FALSE,
          asContext |-> TRUE, semantic |-> TRUE, router |-> "llm"]

MCPlannerConfigs ==
    {Basic, [Basic EXCEPT !.asContext = FALSE],
     [Basic EXCEPT !.allowCross = TRUE],
     [Basic EXCEPT !.semantic = FALSE],
     [Basic EXCEPT !.mode = "hybrid", !.router = "off"],
     [Basic EXCEPT !.mode = "semantic", !.requireLLM = TRUE],
     [Basic EXCEPT !.mode = "heuristic", !.router = "lightweight"]}

\* A case of an evaluation, with nothing in it.
BlankCase == [plan |-> <<>>, tools |-> {}, sequence |-> <<>>, approval |-> "unset",
              refusal |-> "unset", citation |-> "unset", sources |-> FALSE, forbidden |-> {}]

MCEvalCases ==
    {[BlankCase EXCEPT !.plan = <<"read", "write">>, !.tools = {"read"}, !.approval = "yes",
                       !.sequence = <<"read", "write">>],
     [BlankCase EXCEPT !.plan = <<"answer">>, !.citation = "yes", !.refusal = "yes"],
     [BlankCase EXCEPT !.plan = <<"denied", "write">>, !.forbidden = {"read"}, !.tools = {"denied"}]}

MCSourceRuns ==
    {[tools |-> <<"read", "write">>, approvals |-> TRUE, secret |-> FALSE, plan |-> <<"read", "write">>],
     [tools |-> <<"read">>, approvals |-> FALSE, secret |-> TRUE, plan |-> <<"read">>]}

MCRunbooks == {<<"read", "restart", "read">>, <<"none", "restart", "restart">>}

\* Configurations that are valid, that only a fallback makes work, and that are not.
NotSet == [name |-> "", model |-> FALSE, url |-> FALSE, key |-> FALSE]
AFile == [backend |-> "qdrant", fallback |-> TRUE, size |-> "small", recreate |-> FALSE,
          kb |-> TRUE, provider |-> "qdrant", qdrantURL |-> TRUE, pineconeHost |-> TRUE,
          pineconeKey |-> TRUE, openaiURL |-> "openai.com", openaiKey |-> FALSE,
          stores |-> {"kb", "memory"}, llm |-> [NotSet EXCEPT !.model = TRUE, !.key = TRUE],
          embeddings |-> NotSet]
NoEnv == [kb |-> "unset", recreate |-> "unset", provider |-> "unset",
          pineconeKey |-> "unset", stores |-> {}]

MCStartConfigs ==
    [file : {AFile, [AFile EXCEPT !.size = "large"],
             [AFile EXCEPT !.fallback = FALSE, !.size = "large"],
             [AFile EXCEPT !.backend = "memory", !.size = "large"],
             [AFile EXCEPT !.provider = "", !.qdrantURL = FALSE, !.fallback = FALSE],
             [AFile EXCEPT !.provider = "openai", !.backend = "openai", !.stores = {"kb"}],
             [AFile EXCEPT !.provider = "pinecone", !.backend = "pinecone",
                           !.embeddings = [NotSet EXCEPT !.key = TRUE]],
             [AFile EXCEPT !.provider = "pinecone", !.backend = "",
                           !.embeddings = [NotSet EXCEPT !.model = TRUE]]},
     env : {NoEnv, [NoEnv EXCEPT !.recreate = "on", !.stores = {"memory"}],
            [NoEnv EXCEPT !.kb = "off", !.pineconeKey = "empty"],
            [NoEnv EXCEPT !.kb = "junk"], [NoEnv EXCEPT !.pineconeKey = "empty"]}]

MCRemotes ==
    {NoCollection} \cup
    [size : {"small"}, points : {TRUE}, counted : BOOLEAN] \cup
    {[size |-> "small", points |-> FALSE, counted |-> TRUE],
     [size |-> "unknown", points |-> TRUE, counted |-> TRUE]}

\* Two chunks of one knowledge base and one of another.
MCBaseOf == <<"A", "A", "B">>
MCWordsOf == <<{"u", "v"}, {"u"}, {"u", "v"}>>
Both(b) == [base |-> b, query |-> {"u", "v"}]
One(b) == [base |-> b, query |-> {"u"}]
MCAsked == {Both("A"), Both("any"), One("B"), One("nowhere")}
MCRAGSuites == {<<Both("A"), One("B")>>}

MCCatalog == <<"code.inspect_project", "code.read_file", "mcp.call_tool", "runbook.plan", "shell.exec">>

MCChunkLists == {<<>>, <<1>>, <<1, 2>>}

MCProjects == {{}, {"go", "npm"}, {"pytest"}}
Asks(name, first, second) == [name |-> name, first |-> first, second |-> second, shell |-> FALSE]
MCAskedCommands == {Asks("cargo", "test", ""), Asks("npm", "run", "test"), Asks("go", "run", "")}

\* Test runs: one that passes, one that does not end, one whose output is that
\* of Go, longer than what is kept, and one with the forms of the others.
Said(like, name) == [like |-> like, name |-> name]
TestRunOf(exit, timedOut, output) == [exit |-> exit, timedOut |-> timedOut, lines |-> output]
MCTestOutcomes ==
    {TestRunOf(0, FALSE, <<Said("text", "")>>), TestRunOf(0, TRUE, <<>>),
     TestRunOf(1, FALSE, <<Said("fail", "T"), Said("location", "t"), Said("location", "s"),
                        Said("fail", "U"), Said("location", "u")>>),
     TestRunOf(1, FALSE, <<Said("blank", ""), Said("title", "V"), Said("location", "v"),
                        Said("panic", "w")>>)}

\* A sensitive file, a directory that is skipped, and two with a file each.
Dir(parent, skipped, sensitive) ==
    [parent |-> parent, dir |-> TRUE, skipped |-> skipped, sensitive |-> sensitive, language |-> ""]
Plain(parent, sensitive, language) ==
    [parent |-> parent, dir |-> FALSE, skipped |-> FALSE, sensitive |-> sensitive,
     language |-> language]
MCEntries ==
    <<Dir(0, FALSE, FALSE), Plain(1, TRUE, ""), Dir(1, TRUE, FALSE), Plain(3, FALSE, "go"),
      Dir(1, FALSE, FALSE), Plain(5, FALSE, "go"), Plain(1, FALSE, "rust")>>
MCFileContents == {Holds(2, 1, FALSE), Holds(1, 1, TRUE)}
WalkOf(name, root, limit, depth, sensitive) ==
    [tool |-> name, root |-> root, limit |-> limit, depth |-> depth, sensitive |-> sensitive]
MCWalks ==
    {WalkOf("search_text", 1, 3, 0, FALSE), WalkOf("search_text", 3, 3, 0, FALSE),
     WalkOf("search_symbol", 1, 9, 0, TRUE), WalkOf("list", 1, 9, 1, FALSE),
     WalkOf("list", 1, 2, 8, TRUE), WalkOf("list", 5, 9, 1, TRUE),
     WalkOf("detect", 1, 3, 0, FALSE), WalkOf("detect", 1, 9, 0, FALSE)}

\* A skill whose output is cut, and one that names paths.
SkillPath(local, access, within) == [local |-> local, access |-> access, within |-> within]
MCRunCalls ==
    [isolated : BOOLEAN, limits : {TRUE}, mode : {"text", "json"}, document : {2}, output : {3},
     paths : {{}}]
    \cup [isolated : {FALSE}, limits : {FALSE}, mode : {"json"}, document : {1}, output : {1},
          paths : {{SkillPath(TRUE, "read", "write"), SkillPath(FALSE, "write", "outside")},
                   {SkillPath(TRUE, "write", "read")}}]
=============================================================================
