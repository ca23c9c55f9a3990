CONSTANTS
    Declared <- MCDeclared
    GateTools <- MCGateTools
    SkillWants <- MCSkillWants
    GateProfiles = {"strict", "ops", "offline"}
    MaxUpdates = 2
    MemRequests = {a, b}
    MemReviews = {1}
    MaxMemItems = 2
    MaxMemOps = 3
    MaxMemFaults = 2
    Handwritten <- MCHandwritten
    DocTexts <- MCDocTexts
    MaxDocItems = 2
    MaxDocOps = 3
    SkillRequests = {a, b}
    SkillVersions = {1, 2}
    MaxArchives = 2
    MaxRestarts = 1
    Line = {"x", "y", "z"}
    MaxLines = 3
    Insertions <- MCInsertions
    Patchers = {a, b}
    PatchPaths = {f, g}
    Existing = {f}
    MaxPatchFaults = 2
    PlannerConfigs <- MCPlannerConfigs
    Catalog <- MCCatalog
    TopK = 2
    RouterRetries = 1
    PlanRetries = 2
    EvalIds = {1, 2}
    EvalCases <- MCEvalCases
    EvalModes = {"reject_all_writes", "approve_expected_writes"}
    SourceRuns <- MCSourceRuns
    EvalSteps = 3
    MaxEvalEdits = 1
    MaxEvalFaults = 1
    HostIds = {h}
    Targets = {t, u}
    Runbooks <- MCRunbooks
    StepLimits = {2, 5}
    MaxHostEdits = 2
    Scopes = {"kb", "memory"}
    StartConfigs <- MCStartConfigs
    Remotes <- MCRemotes
    MaxStarts = 2
    MaxStartFaults = 1
    RChunks = {1, 2, 3}
    BaseOf <- MCBaseOf
    WordsOf <- MCWordsOf
    Bases = {"A", "B"}
    AnyBase = "any"
    Asked <- MCAsked
    RAGSuites <- MCRAGSuites
    RTopK = 2
    MaxIndexing = 5
    StoreRequests = {q1, q2}
    StoreRuns = {r1}
    Created = {"c"}
    Conversations = {"c", "d"}
    StoreTexts = {"secret"}
    PausedLimit = 1
    MaxIndex = 2
    MaxStoreFaults = 1
    Indexers = {q1, q2}
    VecSources = {s}
    ChunkLists <- MCChunkLists
    MaxVecCalls = 3
    MaxVecFaults = 1
    Projects <- MCProjects
    AskedCommands <- MCAskedCommands
    TestOutcomes <- MCTestOutcomes
    LoopLimit = 3
    Wanted = {0, 2, 9}
    OutputLimit = 4
    ParsedLimit = 2
    ContextLimit = 1
    MaxRepairCalls = 4
    GitCallers = {a, b}
    GitFiles = {1, 2, 3}
    GitPaths = {{}, {2}, {1, 2}}
    NamesLimit = 2
    MaxGitCalls = 2
    MaxGitEdits = 1
    TreeEntries <- MCEntries
    FileContents <- MCFileContents
    Walks <- MCWalks
    MaxTreeEdits = 2
    RunCalls <- MCRunCalls
    Descendants = {1, 2}
    OutputChars = 2
    MaxWritten = 3
SPECIFICATION ServicesSpec
CHECK_DEADLOCK FALSE
INVARIANTS
    ReadOnlyMeansAllowed
