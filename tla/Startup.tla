------------------------------- MODULE Startup -------------------------------
(***************************************************************************)
(* The start of the server: the configuration that is loaded, normalised   *)
(* and validated; the vector index the memory is given, with its fallback  *)
(* to the process's own memory; and the one of the knowledge base, which   *)
(* has none.  Several starts follow each other over the same collections   *)
(* of a Qdrant server, and a start may end between any two requests.       *)
(***************************************************************************)
EXTENDS Naturals

CONSTANTS
    Scopes,         \* what there is a collection for: kb, memory, code
    StartConfigs,   \* the files and environments to start with, a set of RawConfig
    Remotes,        \* the states a collection may be found in
    MaxStarts,      \* bound: starts
    MaxStartFaults  \* bound: requests that fail

Backends == {"memory", "qdrant", "pinecone", "openai"}
Sizes == {"small", "large"}

\* A model provider as it is configured: its name, and what is set.
Provider == [name : {"", "mock", "fake", "openai_compatible", "ollama"},
             model : BOOLEAN, url : BOOLEAN, key : BOOLEAN]

\* The file: addresses and keys are set or not; openaiURL is whose it is.
File == [backend : {""} \cup Backends, fallback : BOOLEAN, size : Sizes, recreate : BOOLEAN,
         kb : BOOLEAN, provider : {""} \cup Backends,
         qdrantURL : BOOLEAN, pineconeHost : BOOLEAN, pineconeKey : BOOLEAN,
         openaiURL : {"openai.com", "other"}, openaiKey : BOOLEAN, stores : SUBSET Scopes,
         llm : Provider, embeddings : Provider]

\* The environment over it.
Flag == {"unset", "on", "off", "junk"}
Environment == [kb : Flag, recreate : Flag, provider : {"unset", ""} \cup Backends,
                pineconeKey : {"unset", "empty", "set"}, stores : SUBSET Scopes]

RawConfig == [file : File, env : Environment]

NoCollection == [size |-> "absent", points |-> FALSE, counted |-> TRUE]
Collection == [size : {"absent", "unknown"} \cup Sizes, points : BOOLEAN, counted : BOOLEAN]

ASSUME StartupAssumption ==
    /\ {"kb", "memory"} \subseteq Scopes
    /\ StartConfigs \subseteq RawConfig /\ Remotes \subseteq Collection
    /\ MaxStarts \in Nat /\ MaxStartFaults \in Nat

VARIABLES
    remote,         \* the collections of the Qdrant server
    startpc, cfg,   \* where the start is, and with what
    role,           \* the index that is opened: the memory's or the knowledge base's
    toEnsure, cur,  \* the collections left to look at, and the one at hand
    opened,         \* what each role got
    starts, startFaults,
    refusal,        \* history: why the start was refused
    troubled,       \* history: a request of this start has failed
    wiped           \* history: collections that were dropped with their points unasked

startVars == <<remote, startpc, cfg, role, toEnsure, cur, opened, starts,
               startFaults, refusal, troubled, wiped>>

Roles == {"memory", "kb"}
Unopened == [r \in Roles |-> "none"]

StartInit ==
    /\ remote \in [Scopes -> Remotes]
    /\ startpc = "off" /\ cfg = "none" /\ role = "memory"
    /\ toEnsure = {} /\ cur = "none"
    /\ opened = Unopened
    /\ starts = 0 /\ startFaults = 0
    /\ refusal = "none" /\ troubled = FALSE /\ wiped = {}

-----------------------------------------------------------------------------
(* config.Load *)

\* A boolean of the environment: unset, it leaves the file's.
Over(flag, value) == IF flag = "unset" THEN value ELSE flag = "on"

\* A value that is set replaces the file's, even if it is empty; a name of a
\* store has to be there.
applyEnv(c, env) ==
    [c EXCEPT !.kb = Over(env.kb, @), !.recreate = Over(env.recreate, @),
              !.provider = IF env.provider = "unset" THEN @ ELSE env.provider,
              !.pineconeKey = IF env.pineconeKey = "unset" THEN @ ELSE env.pineconeKey = "set",
              !.stores = @ \cup env.stores]

\* A provider without a name is the default one, or whatever is compatible with
\* OpenAI if anything is set.
withName(p, default) ==
    IF p.name # "" THEN p
    ELSE [p EXCEPT !.name = IF p.model \/ p.url \/ p.key THEN "openai_compatible" ELSE default]

\* normalizeModelProviders: addresses have defaults, and the embeddings inherit
\* the address and the key of the chat model.
normalizeModelProviders(c) ==
    LET llm == [withName(c.llm, "mock") EXCEPT
                   !.url = @ \/ withName(c.llm, "mock").name \in {"ollama", "openai_compatible"}]
        emb == withName(c.embeddings, "fake")
    IN  [c EXCEPT !.llm = llm,
                  !.embeddings = CASE emb.name = "ollama" -> [emb EXCEPT !.url = TRUE]
                    [] emb.name = "openai_compatible" ->
                          [emb EXCEPT !.url = @ \/ llm.url, !.key = @ \/ llm.key]
                    [] OTHER -> emb]

\* normalizeKnowledgeProviders: the key of the chat model will do for OpenAI.
normalizeKnowledgeProviders(c) ==
    [c EXCEPT !.openaiKey = @ \/ (c.openaiURL = "openai.com" /\ c.llm.key)]

Loadable(raw) == "junk" \notin {raw.env.kb, raw.env.recreate}

\* Load; a backend that is not named is the process's memory.
Load(raw) ==
    LET c == normalizeKnowledgeProviders(normalizeModelProviders(applyEnv(raw.file, raw.env)))
    IN  [c EXCEPT !.backend = IF @ = "" THEN "memory" ELSE @]

-----------------------------------------------------------------------------
(* ValidateRuntime *)

ValidateKnowledgeBase(c) ==
    c.kb => CASE c.provider = "qdrant" -> c.qdrantURL
              [] c.provider = "pinecone" -> c.pineconeHost /\ c.pineconeKey
              [] c.provider = "openai" -> c.openaiKey /\ "kb" \in c.stores
              [] OTHER -> FALSE

ValidateModelProviders(c) ==
    /\ CASE c.llm.name = "openai_compatible" -> c.llm.model \/ ~(c.llm.url \/ c.llm.key)
         [] c.llm.name = "ollama" -> c.llm.model /\ c.llm.url
         [] OTHER -> c.llm.name = "mock"
    /\ CASE c.embeddings.name \in {"openai_compatible", "ollama"} ->
                c.embeddings.model /\ c.embeddings.url
         [] OTHER -> c.embeddings.name = "fake"

\* Qdrant needs no address here.
validateVector(c) ==
    CASE c.backend = "pinecone" -> c.pineconeHost /\ c.pineconeKey
      [] c.backend = "openai" -> c.openaiKey /\ "memory" \in c.stores
      [] OTHER -> TRUE

ValidateRuntime(c) ==
    ValidateKnowledgeBase(c) /\ ValidateModelProviders(c) /\ validateVector(c)

-----------------------------------------------------------------------------
(* Pieces of a start *)

\* The knowledge base has a backend of its own.
Backend == IF role = "kb" THEN cfg.provider ELSE cfg.backend

\* The constructor of an index takes the configuration.
Constructs(b) ==
    CASE b = "qdrant" -> cfg.qdrantURL
      [] b = "pinecone" -> cfg.pineconeHost /\ cfg.pineconeKey
      [] b = "openai" -> cfg.openaiKey
      [] OTHER -> TRUE

\* The constructor of the embedder does.
NewEmbedder(c) ==
    c.embeddings.name = "fake" \/ (c.embeddings.model /\ c.embeddings.url)

RefuseStart(why) == startpc' = "refused" /\ refusal' = why

\* The index is there: the memory is indexed in it, or the server is up.
OpenedAs(index) ==
    /\ opened' = [opened EXCEPT ![role] = index]
    /\ startpc' = IF role = "memory" THEN "reindex" ELSE "serving"
    /\ UNCHANGED refusal

\* It is not: the memory's may be kept in the process, unless a collection
\* holds vectors of another size.
Unavailable(why) ==
    IF role = "memory" /\ cfg.fallback /\ why # "dimension"
    THEN OpenedAs("memory")
    ELSE RefuseStart(why) /\ UNCHANGED opened

\* A request that fails.
RequestFails ==
    /\ startFaults < MaxStartFaults /\ startFaults' = startFaults + 1
    /\ troubled' = TRUE
    /\ Unavailable("request")

NoTrouble == UNCHANGED <<startFaults, troubled>>

-----------------------------------------------------------------------------
(* A start *)

\* main: load, CheckConfig, and the embedder.
StartProcess(raw) ==
    /\ startpc \in {"off", "refused"}
    /\ starts < MaxStarts /\ starts' = starts + 1
    /\ IF ~Loadable(raw) THEN RefuseStart("config") /\ UNCHANGED cfg
       ELSE /\ cfg' = Load(raw)
            /\ IF ~ValidateRuntime(cfg') THEN RefuseStart("config")
               ELSE IF ~NewEmbedder(cfg') THEN RefuseStart("embedder")
               ELSE startpc' = "construct" /\ refusal' = "none"
    /\ role' = "memory" /\ toEnsure' = {} /\ cur' = "none" /\ opened' = Unopened
    /\ troubled' = FALSE /\ wiped' = {}
    /\ UNCHANGED <<remote, startFaults>>

\* NewVectorIndex, up to the first request.
NewVectorIndex ==
    /\ startpc = "construct"
    /\ IF Backend = "memory" THEN OpenedAs("memory")
       ELSE IF ~Constructs(Backend) THEN Unavailable("constructor")
       ELSE /\ startpc' = IF Backend = "openai" THEN "ensure" ELSE "health"
            /\ UNCHANGED <<opened, refusal>>
    /\ toEnsure' = IF Backend = "openai" THEN cfg.stores ELSE Scopes
    /\ NoTrouble
    /\ UNCHANGED <<remote, cfg, role, cur, starts, wiped>>

\* Health: all that Pinecone is asked.
CheckHealth ==
    /\ startpc = "health"
    /\ \/ /\ IF Backend = "pinecone" THEN OpenedAs("pinecone")
             ELSE startpc' = "ensure" /\ UNCHANGED <<opened, refusal>>
          /\ NoTrouble
       \/ RequestFails
    /\ UNCHANGED <<remote, cfg, role, toEnsure, cur, starts, wiped>>

Ensured(s) == toEnsure' = toEnsure \ {s} /\ UNCHANGED <<startpc, opened, refusal, cur>>

\* A collection of another size is dropped if the operator says so, or if it is
\* known to be empty.
\* A mutant: a count that is not known is taken for none.
MayDropUncounted(c) == cfg.recreate \/ ~(c.points /\ c.counted)

MayDrop(c) == cfg.recreate \/ (c.counted /\ ~c.points)

\* EnsureCollections looks at one, in the order of a map.
EnsureCollection(s) ==
    /\ startpc = "ensure" /\ s \in toEnsure
    /\ \/ /\ IF Backend = "openai" \/ remote[s].size = cfg.size THEN Ensured(s)
             ELSE /\ UNCHANGED toEnsure
                  /\ CASE remote[s].size = "absent" ->
                              startpc' = "create" /\ cur' = s /\ UNCHANGED <<opened, refusal>>
                       [] remote[s].size = "unknown" -> Unavailable("unknown") /\ UNCHANGED cur
                       [] remote[s].size \in Sizes ->
                              IF MayDrop(remote[s])
                              THEN startpc' = "drop" /\ cur' = s /\ UNCHANGED <<opened, refusal>>
                              ELSE Unavailable("dimension") /\ UNCHANGED cur
          /\ NoTrouble
       \/ RequestFails /\ UNCHANGED <<toEnsure, cur>>
    /\ UNCHANGED <<remote, cfg, role, starts, wiped>>

AllEnsured ==
    /\ startpc = "ensure" /\ toEnsure = {}
    /\ OpenedAs(Backend)
    /\ NoTrouble
    /\ UNCHANGED <<remote, cfg, role, toEnsure, cur, starts, wiped>>

\* The request to drop or to create one has its effect, or fails with or
\* without it.
DropCollection ==
    /\ startpc = "drop"
    /\ LET dropped == [remote EXCEPT ![cur] = NoCollection]
       IN  \/ remote' = dropped /\ startpc' = "create"
              /\ UNCHANGED <<opened, refusal>> /\ NoTrouble
           \/ remote' \in {remote, dropped} /\ RequestFails
    /\ wiped' = IF remote[cur].points /\ ~cfg.recreate THEN wiped \cup {cur} ELSE wiped
    /\ UNCHANGED <<cfg, role, toEnsure, cur, starts>>

createCollection ==
    /\ startpc = "create"
    /\ LET created == [remote EXCEPT
                         ![cur] = [size |-> cfg.size, points |-> FALSE, counted |-> TRUE]]
       IN  \/ remote' = created /\ startpc' = "ensure"
              /\ UNCHANGED <<opened, refusal>> /\ NoTrouble
           \/ remote' \in {remote, created} /\ RequestFails
    /\ toEnsure' = toEnsure \ {cur}
    /\ UNCHANGED <<cfg, role, cur, starts, wiped>>

\* Points are put into a collection.
Filled(s) == [remote EXCEPT ![s].points = TRUE]

\* memoryStore.Reindex: if it fails, the server starts all the same.  Then it
\* is the knowledge base's turn, if there is one.
ReindexMemory ==
    /\ startpc = "reindex"
    /\ \/ remote' = (IF opened["memory"] = "qdrant" THEN Filled("memory") ELSE remote) /\ NoTrouble
       \/ /\ opened["memory"] # "memory"
          /\ startFaults < MaxStartFaults /\ startFaults' = startFaults + 1
          /\ troubled' = TRUE /\ UNCHANGED remote
    /\ IF cfg.kb THEN startpc' = "construct" /\ role' = "kb"
       ELSE startpc' = "serving" /\ UNCHANGED role
    /\ UNCHANGED <<cfg, toEnsure, cur, opened, starts, refusal, wiped>>

\* A document is indexed.
IndexDocument ==
    /\ startpc = "serving" /\ opened["kb"] = "qdrant"
    /\ remote' = Filled("kb")
    /\ UNCHANGED <<startpc, cfg, role, toEnsure, cur, opened, starts, startFaults,
                   refusal, troubled, wiped>>

\* The process ends, of itself or not.
EndProcess ==
    /\ startpc \notin {"off", "refused"}
    /\ startpc' = "off" /\ opened' = Unopened
    /\ UNCHANGED <<remote, cfg, role, toEnsure, cur, starts, startFaults, refusal,
                   troubled, wiped>>

StartNext ==
    \/ \E raw \in StartConfigs : StartProcess(raw)
    \/ NewVectorIndex \/ CheckHealth
    \/ \E s \in toEnsure : EnsureCollection(s)
    \/ AllEnsured \/ DropCollection \/ createCollection \/ ReindexMemory
    \/ IndexDocument \/ EndProcess

StartSpec == StartInit /\ [][StartNext]_startVars

-----------------------------------------------------------------------------
(* Properties *)

StartTypeOK ==
    /\ remote \in [Scopes -> Collection]
    /\ startpc \in {"off", "refused", "construct", "health", "ensure", "drop", "create",
                    "reindex", "serving"}
    /\ role \in Roles /\ toEnsure \subseteq Scopes /\ cur \in Scopes \cup {"none"}
    /\ opened \in [Roles -> {"none"} \cup Backends]
    /\ starts \in 0..MaxStarts /\ startFaults \in 0..MaxStartFaults
    /\ refusal \in {"none", "config", "embedder", "constructor", "request", "unknown", "dimension"}
    /\ troubled \in BOOLEAN /\ wiped \subseteq Scopes

\* A server that is up has what it was configured for.  Every collection of a
\* Qdrant it uses is there and holds vectors of the configured size, whatever
\* an earlier start with another size or one that was interrupted left behind;
\* the knowledge base is never kept in the process; the memory is only if the
\* operator agreed to it; and the memory is indexed unless a request failed.
ServesWhatFits ==
    startpc = "serving" =>
        /\ \A r \in Roles : opened[r] = "qdrant" =>
              \A s \in Scopes : remote[s].size = cfg.size
        /\ opened["kb"] = IF cfg.kb THEN cfg.provider ELSE "none"
        /\ opened["memory"] # cfg.backend => opened["memory"] = "memory" /\ cfg.fallback
        /\ opened["memory"] = "qdrant" /\ ~troubled => remote["memory"].points

\* What passed the validation is refused only because of what a server
\* answered, or for want of a Qdrant address for the memory, which the
\* validation does not ask for.
RefusedForAReason ==
    startpc = "refused" =>
        CASE refusal = "embedder" -> FALSE
          [] refusal = "constructor" -> role = "memory" /\ cfg.backend = "qdrant" /\ ~cfg.qdrantURL
          [] refusal = "request" -> troubled
          [] refusal \in {"unknown", "dimension"} -> "qdrant" \in {cfg.backend, cfg.provider}
          [] OTHER -> refusal = "config"

\* A start serves what fits or is refused for a reason, and it destroys no
\* vectors but on the operator's word.
StartIsSound == ServesWhatFits /\ RefusedForAReason /\ wiped = {}

=============================================================================
