------------------------------ MODULE Retrieval ------------------------------
(***************************************************************************)
(* internal/tools/kb: retrieval over the chunks of the knowledge bases,    *)
(* the answers given from it, and the evaluation that asks its cases one   *)
(* after the other.  A query reads the vector index first and the chunks   *)
(* under the lock after it; documents are indexed and removed meanwhile,   *)
(* the vectors of a document before its chunks (module KnowledgeBase).     *)
(*                                                                         *)
(* A text is the set of its words.  Scores are left out: of more than the  *)
(* wanted number of results any are kept.                                  *)
(***************************************************************************)
EXTENDS FiniteSetsExt, SequencesExt

CONSTANTS
    RChunks,        \* the chunks there may be
    BaseOf,         \* the knowledge base of each
    WordsOf,        \* and its words
    Bases,          \* the knowledge bases there are
    AnyBase,        \* no knowledge base is named
    Asked,          \* what is asked: records of a base and the set of the words
    RAGSuites,      \* the cases of an evaluation, sequences over Asked
    RTopK,          \* the number of results wanted
    MaxIndexing     \* bound: changes of what is indexed

ASSUME RetrievalAssumption ==
    /\ BaseOf \in [RChunks -> Bases]
    /\ \A c \in RChunks : IsFiniteSet(WordsOf[c])
    /\ AnyBase \notin Bases
    /\ RAGSuites \subseteq Seq(Asked)
    /\ RTopK \in Nat \ {0} /\ MaxIndexing \in Nat

SearchModes == {"vector", "keyword", "hybrid"}
\* kb_only and no_citation_no_answer do the same.
AnswerModes == {"search", "normal", "kb_only"}

VARIABLES
    chunkVectors,   \* the chunks in the vector index
    chunks,         \* the chunks in the maps
    indexing,
    asking,         \* the query at work
    answer,         \* what the last query was answered
    toAsk,          \* the cases an evaluation has left
    evalRun,        \* the results of the evaluation
    everSeen,       \* history: chunks that were there at some time of the query
    allAlong        \* history: chunks in the maps from its beginning

retrievalVars == <<chunkVectors, chunks, indexing, asking, answer, toAsk, evalRun,
                   everSeen, allAlong>>

NoQuery == [stage |-> "idle"]
NoAnswer == [status |-> "none"]
NoRun == [status |-> "none"]

RetrievalInit ==
    /\ chunkVectors = {} /\ chunks = {} /\ indexing = 0
    /\ asking = NoQuery /\ answer = NoAnswer
    /\ toAsk = <<>> /\ evalRun = NoRun
    /\ everSeen = {} /\ allAlong = {}

-----------------------------------------------------------------------------
(* What is indexed *)

Indexed ==
    /\ indexing < MaxIndexing /\ indexing' = indexing + 1
    /\ everSeen' = IF asking = NoQuery THEN {} ELSE everSeen \cup chunkVectors' \cup chunks'
    /\ allAlong' = allAlong \cap chunks'
    /\ UNCHANGED <<asking, answer, toAsk, evalRun>>

\* UpsertChunks, or DeleteBySourceFile; the maps follow.
IndexVectors(c) ==
    /\ chunkVectors' = IF c \in chunkVectors THEN chunkVectors \ {c} ELSE chunkVectors \cup {c}
    /\ UNCHANGED chunks
    /\ Indexed

replaceChunks(c) ==
    /\ chunks' = IF c \in chunkVectors THEN chunks \cup {c} ELSE chunks \ {c}
    /\ chunks' # chunks
    /\ UNCHANGED chunkVectors
    /\ Indexed

-----------------------------------------------------------------------------
(* Pieces of a query *)

\* The filters: a base that is named replaces the one of the filters.
MatchesBase(c, base) == base = AnyBase \/ BaseOf[c] = base

Overlap(c, query) == Cardinality(WordsOf[c] \cap query)

\* The wanted of many: which, the scores decide.
Best(found, n) == IF Cardinality(found) <= n THEN {found} ELSE kSubset(n, found)

\* A mutant: the words are looked for in every base.
keywordFoundAnywhere(base, query) == {c \in chunks : Overlap(c, query) > 0}

\* keywordSearch: the chunks with a word of the query.
keywordFound(base, query) == {c \in chunks : MatchesBase(c, base) /\ Overlap(c, query) > 0}

\* strongEvidenceResults: two words of the query, or its only one.
Strong(c, query) == Overlap(c, query) >= (IF Cardinality(query) > 1 THEN 2 ELSE 1)

Requires(mode) == mode = "kb_only"

Begun(asked, mode, search) ==
    /\ asking' = [stage |-> "vector", base |-> asked.base, query |-> asked.query,
               mode |-> mode, search |-> search, found |-> {}]
    /\ everSeen' = chunkVectors \cup chunks /\ allAlong' = chunks

Ended == asking' = NoQuery /\ everSeen' = {} /\ allAlong' = {}

\* What the query at work is answered.
Reply(status, cited) ==
    [status |-> status, cited |-> cited, base |-> asking.base, query |-> asking.query,
     mode |-> asking.mode, seen |-> everSeen, along |-> allAlong]

-----------------------------------------------------------------------------
(* Retrieve and Answer *)

Query(asked, mode, search) ==
    /\ asking = NoQuery /\ evalRun = NoRun
    /\ mode # "search" => search = "hybrid"
    /\ Begun(asked, mode, search) /\ answer' = NoAnswer
    /\ UNCHANGED <<chunkVectors, chunks, indexing, toAsk, evalRun>>

\* An error fails the query, and an evaluation with it: a base that is not
\* there, or an index that does not answer.
QueryFails ==
    /\ asking.stage = "vector"
    /\ asking.search # "keyword" \/ asking.base \notin Bases \cup {AnyBase}
    /\ answer' = Reply("error", {})
    /\ Ended /\ toAsk' = <<>> /\ evalRun' = NoRun
    /\ UNCHANGED <<chunkVectors, chunks, indexing>>

\* The vector index.
VectorSearch ==
    /\ asking.stage = "vector" /\ asking.base \in Bases \cup {AnyBase}
    /\ \E hits \in IF asking.search = "keyword" THEN {{}}
                   ELSE Best({c \in chunkVectors : MatchesBase(c, asking.base)}, 2 * RTopK) :
         asking' = [asking EXCEPT !.stage = "keyword", !.found = hits]
    /\ UNCHANGED <<chunkVectors, chunks, indexing, answer, toAsk, evalRun, everSeen, allAlong>>

\* The chunks, under the lock; what both found is ranked and cut.
Retrieve ==
    /\ asking.stage = "keyword"
    /\ \E hits \in IF asking.search = "vector" THEN {{}}
                   ELSE Best(keywordFound(asking.base, asking.query), 2 * RTopK) :
         \E top \in Best(asking.found \cup hits, RTopK) :
            asking' = [asking EXCEPT !.stage = "answer", !.found = top]
    /\ UNCHANGED <<chunkVectors, chunks, indexing, answer, toAsk, evalRun, everSeen, allAlong>>

Evidence == {c \in asking.found : Requires(asking.mode) => Strong(c, asking.query)}

\* Without evidence there is a refusal; a search just has no results.
Answering == Reply(IF Evidence = {} /\ asking.mode # "search" THEN "refused" ELSE "answered", Evidence)

Respond ==
    /\ asking.stage = "answer" /\ toAsk = <<>>
    /\ answer' = Answering
    /\ Ended
    /\ UNCHANGED <<chunkVectors, chunks, indexing, toAsk, evalRun>>

-----------------------------------------------------------------------------
(* RunRAGEval *)

\* The selected cases are copied under the lock, and sorted.
RunRAGEval(cases) ==
    /\ asking = NoQuery /\ evalRun = NoRun /\ cases # <<>>
    /\ toAsk' = cases
    /\ evalRun' = [status |-> "running", cases |-> cases, results |-> <<>>]
    /\ Begun(Head(cases), "kb_only", "hybrid") /\ answer' = NoAnswer
    /\ UNCHANGED <<chunkVectors, chunks, indexing>>

\* A case is answered and judged, and the next one is asked.
JudgeRAGCase ==
    /\ asking.stage = "answer" /\ toAsk # <<>>
    /\ answer' = Answering
    /\ toAsk' = Tail(toAsk)
    /\ evalRun' = [evalRun EXCEPT !.results = Append(@, Answering),
                                  !.status = IF Len(toAsk) = 1 THEN "saved" ELSE @]
    /\ IF Len(toAsk) = 1 THEN Ended
       ELSE Begun(toAsk[2], "kb_only", "hybrid")
    /\ UNCHANGED <<chunkVectors, chunks, indexing>>

RetrievalNext ==
    \/ \E c \in RChunks : IndexVectors(c) \/ replaceChunks(c)
    \/ \E a \in Asked, m \in AnswerModes, s \in SearchModes : Query(a, m, s)
    \/ QueryFails \/ VectorSearch \/ Retrieve \/ Respond
    \/ \E cases \in RAGSuites : RunRAGEval(cases)
    \/ JudgeRAGCase

RetrievalSpec == RetrievalInit /\ [][RetrievalNext]_retrievalVars

-----------------------------------------------------------------------------
(* Properties *)

RetrievalTypeOK ==
    /\ chunkVectors \subseteq RChunks /\ chunks \subseteq RChunks
    /\ indexing \in 0..MaxIndexing
    /\ asking.stage \in {"idle", "vector", "keyword", "answer"}
    /\ answer.status \in {"none", "answered", "refused", "error"}
    /\ toAsk \in Seq(Asked)
    /\ evalRun.status \in {"none", "running", "saved"}
    /\ everSeen \subseteq RChunks /\ allAlong \subseteq RChunks

\* An answer cites only chunks of the base that was asked, which were there at
\* some time of the query, and if it has to be grounded only such as share
\* enough words with the question; and unless there are more chunks than are
\* wanted, it cites every such chunk that was there all along, so that a
\* refusal means there was none.
Grounded(a) ==
    LET inBase(S) == {c \in S : MatchesBase(c, a.base)}
    IN  a.status \in {"answered", "refused"} =>
            /\ a.cited \subseteq inBase(a.seen)
            /\ Requires(a.mode) => \A c \in a.cited : Strong(c, a.query)
            /\ a.mode # "search" /\ Cardinality(inBase(a.seen)) <= RTopK =>
                  {c \in inBase(a.along) : Strong(c, a.query)} \subseteq a.cited

\* Every answer is grounded, however the index changes under the query, and an
\* evaluation that is saved has answered every case it was begun with, in order.
AnswersAreGrounded ==
    /\ answer # NoAnswer => Grounded(answer)
    /\ evalRun.status = "saved" =>
          /\ Len(evalRun.results) = Len(evalRun.cases)
          /\ \A k \in DOMAIN evalRun.results :
                /\ evalRun.results[k].query = evalRun.cases[k].query
                /\ evalRun.results[k].base = evalRun.cases[k].base
                /\ Grounded(evalRun.results[k])

=============================================================================
